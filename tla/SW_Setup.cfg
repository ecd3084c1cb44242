SPECIFICATION FairSpec
CONSTANTS
    good = good
    poor = poor
    k1 = k1
    k2 = k2
    Passwords = {good}
    Acceptable = {good}
    WalletKeys = {k1, k2}
    None = None
    Demo = TRUE
    Picks = {"often"}
    MaxHeirs = 2
    MaxTries = 2
    MaxFaults = 1
INVARIANT TypeOK  OneGroupOnePlan ClipIsSentOrTold WalletIsTwoKeys
PROPERTY CreateEnds
CHECK_DEADLOCK FALSE
