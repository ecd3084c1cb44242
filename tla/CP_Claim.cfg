CONSTANTS
    t1 = t1
    a1 = a1
    a2 = a2
    slip = slip
    None = None
    Tabs = {t1}
    Kinds = {"password", "derived", "manual", "guardian", "drill"}
    Addresses = {a1, a2}
    Slips = {slip}
    MaxFaults = 2
SPECIFICATION FairSpec
INVARIANT PaysWhatWasReviewed ReceiptIsTrue
PROPERTY  GateOpens
CHECK_DEADLOCK FALSE
