CONSTANTS
    r1 = r1
    r2 = r2
    Requests = {r1, r2}
    CheckinPeriod = 1
    GracePeriod = 1
    ChallengeWindow = 1
    FreezePeriod = 2
    Timelock = 2
    LastResort = 1
    LightningOn = TRUE
    PasswordVault = FALSE
    OwnerActs = {}
    Serial = FALSE
    MaxTime = 5
    MaxTokens = 3
    MaxFaults = 0
    MaxDeposits = 1
SPECIFICATION FairSpec
INVARIANT ChallengeAlertsOwner
PROPERTY HeirIsPaid
