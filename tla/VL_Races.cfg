CONSTANTS
    r1 = r1
    r2 = r2
    Requests = {r1}
    CheckinPeriod = 1
    GracePeriod = 1
    ChallengeWindow = 1
    FreezePeriod = 2
    Timelock = 2
    LastResort = 1
    LightningOn = TRUE
    PasswordVault = FALSE
    OwnerActs = {"checkin", "lightning", "panic"}
    Serial = FALSE
    MaxTime = 6
    MaxTokens = 3
    MaxFaults = 1
    MaxDeposits = 1
SPECIFICATION Spec
INVARIANT TypeOK HeirLinkOnlyDuringClaim ClaimedMeansPaid
PROPERTY HeirContactAfterFullClock 
