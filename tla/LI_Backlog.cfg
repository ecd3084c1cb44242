CONSTANTS
    v1 = v1
    v2 = v2
    i1 = i1
    i2 = i2
    Vaults = {v1}
    Nobody = Nobody
    Invoices = {i1, i2}
    CheckinPeriod = 1
    GracePeriod = 3
    FreezePeriod = 2
    InvoiceLife = 5
    BatchSize = 1
    HeartbeatSat = 1
    MaxTime = 7
    MaxFaults = 1
SPECIFICATION Spec
SYMMETRY Interchangeable
INVARIANT PaymentIsSeen
PROPERTY PaymentBuysTime
