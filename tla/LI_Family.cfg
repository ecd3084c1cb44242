CONSTANTS
    v1 = v1
    v2 = v2
    i1 = i1
    i2 = i2
    Vaults = {v1, v2}
    Nobody = Nobody
    Invoices = {i1, i2}
    CheckinPeriod = 2
    GracePeriod = 1
    FreezePeriod = 2
    InvoiceLife = 3
    BatchSize = 2
    HeartbeatSat = 1
    MaxTime = 4
    MaxFaults = 0
SPECIFICATION Spec
SYMMETRY Interchangeable
PROPERTY HeartbeatCoversFamily OncePerPeriod 
