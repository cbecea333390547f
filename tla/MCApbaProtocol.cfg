\* A UART that may lose frames.
CONSTANTS
    u1 = u1
    u2 = u2
    m0 = m0
    m1 = m1
    b1 = b1
    b2 = b2
    Users <- MCUsers
    Modes <- MCModes
    Bauds <- MCBauds
    InitBaud = b1
    MaxWrites = 3
    MaxWire = 3
    Lossy = TRUE
SPECIFICATION Spec
INVARIANT TxUnlockedAtRest
PROPERTY HostSwitchesOnlyToApbaRate
CHECK_DEADLOCK FALSE
