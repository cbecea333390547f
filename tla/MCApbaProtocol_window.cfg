\* The window between the BAUD_REQUEST and mods_uart_lock_tx(true).
CONSTANTS
    u1 = u1
    u2 = u2
    m0 = m0
    m1 = m1
    b1 = b1
    b2 = b2
    Users <- MCUsers
    Modes <- MCModes
    Bauds <- MCBauds
    InitBaud = b1
    MaxWrites = 3
    MaxWire = 3
    Lossy = FALSE
SPECIFICATION Spec
INVARIANT NoFrameAtStaleRate
CHECK_DEADLOCK FALSE
