\* A mode ACK that arrives after its wait timed out.  One writer, so that
\* no two mode requests overlap (spec.md section 5 assumes none do).
CONSTANTS
    u1 = u1
    u2 = u2
    m0 = m0
    m1 = m1
    b1 = b1
    b2 = b2
    Users <- MCOneUser
    Modes <- MCModes
    Bauds <- MCBauds
    InitBaud = b1
    MaxWrites = 3
    MaxWire = 3
    Lossy = FALSE
SPECIFICATION Spec
PROPERTY ModeSetOnlyWhenApplied
CHECK_DEADLOCK FALSE
