\* Forced insertion racing a token removal: a card is left in a reader whose token is gone.
CONSTANTS
    s1 = s1
    s2 = s2
    soft1 = soft1
    NoCard = NoCard
    HwSlots <- MCOneSlot
    InitReaders <- MCOneSlot
    SoftReaders <- MCSoftReaders
    MaxGen = 2
    Forcing = TRUE
    Finalizing = FALSE
SPECIFICATION Spec
PROPERTY RemovalSeen
