\* Forced insertion racing a hot-plug insertion: a card is replaced without a removal.
CONSTANTS
    s1 = s1
    s2 = s2
    soft1 = soft1
    NoCard = NoCard
    HwSlots <- MCOneSlot
    InitReaders <- MCOneSlot
    SoftReaders <- MCSoftReaders
    MaxGen = 2
    Forcing = TRUE
    Finalizing = FALSE
SPECIFICATION Spec
PROPERTY NoSilentReplace
