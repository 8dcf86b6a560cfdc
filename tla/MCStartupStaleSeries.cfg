\* A token swapped while vcard_emul_init mirrors it: the reader keeps the
\* old token's card for good.
CONSTANTS
    s1 = s1
    soft1 = soft1
    NoCard = NoCard
    HwSlots <- MCOneSlot
    InitReaders <- MCOneSlot
    SoftReaders <- MCSoftReaders
    MaxGen = 3
    Forcing = FALSE
    Finalizing = FALSE
SPECIFICATION StartSpec
PROPERTY Settles
