\* vcard_emul_init from its first call, then the hot-plug thread, forced
\* presence and finalization on one removable slot and one soft reader.
CONSTANTS
    s1 = s1
    soft1 = soft1
    NoCard = NoCard
    HwSlots <- MCOneSlot
    InitReaders <- MCOneSlot
    SoftReaders <- MCSoftReaders
    MaxGen = 2
    Forcing = TRUE
    Finalizing = TRUE
SPECIFICATION StartSpec
INVARIANT TypeOK
PROPERTIES Converges FailedInitIsFinal
