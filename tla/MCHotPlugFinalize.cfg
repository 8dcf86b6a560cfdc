\* vcard_emul_finalize with the hot-plug thread and forced presence still running: NSS is called after the context is shut down.
CONSTANTS
    s1 = s1
    s2 = s2
    soft1 = soft1
    NoCard = NoCard
    HwSlots <- MCOneSlot
    InitReaders <- MCOneSlot
    SoftReaders <- MCSoftReaders
    MaxGen = 3
    Forcing = TRUE
    Finalizing = TRUE
SPECIFICATION Spec
PROPERTY NoProviderCallAfterShutdown
