\* The hot-plug thread on its own (no forced presence): it converges and
\* never replaces a card silently.
CONSTANTS
    s1 = s1
    s2 = s2
    soft1 = soft1
    NoCard = NoCard
    HwSlots <- MCHwSlots
    InitReaders <- MCInitReaders
    SoftReaders <- MCSoftReaders
    MaxGen = 2
    Forcing = FALSE
    Finalizing = FALSE
SPECIFICATION Spec
INVARIANT TypeOK
PROPERTIES PresenceRefined NoSilentReplace NoRebuildOnSameSeries EventReaderFollows
