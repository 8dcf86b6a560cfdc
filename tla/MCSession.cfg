CONSTANTS
    c1 = c1
    c2 = c2
    sa = sa
    sb = sb
    Cards <- MCCards
    Slots <- MCSlots
    CardSlot <- MCCardSlot
    NeedLogin <- MCNeedLogin
    GoodPin <- MCGoodPin
    PinBytes <- MCAsciiPinBytes
    MaxPinLen = 3
SPECIFICATION Spec
INVARIANTS TypeOK LoginChecksPin
