CONSTANTS
    k1 = k1
    k2 = k2
    Keys <- MCOneKey
    N = 5
    MinPad = 0
    InBytes <- MCInBytes
    RawPriv <- MCRawPriv
SPECIFICATION Spec
INVARIANT SucceedsLikeCard
