CONSTANTS
    o1 = o1
    o2 = o2
    o3 = o3
    d1 = d1
    d2 = d2
    NoValue = NoValue
    DataObjects <- MCDataObjects
    Labels <- MCLabels
    Asked <- MCAsked
    NoCard = NoCard
    Fail = Fail
    Objects <- MCObjects
    IdVals <- MCIdVals
    UniqueIds = TRUE
SPECIFICATION Spec
SYMMETRY MCSymmetry
INVARIANTS TypeOK MirrorFaithful ReadObjectFaithful
