\* vcard_emul_read_object on a token whose data objects are listed in
\* every order: the object found first in the list is freed before its
\* value is read.
CONSTANTS
    o1 = o1
    o2 = o2
    o3 = o3
    d1 = d1
    d2 = d2
    NoCard = NoCard
    Fail = Fail
    NoValue = NoValue
    Objects <- MCObjects
    IdVals <- MCIdVals
    DataObjects <- MCDataObjects
    Labels <- MCLabels
    Asked <- MCAsked
    UniqueIds = TRUE
SPECIFICATION Spec
SYMMETRY MCSymmetry
INVARIANT NoUseAfterFree
