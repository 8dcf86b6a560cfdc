----------------------------- MODULE CardMirror -----------------------------
(***************************************************************************)
(* vcard_emul_mirror_card and vcard_emul_make_card: a card is built from  *)
(* the certificate objects PK11_FindGenericObjects lists on a token, in   *)
(* whatever order the module lists them.  Each object whose CKA_VALUE and *)
(* CKA_ID can be read, and whose value makes a temporary certificate, is  *)
(* placed by insertion on its CKA_ID into four parallel arrays (certs,    *)
(* cert_len, keys, ids); the card's serial is a hash of the first cert.   *)
(*                                                                         *)
(* An object stands for its DER value; cert_len travels with certs and is *)
(* not kept apart.  A key made by vcard_emul_make_key is named by the     *)
(* object whose certificate it holds.                                     *)
(*                                                                         *)
(* vcard_emul_read_object looks a data object (CKO_DATA) of the same      *)
(* token up by its CKA_LABEL and returns its CKA_VALUE; a data object     *)
(* stands for its value.                                                   *)
(***************************************************************************)
EXTENDS Naturals, Sequences, SequencesExt

CONSTANTS
    Objects,    \* certificate objects a token may hold
    IdVals,     \* CKA_ID values: byte strings
    UniqueIds,  \* whether the token gives its objects distinct CKA_IDs
    NoCard,     \* a NULL VCard *
    DataObjects, \* data objects a token may hold
    Labels,     \* CKA_LABEL values: byte strings, none holding a 0
    Asked,      \* the labels the card layer asks read_object for
    NoValue,    \* a NULL unsigned char *
    Fail        \* PK11_ReadRawAttribute did not return SECSuccess

VARIABLES
    onToken,    \* the certificate objects on the token now
    valueOk,    \* CKA_VALUE readable and CERT_NewTempCertificate succeeds
    id,         \* CKA_ID of each object, or Fail
    typeNone,   \* vcard_emul_get_type(reader) == VCARD_EMUL_NONE
    mirrors,    \* cards mirrored from the token since it last changed
    dataOn,     \* the data objects on the token
    label,      \* CKA_LABEL of each data object, or Fail
    dataValueOk, \* its CKA_VALUE can be read
    lastRead    \* the label asked for by the last read and its result

mirror == <<onToken, valueOk, id, typeNone, mirrors>>
data == <<dataOn, label, dataValueOk, lastRead>>
vars == <<mirror, data>>

NoRead == [label |-> <<>>, value |-> NoValue, freed |-> FALSE]

(* SECITEM_CompareItem(a, b) == SECLessThan: memcmp over the shorter     *)
(* length, then the shorter item first.                                   *)
ItemLess(a, b) ==
    LET m == IF Len(a) < Len(b) THEN Len(a) ELSE Len(b)
        d == {i \in 1..m : a[i] # b[i]}
    IN IF d # {} THEN a[Min(d)] < b[Min(d)] ELSE Len(a) < Len(b)

(* for (i = 0; i < cert_count; i++) if (id < ids[i]) break;               *)
InsertPos(ids, x) ==
    LET later == {i \in 1..Len(ids) : ItemLess(x, ids[i])}
    IN IF later = {} THEN Len(ids) + 1 ELSE Min(later)

AddCertIdAsCert(a, o) ==
    IF ~valueOk[o] \/ id[o] = Fail THEN a
    ELSE LET i == InsertPos(a.ids, id[o])
         IN [certs |-> InsertAt(a.certs, i, id[o]),
             keys  |-> InsertAt(a.keys, i, o),
             ids   |-> InsertAt(a.ids, i, id[o])]

AddCertKeysNotMoved(a, o) ==
    IF ~valueOk[o] \/ id[o] = Fail THEN a
    ELSE LET i == InsertPos(a.ids, id[o])
         IN [certs |-> InsertAt(a.certs, i, o),
             keys  |-> IF i <= Len(a.keys) THEN [a.keys EXCEPT ![i] = o]
                                          ELSE Append(a.keys, o),
             ids   |-> InsertAt(a.ids, i, id[o])]

(* One turn of the fill loop: skip an object that cannot be read, else    *)
(* memmove the tails of all the arrays up by one and store at i.          *)
AddCert(a, o) ==
    IF ~valueOk[o] \/ id[o] = Fail THEN a
    ELSE LET i == InsertPos(a.ids, id[o])
         IN [certs |-> InsertAt(a.certs, i, o),
             keys  |-> InsertAt(a.keys, i, o),
             ids   |-> InsertAt(a.ids, i, id[o])]

(* vcard_emul_make_card: NULL for a reader of type NONE; otherwise a card *)
(* whose serial is made from certs[0] when there is one.                  *)
MakeCard(certs, keys) ==
    IF typeNone THEN NoCard
    ELSE [certs  |-> certs,
          keys   |-> keys,
          serial |-> IF certs = <<>> THEN "none" ELSE certs[1]]

(* vcard_emul_mirror_card for the objects listed in the order given.      *)
MirrorCard(listed) ==
    IF listed = <<>> THEN NoCard
    ELSE LET a == FoldLeft(AddCert, [certs |-> <<>>, keys |-> <<>>,
                                     ids |-> <<>>], listed)
         IN MakeCard(a.certs, a.keys)

LabelMatchesPrefix(l, r) ==
    Len(r) <= Len(l) /\ \A n \in 1..Len(r) : l[n] = r[n]

(* strlen(label) == result.len && memcmp(label, result.data, result.len)  *)
LabelMatches(l, r) ==
    Len(r) = Len(l) /\ \A n \in 1..Len(r) : l[n] = r[n]

(* The loop over PK11_FindGenericObjects(slot, CKO_DATA): a CKA_LABEL     *)
(* that cannot be read ends the search with NULL; the first object whose  *)
(* label matches is unlinked and kept.                                     *)
RECURSIVE FindLabelled(_, _)
FindLabelled(listed, l) ==
    IF listed = <<>> THEN NoValue
    ELSE IF label[Head(listed)] = Fail THEN NoValue
    ELSE IF LabelMatches(l, label[Head(listed)]) THEN Head(listed)
    ELSE FindLabelled(Tail(listed), l)

(* PK11_UnlinkGenericObject(o) then PK11_DestroyGenericObjects(first):  *)
(* the destroy walks the list from first, by next and prev.  When o was   *)
(* first, unlinking left it alone with no neighbours, so it is o that is  *)
(* destroyed and the rest of the list that is not.                        *)
DestroyedWith(listed, o) ==
    IF o = NoValue THEN ToSet(listed)
    ELSE IF Head(listed) = o THEN {o}
    ELSE ToSet(listed) \ {o}

(* vcard_emul_read_object: the CKA_VALUE of the object found, or NULL     *)
(* when none is found or its value cannot be read.                        *)
ReadObject(listed, l) ==
    LET o == FindLabelled(listed, l)
    IN IF o = NoValue THEN NoValue ELSE IF dataValueOk[o] THEN o ELSE NoValue

Init ==
    /\ onToken \in SUBSET Objects
    /\ valueOk \in [Objects -> BOOLEAN]
    /\ id \in [Objects -> IdVals \cup {Fail}]
    /\ UniqueIds =>
         \A p, q \in Objects : p # q /\ id[p] # Fail => id[p] # id[q]
    /\ typeNone \in BOOLEAN
    /\ mirrors = {}
    /\ dataOn \in SUBSET DataObjects
    /\ label \in [DataObjects -> Labels \cup {Fail}]
    /\ dataValueOk \in [DataObjects -> BOOLEAN]
    /\ lastRead = NoRead

(* The reader's slot is mirrored (at startup, on an insertion event or on *)
(* a forced insert); the module lists the objects in any order.           *)
Mirror ==
    /\ \E listed \in SetToSeqs(onToken) :
           mirrors' = mirrors \cup {MirrorCard(listed)}
    /\ UNCHANGED <<onToken, valueOk, id, typeNone, data>>

(* A certificate object is written to or deleted from the token; what    *)
(* was mirrored before no longer describes it.                            *)
WriteObject(o) ==
    /\ o \notin onToken
    /\ onToken' = onToken \cup {o}
    /\ mirrors' = {}
    /\ UNCHANGED <<valueOk, id, typeNone, data>>

DeleteObject(o) ==
    /\ o \in onToken
    /\ onToken' = onToken \ {o}
    /\ mirrors' = {}
    /\ UNCHANGED <<valueOk, id, typeNone, data>>

(* The card layer reads the data object with a label, its objects listed *)
(* in any order.                                                           *)
Read ==
    /\ \E l \in Asked, listed \in SetToSeqs(dataOn) :
           LET o     == FindLabelled(listed, l)
               freed == o # NoValue /\ o \in DestroyedWith(listed, o)
           IN  \* CKA_VALUE read from a destroyed object: it may still be
               \* there, or the read may fail.
               \E v \in IF freed THEN {ReadObject(listed, l), NoValue}
                                ELSE {ReadObject(listed, l)} :
                   lastRead' = [label |-> l, value |-> v, freed |-> freed]
    /\ UNCHANGED <<mirror, dataOn, label, dataValueOk>>

Next ==
    \/ Mirror \/ Read
    \/ \E o \in Objects : WriteObject(o) \/ DeleteObject(o)

Spec == Init /\ [][Next]_vars

-----------------------------------------------------------------------------
Cards == [certs : Seq(Objects), keys : Seq(Objects),
          serial : Objects \cup {"none"}]

TypeOK ==
    /\ onToken \subseteq Objects
    /\ valueOk \in [Objects -> BOOLEAN]
    /\ id \in [Objects -> IdVals \cup {Fail}]
    /\ typeNone \in BOOLEAN
    /\ mirrors \subseteq Cards \cup {NoCard}
    /\ dataOn \subseteq DataObjects
    /\ label \in [DataObjects -> Labels \cup {Fail}]
    /\ dataValueOk \in [DataObjects -> BOOLEAN]
    /\ lastRead \in {NoRead} \cup
                    [label : Asked, value : DataObjects \cup {NoValue},
                     freed : BOOLEAN]

(* Byte strings in ascending binary order, a proper prefix first.         *)
RECURSIVE LexLeq(_, _)
LexLeq(a, b) ==
    \/ a = <<>>
    \/ /\ b # <<>>
       /\ \/ a[1] < b[1]
          \/ a[1] = b[1] /\ LexLeq(Tail(a), Tail(b))

Readable == {o \in onToken : valueOk[o] /\ id[o] # Fail}

(* Every mirror of a token holding certificate objects, for a reader that *)
(* is not of type NONE, is a card with each readable certificate exactly  *)
(* once, in ascending CKA_ID order, the i-th key holding the i-th cert:   *)
(* the memmoves keep the four arrays in step whatever the listing order.  *)
MirrorFaithful ==
    \A c \in mirrors :
        IF onToken = {} \/ typeNone THEN c = NoCard
        ELSE /\ c # NoCard
             /\ Len(c.certs) = Cardinality(Readable)
             /\ ToSet(c.certs) = Readable
             /\ c.keys = c.certs
             /\ \A i, j \in 1..Len(c.certs) :
                   i < j => LexLeq(id[c.certs[i]], id[c.certs[j]])

(* On a token whose data objects all have readable, distinct labels, a   *)
(* read of label l that reads a live object gives the value of the object *)
(* labelled l, or NULL when there is none or its value cannot be read,    *)
(* whatever the listing order: read_object compares the whole label, its  *)
(* length included.                                                        *)
ReadObjectFaithful ==
    LET l == lastRead.label
        m == {d \in dataOn : label[d] = l}
    IN  /\ lastRead # NoRead
        /\ ~lastRead.freed
        /\ \A d \in dataOn : label[d] # Fail
        /\ \A d, e \in dataOn : d # e => label[d] # label[e]
        => lastRead.value = IF m # {} /\ \E d \in m : dataValueOk[d]
                            THEN CHOOSE d \in m : TRUE ELSE NoValue

(* read_object reads CKA_VALUE only from an object it has not destroyed:  *)
(* the object found is unlinked from the list before the list is freed.   *)
NoUseAfterFree == ~lastRead.freed
=============================================================================
