------------------------------ MODULE MCSession ------------------------------
EXTENDS Session

CONSTANTS c1, c2, sa, sb

MCCards == {c1, c2}
MCSlots == {sa, sb}
\* Each card on a slot of its own; and both cards on one slot.
MCCardSlot == (c1 :> sa) @@ (c2 :> sb)
MCSharedSlot == (c1 :> sa) @@ (c2 :> sa)
\* Slot sb is a token without login (PK11_NeedLogin false).
MCNeedLogin == (sa :> TRUE) @@ (sb :> FALSE)
\* ASCII PINs "12" and "1"; 255 is the CAC pad byte.
MCGoodPin == (sa :> <<49, 50>>) @@ (sb :> <<49>>)
MCAsciiPinBytes == {49, 50, 255}
\* With a 0 byte among the PIN bytes LoginChecksPin fails: the PIN is cut at it.
MCBinaryPinBytes == {0, 49, 50, 255}
=============================================================================
