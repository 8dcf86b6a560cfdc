---------------------------- MODULE MCCardMirror ----------------------------
EXTENDS CardMirror, TLC

CONSTANTS o1, o2, o3, d1, d2

MCObjects == {o1, o2, o3}
\* The empty ID, two one-byte IDs and one with a one-byte ID as prefix.
MCIdVals == {<<>>, <<1>>, <<2>>, <<1, 2>>}
MCDataObjects == {d1, d2}
\* Objects labelled 1 or 2; reads asking for 1, or for 1 2, which has the
\* label 1 as a prefix.
MCLabels == {<<1>>, <<2>>}
MCAsked == {<<1>>, <<1, 2>>}
\* Objects are only told apart by their attributes, and the invariants do
\* not name one: renaming objects or data objects maps behaviours onto
\* behaviours.
MCSymmetry == Permutations(MCObjects) \cup Permutations(MCDataObjects)
=============================================================================
