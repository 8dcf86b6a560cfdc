------------------------------ MODULE MCHotPlug ------------------------------
(* Model-checking instances of HotPlug: two hardware slots of one provider *)
(* module, only the first given a reader at startup, and one soft reader; *)
(* or, where forced presence doubles the interleavings, the first slot.   *)
EXTENDS HotPlug

CONSTANTS s1, s2, soft1

MCHwSlots     == {s1, s2}
MCInitReaders == {s1}
MCSoftReaders == {soft1}

(* Forced presence runs: one hardware slot with a startup reader.          *)
MCOneSlot     == {s1}
=============================================================================
