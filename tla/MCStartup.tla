------------------------------ MODULE MCStartup ------------------------------
(* Model-checking instance of Startup: one removable slot and one soft    *)
(* reader.                                                                *)
EXTENDS Startup

CONSTANTS s1, soft1

MCOneSlot     == {s1}
MCSoftReaders == {soft1}
=============================================================================
