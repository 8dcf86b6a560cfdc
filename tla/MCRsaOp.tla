------------------------------- MODULE MCRsaOp -------------------------------
EXTENDS RsaOp

CONSTANTS k1, k2

MCKeys == {k1, k2}
MCOneKey == {k1}
MCInBytes == {0, 1, 2, 255}

(* A stand-in for the RSA private-key map: rotate the block by one byte   *)
(* and permute byte values.  Any injective map on N-byte blocks will do.  *)
Perm == (0 :> 1) @@ (1 :> 0) @@ (2 :> 255) @@ (255 :> 2)
MCRawPriv(b) == [i \in 1..N |-> Perm[b[IF i = N THEN 1 ELSE i + 1]]]
=============================================================================
