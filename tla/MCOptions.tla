------------------------------ MODULE MCOptions ------------------------------
(* Option strings of soft= readers and use_hw= settings: the keywords,    *)
(* the separators, the type name and one other character.                 *)
EXTENDS Options

MCSyms == {"soft=", "use_hw=", "(", ")", ",", " ", "CAC", "x"}
====
