------------------------------ MODULE Overlays -------------------------------
(* A dictionary with keys of another one written over it, as TLC's module   *)
(* has it, whose operators the proof system does not expand.                *)

x :> value == [y \in {x} |-> value]

f @@ g == [x \in DOMAIN f \cup DOMAIN g |-> IF x \in DOMAIN f THEN f[x] ELSE g[x]]
=============================================================================
