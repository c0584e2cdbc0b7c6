--------------------------- MODULE MCCoordinator ---------------------------
(* Small instances of the coordinator for TLC. *)
EXTENDS CoordinatorQueue, TLC

CONSTANTS i1, i2

\* One batch of both images; either can also be submitted alone.  The instances
\* with one image have no batch.
MCBatches == IF i2 \in Images THEN {<<i1, i2>>} ELSE {}

\* The two fill the byte limit together, and i2 has the largest body allowed.
MCSize == [i \in Images |-> IF i = i1 THEN 1 ELSE 2]

\* Chats differ in nothing but their identity, and neither do models.  The
\* images do: they have a size and a place in the batch.
Symmetric == Permutations(Chats) \cup Permutations(Models)
=============================================================================
