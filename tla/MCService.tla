----------------------------- MODULE MCService ------------------------------
(* Small instances of the service for TLC. *)
EXTENDS MCCoordinator, ServiceProps

\* Media jobs submit batches, here of one image.
OneImageBatches == {<<i1>>}

\* Of the models of the combined backend only some are KoboldCpp's.
ChatSymmetry == Permutations(Chats)
=============================================================================
