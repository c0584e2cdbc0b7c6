-------------------------- MODULE CoordinatorQueue --------------------------
(* The coordinator as an implementation of LeaseQueue.                     *)
EXTENDS CoordinatorInv

\* The dispatcher takes the first request off the FIFO before it hands the GPU
\* over to it; a request that was cancelled has left, and a dispatcher that
\* is cancelled answers the one in its hands.
Dispatched == IF current = None \/ cancelled \/ ComfyAtWork THEN <<>> ELSE <<current>>

Line == Dispatched \o queue

Using == Granted \cup (IF ComfyAtWork THEN {current} ELSE {})

Lease == INSTANCE LeaseQueue WITH
  line <- Line, using <- Using,
  Arrivals <- {<<w>> : w \in Work} \cup Batches,
  Alone <- Serial

\* Requests are served in the order in which they came, across both kinds and
\* whatever fails or is withdrawn in between, and the GPU is only shared by
\* chats, if the backend serves more than one at a time (HandoffCoordinator,
\* "FIFO"; _next_work, _dispatch_chat, _dispatch_image).
ServesInOrder == Lease!LeaseSpec
=============================================================================
