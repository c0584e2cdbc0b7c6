----------------------------- MODULE LeaseQueue -----------------------------
(***************************************************************************)
(* What a lease manager promises, without ownership, handoffs, drains or   *)
(* cancellation: requests wait in one line, chats and images alike; they   *)
(* may leave it, but nobody overtakes; the first one gets the GPU once     *)
(* those that have it let it; and an image never shares it.                *)
(***************************************************************************)
EXTENDS Integers, Sequences

CONSTANTS
  Chats,
  Images,
  Arrivals,  \* the sequences of requests that may arrive together
  Alone      \* does a chat share the GPU with no other chat either?

VARIABLES
  line,   \* the requests that wait, in the order of their arrival
  using   \* those that have the GPU

leaseVars == <<line, using>>

\* t is s without some of its members.
Keeps(s, t) ==
  \E place \in [DOMAIN t -> DOMAIN s] :
    /\ \A j, k \in DOMAIN t : j < k => place[j] < place[k]
    /\ \A k \in DOMAIN t : t[k] = s[place[k]]

LeaseInit == line = <<>> /\ using = {}

Join(s) ==
  /\ \A k \in DOMAIN s : s[k] \notin using /\ \A j \in DOMAIN line : line[j] # s[k]
  /\ line' = line \o s
  /\ UNCHANGED using

\* Requests are refused or withdrawn; the others keep their order.
Leave == Keeps(line, line') /\ UNCHANGED using

\* The first in the line gets the GPU.
Begin(w) ==
  /\ line # <<>> /\ w = Head(line)
  /\ w \in Images \/ Alone => using = {}
  /\ using \cap Images = {}
  /\ line' = Tail(line)
  /\ using' = using \cup {w}

End(w) ==
  /\ w \in using
  /\ using' = using \ {w}
  /\ UNCHANGED line

LeaseNext ==
  \/ \E s \in Arrivals : Join(s)
  \/ Leave
  \/ \E w \in Chats \cup Images : Begin(w) \/ End(w)

LeaseSpec == LeaseInit /\ [][LeaseNext]_leaseVars
=============================================================================
