-------------------------- MODULE CoordinatorSafety --------------------------
(* The invariant of CoordinatorInv is inductive, and what follows from it:  *)
(* who may use the GPU, for every value of the constants.                   *)
EXTENDS CoordinatorInv, CoordinatorTypes, SequenceTheorems

-----------------------------------------------------------------------------
(* Sequences without repetition.                                           *)

\* Taking the head off leaves the other elements.
LEMMA TailElements ==
  ASSUME NEW S, NEW q \in Seq(S), q # <<>>, Distinct(q)
  PROVE  /\ Distinct(Tail(q))
         /\ Elements(Tail(q)) = Elements(q) \ {Head(q)}
<1>1. /\ DOMAIN q = 1 .. Len(q) /\ Len(q) \in Nat \ {0}
      /\ DOMAIN Tail(q) = 1 .. Len(q) - 1
      /\ \A k \in 1 .. Len(q) - 1 : Tail(q)[k] = q[k + 1]
      /\ Head(q) = q[1]
  OBVIOUS
<1>2. Distinct(Tail(q))
  BY <1>1 DEF Distinct
<1>3. ASSUME NEW w \in Elements(Tail(q)) PROVE w \in Elements(q) \ {Head(q)}
  <2>1. PICK k \in 1 .. Len(q) - 1 : w = q[k + 1]
    BY <1>1 DEF Elements
  <2>2. k + 1 \in DOMAIN q /\ 1 \in DOMAIN q /\ k + 1 # 1
    BY <1>1
  <2>3. q[k + 1] # q[1]
    BY <2>2 DEF Distinct
  <2>4. QED
    BY <1>1, <2>1, <2>2, <2>3 DEF Elements
<1>4. ASSUME NEW w \in Elements(q) \ {Head(q)} PROVE w \in Elements(Tail(q))
  <2>1. PICK k \in DOMAIN q : w = q[k]
    BY DEF Elements
  <2>2. k # 1
    BY <1>1, <2>1
  <2>3. k - 1 \in DOMAIN Tail(q) /\ Tail(q)[k - 1] = w
    BY <1>1, <2>1, <2>2
  <2>4. QED
    BY <2>3 DEF Elements
<1>5. QED
  BY <1>2, <1>3, <1>4

\* The places of a concatenation.
LEMMA ConcatPlaces ==
  ASSUME NEW S, NEW q \in Seq(S), NEW s \in Seq(S)
  PROVE  /\ DOMAIN q = 1 .. Len(q) /\ Len(q) \in Nat
         /\ DOMAIN s = 1 .. Len(s) /\ Len(s) \in Nat
         /\ DOMAIN (q \o s) = 1 .. Len(q) + Len(s)
         /\ \A k \in 1 .. Len(q) + Len(s) :
              (q \o s)[k] = IF k <= Len(q) THEN q[k] ELSE s[k - Len(q)]
OBVIOUS

\* Joining disjoint sequences joins their elements.
LEMMA ConcatElements ==
  ASSUME NEW S, NEW q \in Seq(S), NEW s \in Seq(S), Distinct(q), Distinct(s),
         Elements(q) \cap Elements(s) = {}
  PROVE  /\ Distinct(q \o s)
         /\ Elements(q \o s) = Elements(q) \cup Elements(s)
<1>1. /\ DOMAIN q = 1 .. Len(q) /\ Len(q) \in Nat
      /\ DOMAIN s = 1 .. Len(s) /\ Len(s) \in Nat
      /\ DOMAIN (q \o s) = 1 .. Len(q) + Len(s)
      /\ \A k \in 1 .. Len(q) + Len(s) :
           (q \o s)[k] = IF k <= Len(q) THEN q[k] ELSE s[k - Len(q)]
  BY ConcatPlaces
<1>2. \A j \in DOMAIN q, k \in DOMAIN s : q[j] # s[k]
  BY DEF Elements
<1> DEFINE r == q \o s
<1>3. Distinct(r)
  <2> SUFFICES ASSUME NEW j \in DOMAIN r, NEW k \in DOMAIN r, r[j] = r[k] PROVE j = k
    BY DEF Distinct
  <2>1. CASE j <= Len(q) /\ k <= Len(q)
    BY <1>1, <2>1 DEF Distinct
  <2>2. CASE j > Len(q) /\ k > Len(q)
    <3>1. j - Len(q) \in DOMAIN s /\ k - Len(q) \in DOMAIN s
      BY <1>1, <2>2
    <3>2. s[j - Len(q)] = s[k - Len(q)]
      BY <1>1, <2>2
    <3>3. j - Len(q) = k - Len(q)
      BY <3>1, <3>2 DEF Distinct
    <3>4. QED
      BY <1>1, <3>3
  <2>3. CASE j <= Len(q) /\ k > Len(q)
    <3>1. j \in DOMAIN q /\ k - Len(q) \in DOMAIN s /\ q[j] = s[k - Len(q)]
      BY <1>1, <2>3
    <3>2. QED
      BY <3>1, <1>2
  <2>4. CASE j > Len(q) /\ k <= Len(q)
    <3>1. k \in DOMAIN q /\ j - Len(q) \in DOMAIN s /\ q[k] = s[j - Len(q)]
      BY <1>1, <2>4
    <3>2. QED
      BY <3>1, <1>2
  <2>5. QED
    BY <1>1, <2>1, <2>2, <2>3, <2>4
<1>4. ASSUME NEW w \in Elements(r) PROVE w \in Elements(q) \cup Elements(s)
  <2>1. PICK k \in DOMAIN r : w = r[k]
    BY DEF Elements
  <2>2. CASE k <= Len(q)
    BY <1>1, <2>1, <2>2 DEF Elements
  <2>3. CASE k > Len(q)
    <3>1. k - Len(q) \in DOMAIN s /\ w = s[k - Len(q)]
      BY <1>1, <2>1, <2>3
    <3>2. QED
      BY <3>1 DEF Elements
  <2>4. QED
    BY <1>1, <2>2, <2>3
<1>5. ASSUME NEW w \in Elements(q) \cup Elements(s) PROVE w \in Elements(r)
  <2>1. CASE w \in Elements(q)
    <3>1. PICK k \in DOMAIN q : w = q[k]
      BY <2>1 DEF Elements
    <3>2. k \in DOMAIN r /\ r[k] = w
      BY <1>1, <3>1
    <3>3. QED
      BY <3>2 DEF Elements
  <2>2. CASE w \in Elements(s)
    <3>1. PICK k \in DOMAIN s : w = s[k]
      BY <2>2 DEF Elements
    <3>2. k + Len(q) \in DOMAIN r /\ r[k + Len(q)] = w
      BY <1>1, <3>1
    <3>3. QED
      BY <3>2 DEF Elements
  <2>3. QED
    BY <2>1, <2>2
<1>6. QED
  BY <1>3, <1>4, <1>5

\* The places of a sequence with a stretch cut out.
LEMMA CutPlaces ==
  ASSUME NEW S, NEW q \in Seq(S), NEW lo \in 1 .. Len(q), NEW hi \in lo .. Len(q)
  PROVE  /\ DOMAIN Cut(q, lo, hi) = 1 .. lo - 1 + (Len(q) - hi)
         /\ \A k \in 1 .. lo - 1 : Cut(q, lo, hi)[k] = q[k]
         /\ \A k \in lo .. lo - 1 + (Len(q) - hi) : Cut(q, lo, hi)[k] = q[k + (hi - lo + 1)]
<1>1. Len(q) \in Nat /\ lo \in Nat /\ hi \in Nat /\ 1 <= lo /\ lo <= hi /\ hi <= Len(q)
  OBVIOUS
<1> DEFINE a == SubSeq(q, 1, lo - 1)
           b == SubSeq(q, hi + 1, Len(q))
<1>2. /\ a \in Seq(S) /\ Len(a) = lo - 1
      /\ \A k \in 1 .. lo - 1 : a[k] = q[k]
  <2>1. \A k \in 1 .. lo - 1 : q[k] \in S
    BY <1>1
  <2>2. /\ a \in Seq(S)
        /\ Len(a) = IF 1 <= lo - 1 THEN lo - 1 - 1 + 1 ELSE 0
        /\ \A k \in 1 .. lo - 1 - 1 + 1 : a[k] = q[1 + k - 1]
    BY <1>1, <2>1, SubSeqProperties, Z3
  <2>3. QED
    BY <1>1, <2>2
<1>3. /\ b \in Seq(S) /\ Len(b) = Len(q) - hi
      /\ \A k \in 1 .. Len(q) - hi : b[k] = q[hi + k]
  <2>1. \A k \in hi + 1 .. Len(q) : q[k] \in S
    BY <1>1
  <2>2. /\ b \in Seq(S)
        /\ Len(b) = IF hi + 1 <= Len(q) THEN Len(q) - (hi + 1) + 1 ELSE 0
        /\ \A k \in 1 .. Len(q) - (hi + 1) + 1 : b[k] = q[hi + 1 + k - 1]
    BY <1>1, <2>1, SubSeqProperties
  <2>3. QED
    BY <1>1, <2>2
<1> HIDE DEF a, b
<1>4. /\ DOMAIN (a \o b) = 1 .. Len(a) + Len(b)
      /\ \A k \in 1 .. Len(a) + Len(b) :
           (a \o b)[k] = IF k <= Len(a) THEN a[k] ELSE b[k - Len(a)]
  <2>1. a \in Seq(S) /\ b \in Seq(S)
    BY <1>2, <1>3
  <2>2. QED
    BY <2>1
<1>5. ASSUME NEW k \in 1 .. lo - 1 PROVE (a \o b)[k] = q[k]
  BY <1>1, <1>2, <1>3, <1>4
<1>6. ASSUME NEW k \in lo .. lo - 1 + (Len(q) - hi) PROVE (a \o b)[k] = q[k + (hi - lo + 1)]
  <2>1. k - Len(a) \in 1 .. Len(q) - hi /\ hi + (k - Len(a)) = k + (hi - lo + 1)
    BY <1>1, <1>2
  <2>2. (a \o b)[k] = b[k - Len(a)]
    BY <1>1, <1>2, <1>3, <1>4
  <2>3. QED
    BY <1>3, <2>1, <2>2
<1>7. QED
  BY <1>2, <1>3, <1>4, <1>5, <1>6 DEF Cut, a, b

\* Cutting a stretch out leaves the elements outside it.
LEMMA CutElements ==
  ASSUME NEW S, NEW q \in Seq(S), Distinct(q), NEW lo \in DOMAIN q, NEW hi \in DOMAIN q, lo <= hi
  PROVE  /\ Distinct(Cut(q, lo, hi))
         /\ Elements(Cut(q, lo, hi)) = Elements(q) \ {q[k] : k \in lo .. hi}
<1> DEFINE r == Cut(q, lo, hi)
           n == hi - lo + 1
           f(k) == IF k < lo THEN k ELSE k + n
<1>1. /\ DOMAIN q = 1 .. Len(q) /\ Len(q) \in Nat
      /\ lo \in 1 .. Len(q) /\ hi \in lo .. Len(q)
  OBVIOUS
<1>2. /\ DOMAIN r = 1 .. Len(q) - n
      /\ \A k \in 1 .. Len(q) - n : r[k] = q[f(k)]
  <2>1. /\ DOMAIN r = 1 .. lo - 1 + (Len(q) - hi)
        /\ \A k \in 1 .. lo - 1 : r[k] = q[k]
        /\ \A k \in lo .. lo - 1 + (Len(q) - hi) : r[k] = q[k + n]
    BY <1>1, CutPlaces
  <2> HIDE DEF r
  <2>2. lo - 1 + (Len(q) - hi) = Len(q) - n
    BY <1>1
  <2>3. ASSUME NEW k \in 1 .. Len(q) - n PROVE r[k] = q[f(k)]
    <3>1. CASE k < lo
      BY <1>1, <2>1, <3>1
    <3>2. CASE ~(k < lo)
      <4>1. k \in lo .. lo - 1 + (Len(q) - hi)
        BY <1>1, <2>2, <3>2
      <4>2. QED
        BY <2>1, <3>2, <4>1
    <3>3. QED
      BY <3>1, <3>2
  <2>4. QED
    BY <2>1, <2>2, <2>3
<1>3. \A k \in DOMAIN r : f(k) \in DOMAIN q /\ f(k) \notin lo .. hi
  BY <1>1, <1>2
<1>4. \A j, k \in DOMAIN r : f(j) = f(k) => j = k
  BY <1>1, <1>2
<1>5. \A j \in DOMAIN q \ (lo .. hi) : \E k \in DOMAIN r : j = f(k)
  <2> SUFFICES ASSUME NEW j \in DOMAIN q \ (lo .. hi) PROVE \E k \in DOMAIN r : j = f(k)
    OBVIOUS
  <2>1. CASE j < lo
    BY <1>1, <1>2, <2>1
  <2>2. CASE j > hi
    <3>1. j - n \in DOMAIN r /\ f(j - n) = j
      BY <1>1, <1>2, <2>2
    <3>2. QED
      BY <3>1
  <2>3. QED
    BY <1>1, <2>1, <2>2
<1> HIDE DEF f, n, r
<1>6. Distinct(r)
  BY <1>2, <1>3, <1>4 DEF Distinct
<1>7. ASSUME NEW w \in Elements(r) PROVE w \in Elements(q) \ {q[k] : k \in lo .. hi}
  <2>1. PICK k \in DOMAIN r : w = q[f(k)]
    BY <1>2 DEF Elements
  <2>2. lo .. hi \subseteq DOMAIN q
    BY <1>1
  <2>3. \A j \in lo .. hi : q[j] # w
    BY <1>3, <2>1, <2>2 DEF Distinct
  <2>4. QED
    BY <1>3, <2>1, <2>3 DEF Elements
<1>8. ASSUME NEW w \in Elements(q) \ {q[k] : k \in lo .. hi} PROVE w \in Elements(r)
  <2>1. PICK j \in DOMAIN q : w = q[j]
    BY DEF Elements
  <2>2. j \notin lo .. hi
    BY <2>1
  <2>3. PICK k \in DOMAIN r : j = f(k)
    BY <1>5, <2>2
  <2>4. QED
    BY <1>2, <2>1, <2>3 DEF Elements
<1>9. QED
  BY <1>6, <1>7, <1>8 DEF r

-----------------------------------------------------------------------------
(* The FIFO.                                                               *)

\* Removing cancelled works removes nothing else.
LEMMA RemoveQueuedElements ==
  ASSUME queue \in Seq(Work), Distinct(queue), NEW S, RemoveQueued(S)
  PROVE  Distinct(queue') /\ Elements(queue') = Elements(queue) \ S
<1>1. CASE QueuedIn(S) = {}
  BY <1>1 DEF RemoveQueued, QueuedIn
<1>2. CASE QueuedIn(S) # {}
  <2>1. PICK lo, hi \in DOMAIN queue :
          lo <= hi /\ QueuedIn(S) = {queue[k] : k \in lo .. hi} /\ queue' = Cut(queue, lo, hi)
    BY <1>2 DEF RemoveQueued
  <2>2. Distinct(queue') /\ Elements(queue') = Elements(queue) \ {queue[k] : k \in lo .. hi}
    BY <2>1, CutElements
  <2>3. QED
    BY <2>1, <2>2 DEF QueuedIn
<1>3. QED
  BY <1>1, <1>2

-----------------------------------------------------------------------------
(* Leases.                                                                 *)

LEMMA GrantedFinite ==
  IsFiniteSet(Granted) /\ Cardinality(Granted) \in Nat
<1>1. Granted \subseteq Chats
  BY DEF Granted
<1>2. QED
  BY <1>1, WorkAssumption, FS_Subset, FS_CardinalityType

\* The drains read a counter that is zero exactly when there is no lease.
LEMMA NoLeases ==
  ASSUME GrantInv
  PROVE  /\ activeChats \in Nat
         /\ activeChats = 0 <=> Granted = {}
BY GrantedFinite, FS_EmptySet DEF GrantInv

-----------------------------------------------------------------------------
(* Leases come and go one at a time.                                       *)

\* A chat that holds no lease any more.
LEMMA LeaveLeaseGrants ==
  ASSUME GrantTypeOK, ChatTypeOK, GrantInv, NEW c \in Chats, LeaveLease(c)
  PROVE  GrantInv' /\ Granted' = Granted \ {c}
<1>1. Granted' = Granted \ {c}
  BY DEF LeaveLease, Granted, GrantTypeOK
<1>2. activeChats' = Cardinality(Granted')
  <2>1. CASE granted[c]
    <3>1. c \in Granted
      BY <2>1 DEF Granted
    <3>2. Cardinality(Granted \ {c}) = Cardinality(Granted) - 1
      BY <3>1, GrantedFinite, FS_RemoveElement
    <3>3. activeChats' = activeChats - 1
      BY <2>1 DEF LeaveLease
    <3>4. QED
      BY <1>1, <3>2, <3>3 DEF GrantInv
  <2>2. CASE ~granted[c]
    <3>1. Granted \ {c} = Granted
      BY <2>2 DEF Granted
    <3>2. activeChats' = activeChats
      BY <2>2 DEF LeaveLease
    <3>3. QED
      BY <1>1, <3>1, <3>2 DEF GrantInv
  <2>3. QED
    BY <2>1, <2>2
<1>3. \A d \in Chats : /\ granted'[d] => chat'[d] # "out" /\ ready'[d] = "ok"
                       /\ ready'[d] = "ok" => granted'[d]
                       /\ chat'[d] = "entered" => granted'[d]
  BY DEF LeaveLease, GrantTypeOK, ChatTypeOK, GrantInv
<1>4. QED
  BY <1>1, <1>2, <1>3 DEF GrantInv

\* Where one lease is the limit, giving one back leaves none.
LEMMA SoleLease ==
  ASSUME Cardinality(Granted) = 1, NEW T, T \subseteq Granted, T # {}
  PROVE  Cardinality(T) = 1
<1>1. PICK c : Granted = {c}
  BY GrantedFinite, FS_Singleton
<1>2. T = Granted
  BY <1>1
<1>3. QED
  BY <1>2

-----------------------------------------------------------------------------
(* Steps that concern requests only.                                       *)

\* Whatever leaves ownership and the dispatcher alone and adds no lease keeps
\* the ownership invariant.
LEMMA OwnershipFrame ==
  ASSUME OwnershipInv,
         UNCHANGED <<llm, late, pc, owner, state, recoverable, restorePoint, activeMeta,
                     activeControls, prompt, historyWait, closing>>,
         pc = "boot" => queue' = <<>>,
         Granted' \subseteq Granted,
         \A c \in Granted' : target'[c] = target[c]
  PROVE  OwnershipInv'
<1>1. Granted = {} => Granted' = {}
  OBVIOUS
<1>2. BootInv'
  BY <1>1 DEF OwnershipInv, BootInv
<1>3. OwnerInv' /\ LateInv' /\ ModelInv' /\ PromptInv' /\ StateNamesOwner'
  BY DEF OwnershipInv, OwnerInv, LateInv, ModelInv, PromptInv, StateNamesOwner
<1>4. QuietInv'
  BY <1>1 DEF OwnershipInv, QuietInv
<1>5. LeaseInv'
  BY <1>1, SoleLease DEF OwnershipInv, LeaseInv
<1>6. QED
  BY <1>2, <1>3, <1>4, <1>5 DEF OwnershipInv

\* Whatever leaves the requests alone keeps theirs.
LEMMA RequestsKept ==
  ASSUME RequestInv,
         UNCHANGED <<queue, current, cancelled, chat, target, ready, granted, activeChats,
                     image, submitted, completion>>
  PROVE  RequestInv' /\ Granted' = Granted
<1>1. Granted' = Granted
  BY DEF Granted
<1>2. FifoInv'
  BY DEF RequestInv, FifoInv, WaitsForGrant, QueuedIn, Elements, Distinct
<1>3. CurrentInv'
  BY DEF RequestInv, CurrentInv, WaitsForGrant
<1>4. GrantInv'
  BY <1>1 DEF RequestInv, GrantInv
<1>5. QED
  BY <1>1, <1>2, <1>3, <1>4 DEF RequestInv

-----------------------------------------------------------------------------
(* chat_lease().                                                           *)

\* Queueing chats anew, and cancelling queued ones, keeps the FIFO.
LEMMA ChatEnqueueRequests ==
  ASSUME TypeOK, RequestInv, NEW c \in Chats, NEW t \in Targets, ChatEnqueue(c, t), ChatFrame
  PROVE  RequestInv' /\ Granted' = Granted
<1> USE DEF RequestInv
<1>1. ~granted[c] /\ c \notin Elements(queue) /\ current # c
  <2>1. chat[c] = "out" /\ current # c
    BY DEF ChatEnqueue
  <2>2. c \in QueuedIn(Chats) => chat[c] = "waiting"
    BY DEF FifoInv, WaitsForGrant
  <2>3. QED
    BY <2>1, <2>2 DEF GrantInv, QueuedIn
<1>2. Distinct(queue') /\ Elements(queue') = Elements(queue) \cup {c}
  <2> DEFINE s == <<c>>
  <2>1. queue' = queue \o s
    BY DEF ChatEnqueue, TypeOK, QueueTypeOK
  <2>2. s \in Seq(Work) /\ Distinct(s) /\ Elements(s) = {c}
    BY DEF Work, Distinct, Elements
  <2> HIDE DEF s
  <2>3. QED
    BY <1>1, <2>1, <2>2, ConcatElements DEF TypeOK, QueueTypeOK, FifoInv
<1>3. /\ chat' = [chat EXCEPT ![c] = "waiting"]
      /\ target' = [target EXCEPT ![c] = t]
      /\ ready' = [ready EXCEPT ![c] = "pending"]
      /\ UNCHANGED <<granted, activeChats, current, cancelled, image, submitted, completion>>
  BY DEF ChatEnqueue, ChatFrame, futureVars
<1>4. Granted' = Granted
  BY <1>3 DEF Granted
<1>5. (Targeted => t # None) /\ (t # None => Targeted)
  BY PointAssumption DEF Targets
<1>6. WaitsForGrant(c)'
  BY <1>1, <1>3, <1>5 DEF WaitsForGrant, TypeOK, ChatTypeOK, GrantTypeOK
<1>7. ASSUME NEW d \in Chats, d # c, WaitsForGrant(d) PROVE WaitsForGrant(d)'
  BY <1>3, <1>7 DEF WaitsForGrant, TypeOK, ChatTypeOK, GrantTypeOK
<1>8. FifoInv'
  <2>1. ASSUME NEW d \in QueuedIn(Chats)' PROVE WaitsForGrant(d)'
    <3>1. d \in Chats /\ (d = c \/ d \in QueuedIn(Chats))
      BY <1>2 DEF QueuedIn
    <3>2. QED
      BY <1>6, <1>7, <3>1 DEF FifoInv
  <2>2. QueuedIn(Images)' = QueuedIn(Images)
    BY <1>2, WorkAssumption DEF QueuedIn
  <2>3. QED
    BY <1>1, <1>2, <1>3, <2>1, <2>2 DEF FifoInv
<1>9. CurrentInv'
  BY <1>1, <1>3, <1>5, <1>7 DEF CurrentInv, TypeOK, ChatTypeOK
<1>10. GrantInv'
  BY <1>1, <1>3, <1>4 DEF GrantInv, TypeOK, ChatTypeOK, GrantTypeOK
<1>11. QED
  BY <1>4, <1>8, <1>9, <1>10

\* Entering a lease, or giving up a place.
LEMMA ChatLeaveRequests ==
  ASSUME TypeOK, RequestInv, NEW c \in Chats, LeaveLease(c), ChatFrame,
         \/ /\ Distinct(queue') /\ Elements(queue') = Elements(queue) \ {c}
            /\ cancelled' = (cancelled \/ current = c)
         \/ chat[c] = "entered" /\ UNCHANGED <<queue, cancelled>>
  PROVE  RequestInv' /\ Granted' = Granted \ {c}
<1> USE DEF RequestInv
<1>1. GrantInv' /\ Granted' = Granted \ {c}
  BY LeaveLeaseGrants DEF TypeOK
<1>2. Distinct(queue') /\ Elements(queue') = Elements(queue) \ {c}
  <2>1. ASSUME chat[c] = "entered" PROVE c \notin Elements(queue)
    BY <2>1 DEF FifoInv, WaitsForGrant, QueuedIn
  <2>2. UNCHANGED queue => Elements(queue') = Elements(queue) /\ Distinct(queue')
    BY DEF Elements, FifoInv
  <2>3. QED
    BY <2>1, <2>2
<1>3. ASSUME NEW d \in Chats, d # c, WaitsForGrant(d) PROVE WaitsForGrant(d)'
  BY <1>3 DEF WaitsForGrant, LeaveLease, TypeOK, ChatTypeOK, GrantTypeOK
<1>4. UNCHANGED <<current, target, image, submitted, completion>>
  BY DEF ChatFrame, LeaveLease, futureVars
<1>5. FifoInv'
  <2>1. ASSUME NEW d \in QueuedIn(Chats)' PROVE WaitsForGrant(d)'
    <3>1. d \in Chats /\ d # c /\ d \in QueuedIn(Chats)
      BY <1>2 DEF QueuedIn
    <3>2. QED
      BY <1>3, <3>1 DEF FifoInv
  <2>2. QueuedIn(Images)' = QueuedIn(Images)
    BY <1>2, WorkAssumption DEF QueuedIn
  <2>3. QED
    BY <1>2, <1>4, <2>1, <2>2 DEF FifoInv
<1>6. CurrentInv'
  <2>1. ASSUME current \in Chats, ~cancelled' PROVE WaitsForGrant(current)'
    <3>1. ~cancelled /\ current # c
      <4>1. CASE cancelled' = (cancelled \/ current = c)
        BY <2>1, <4>1, Zenon
      <4>2. CASE chat[c] = "entered" /\ UNCHANGED cancelled
        BY <2>1, <4>2 DEF CurrentInv, WaitsForGrant
      <4>3. QED
        BY <4>1, <4>2
    <3>2. QED
      BY <1>3, <1>4, <2>1, <3>1 DEF CurrentInv
  <2>2. current \in Chats => ~granted'[current]
    BY DEF CurrentInv, LeaveLease, TypeOK, GrantTypeOK
  <2>3. QED
    BY <1>4, <2>1, <2>2 DEF CurrentInv
<1>7. QED
  BY <1>1, <1>5, <1>6

LEMMA ChatStepSafe ==
  ASSUME IInv, NEW c \in Chats, ChatStep(c)
  PROVE  RequestInv' /\ OwnershipInv'
<1>0. ChatFrame /\ TypeOK /\ RequestInv /\ OwnershipInv
  BY DEF ChatStep, IInv
<1>f. UNCHANGED <<llm, pc, owner, restorePoint, activeMeta, activeControls, prompt, historyWait, closing>>
  BY <1>0 DEF ChatFrame, sideVars, promptVars, lifeVars
<1>g. Granted = {} => ~granted[c]
  BY DEF Granted
<1>b. pc = "boot" => ~granted[c] /\ queue = <<>>
  BY <1>0, <1>g DEF OwnershipInv, BootInv
<1>1. ASSUME NEW t \in Targets, ChatEnqueue(c, t) PROVE RequestInv' /\ OwnershipInv'
  <2>1. RequestInv' /\ Granted' = Granted
    BY <1>0, <1>1, ChatEnqueueRequests
  <2>2. chat[c] = "out" /\ pc # "boot" /\ UNCHANGED <<late, state, recoverable>>
        /\ target' = [target EXCEPT ![c] = t]
    BY <1>1 DEF ChatEnqueue, Accepting
  <2>3. \A d \in Granted' : target'[d] = target[d]
    BY <1>0, <2>1, <2>2 DEF Granted, RequestInv, GrantInv, TypeOK, ChatTypeOK
  <2>4. QED
    BY <1>0, <1>f, <2>1, <2>2, <2>3, OwnershipFrame
<1>2. CASE ChatEnter(c)
  <2>1. /\ UNCHANGED <<late, cancelled, queue, target, ready, granted, activeChats, state, recoverable>>
        /\ chat' = [chat EXCEPT ![c] = "entered"]
        /\ chat[c] = "waiting" /\ ready[c] = "ok"
    BY <1>2 DEF ChatEnter, grantVars
  <2>2. Granted' = Granted
    BY <2>1 DEF Granted
  <2>3. OwnershipInv'
    BY <1>0, <1>f, <1>b, <2>1, <2>2, OwnershipFrame
  <2>4. \A d \in Chats : WaitsForGrant(d) => WaitsForGrant(d)'
    BY <1>0, <2>1 DEF WaitsForGrant, TypeOK, ChatTypeOK
  <2>5. FifoInv' /\ CurrentInv'
    BY <1>0, <2>1, <2>4 DEF ChatFrame, futureVars, RequestInv, FifoInv, CurrentInv, QueuedIn,
                            Elements, Distinct
  <2>6. GrantInv'
    BY <1>0, <2>1, <2>2 DEF RequestInv, GrantInv, TypeOK, ChatTypeOK
  <2>7. QED
    BY <2>3, <2>5, <2>6 DEF RequestInv
<1>3. CASE ChatAbandon(c)
  <2>1. LeaveLease(c) /\ RemoveQueued({c}) /\ UNCHANGED <<late, state, recoverable, target>>
        /\ cancelled' = (cancelled \/ current = c)
    BY <1>3, Zenon DEF ChatAbandon, LeaveLease
  <2>2. Distinct(queue') /\ Elements(queue') = Elements(queue) \ {c}
    BY <1>0, <2>1, RemoveQueuedElements DEF RequestInv, FifoInv, TypeOK, QueueTypeOK
  <2>3. RequestInv' /\ Granted' = Granted \ {c}
    BY <1>0, <2>1, <2>2, ChatLeaveRequests
  <2>4. pc = "boot" => queue' = <<>>
    BY <1>b, <2>1 DEF RemoveQueued, QueuedIn, Elements
  <2>5. QED
    BY <1>0, <1>f, <2>1, <2>3, <2>4, OwnershipFrame
<1>4. CASE ChatExit(c)
  <2>1. LeaveLease(c) /\ chat[c] = "entered"
        /\ UNCHANGED <<late, cancelled, queue, state, recoverable, target>>
    BY <1>4 DEF ChatExit, LeaveLease
  <2>2. RequestInv' /\ Granted' = Granted \ {c}
    BY <1>0, <2>1, ChatLeaveRequests
  <2>3. QED
    BY <1>0, <1>f, <1>b, <2>1, <2>2, OwnershipFrame
<1>5. CASE ChatFails(c)
  <2>1. LeaveLease(c) /\ chat[c] = "entered" /\ UNCHANGED <<cancelled, queue, target>>
        /\ Reserving /\ recoverable' = TRUE /\ state' = "error"
    BY <1>5 DEF ChatFails, LeaveLease
  <2>2. RequestInv' /\ Granted' = Granted \ {c}
    BY <1>0, <2>1, ChatLeaveRequests
  <2>3. c \in Granted
    BY <1>0, <2>1 DEF RequestInv, GrantInv, Granted
  <2>4. Cardinality(Granted) = 1 /\ owner = "llm" /\ restorePoint # None
        /\ pc \in {"next", "chatDrain", "imageDrain", "dead"}
    BY <1>0, <2>1, <2>3 DEF OwnershipInv, LeaseInv, OwnerInv, Serial, Reserving
  <2>5. Granted' = {}
    <3>1. PICK d : Granted = {d}
      BY <2>4, GrantedFinite, FS_Singleton
    <3>2. QED
      BY <2>2, <2>3, <3>1
  <2>6. QED
    BY <1>0, <1>f, <2>1, <2>2, <2>4, <2>5
       DEF OwnershipInv, BootInv, OwnerInv, LateInv, QuietInv, ModelInv, PromptInv, LeaseInv,
           StateNamesOwner, RestoreCalls, ActivateCalls, Lifecycle, QuietStates
<1>6. QED
  BY <1>1, <1>2, <1>3, <1>4, <1>5 DEF ChatStep

-----------------------------------------------------------------------------
(* submit_image() and image_batch().                                       *)

\* What every step on images leaves for the chats.
LEMMA ImageChatsKept ==
  ASSUME TypeOK, RequestInv, RequestFrame,
         QueuedIn(Chats)' \subseteq QueuedIn(Chats), cancelled => cancelled'
  PROVE  /\ \A c \in QueuedIn(Chats)' : WaitsForGrant(c)'
         /\ CurrentInv' /\ GrantInv' /\ Granted' = Granted
<1>1. UNCHANGED <<current, chat, target, ready, granted, activeChats>>
  BY DEF RequestFrame, grantVars
<1>2. Granted' = Granted
  BY <1>1 DEF Granted
<1>3. ASSUME NEW c \in Chats, WaitsForGrant(c) PROVE WaitsForGrant(c)'
  BY <1>1, <1>3 DEF WaitsForGrant
<1>4. GrantInv'
  BY <1>1, <1>2 DEF RequestInv, GrantInv
<1>5. CurrentInv'
  BY <1>1, <1>3 DEF RequestInv, CurrentInv
<1>6. ASSUME NEW c \in QueuedIn(Chats)' PROVE WaitsForGrant(c)'
  <2>1. c \in Chats /\ WaitsForGrant(c)
    BY DEF QueuedIn, RequestInv, FifoInv
  <2>2. QED
    BY <1>3, <2>1
<1>7. QED
  BY <1>2, <1>4, <1>5, <1>6

\* New images join behind what is queued.
LEMMA ImageEnqueueRequests ==
  ASSUME TypeOK, RequestInv, RequestFrame, NEW s \in Seq(Images), Distinct(s),
         NEW v \in {"waiting", "batch"}, ImageEnqueue(s, v)
  PROVE  RequestInv' /\ Granted' = Granted
<1>1. /\ \A i \in Elements(s) : image[i] = "out" /\ current # i
      /\ queue' = queue \o s
      /\ image' = Assign(image, Elements(s), v)
      /\ submitted' = Assign(submitted, Elements(s), "pending")
      /\ completion' = Assign(completion, Elements(s), "pending")
      /\ UNCHANGED cancelled
  BY DEF ImageEnqueue
<1>2. Elements(s) \subseteq Images /\ s \in Seq(Work) /\ queue \in Seq(Work)
  BY DEF Elements, Work, TypeOK, QueueTypeOK
<1>3. Elements(queue) \cap Elements(s) = {}
  BY <1>1, <1>2 DEF RequestInv, FifoInv, QueuedIn
<1>4. Distinct(queue') /\ Elements(queue') = Elements(queue) \cup Elements(s)
  BY <1>1, <1>2, <1>3, ConcatElements DEF RequestInv, FifoInv
<1>5. QueuedIn(Chats)' = QueuedIn(Chats)
  BY <1>2, <1>4, WorkAssumption DEF QueuedIn
<1>6. /\ \A c \in QueuedIn(Chats)' : WaitsForGrant(c)'
      /\ CurrentInv' /\ GrantInv' /\ Granted' = Granted
  BY <1>1, <1>5, ImageChatsKept
<1>7. ASSUME NEW i \in QueuedIn(Images)'
      PROVE  image'[i] \in {"waiting", "batch"} /\ submitted'[i] = "pending" /\ completion'[i] = "pending"
  <2>1. i \in Images /\ (i \in Elements(s) \/ i \in QueuedIn(Images))
    BY <1>4 DEF QueuedIn
  <2>2. CASE i \in Elements(s)
    BY <1>1, <2>1, <2>2 DEF Assign, TypeOK, ImageTypeOK
  <2>3. CASE i \notin Elements(s)
    BY <1>1, <2>1, <2>3 DEF Assign, TypeOK, ImageTypeOK, RequestInv, FifoInv
  <2>4. QED
    BY <2>2, <2>3
<1>8. current' \notin Elements(queue')
  BY <1>1, <1>4 DEF RequestFrame, RequestInv, FifoInv
<1>9. QED
  BY <1>4, <1>6, <1>7, <1>8 DEF RequestInv, FifoInv

\* Images that are given up leave the queue, if they still are in it.
LEMMA ImageLeaveRequests ==
  ASSUME TypeOK, RequestInv, RequestFrame, NEW S, NEW T, CancelImages(S), ForgetImages(T),
         S \subseteq T, T \subseteq Images,
         \A i \in T : completion[i] = "pending" => i \in S
  PROVE  RequestInv' /\ Granted' = Granted
<1>1. Distinct(queue') /\ Elements(queue') = Elements(queue) \ S
  BY RemoveQueuedElements DEF CancelImages, TypeOK, QueueTypeOK, RequestInv, FifoInv
<1>2. QueuedIn(Chats)' \subseteq QueuedIn(Chats)
  BY <1>1 DEF QueuedIn
<1>3. cancelled => cancelled'
  BY Zenon DEF CancelImages
<1>4. /\ \A c \in QueuedIn(Chats)' : WaitsForGrant(c)'
      /\ CurrentInv' /\ GrantInv' /\ Granted' = Granted
  BY <1>2, <1>3, ImageChatsKept
<1>5. ASSUME NEW i \in QueuedIn(Images)'
      PROVE  image'[i] \in {"waiting", "batch"} /\ submitted'[i] = "pending" /\ completion'[i] = "pending"
  <2>1. i \in QueuedIn(Images) /\ i \notin S /\ i \in Images
    BY <1>1 DEF QueuedIn
  <2>2. image[i] \in {"waiting", "batch"} /\ submitted[i] = "pending" /\ completion[i] = "pending"
    BY <2>1 DEF RequestInv, FifoInv
  <2>3. i \notin T
    BY <2>1, <2>2
  <2>4. QED
    BY <2>1, <2>2, <2>3 DEF ForgetImages, Assign, TypeOK, ImageTypeOK
<1>6. current' \notin Elements(queue')
  BY <1>1 DEF RequestFrame, RequestInv, FifoInv
<1>7. QED
  BY <1>1, <1>4, <1>5, <1>6 DEF RequestInv, FifoInv

\* Images that are not queued change nothing for those that are.
LEMMA ImageServedRequests ==
  ASSUME TypeOK, RequestInv, RequestFrame, NEW i \in Images, i \notin Elements(queue),
         UNCHANGED <<queue, cancelled>>,
         \A j \in Images \ {i} : /\ image'[j] = image[j] /\ submitted'[j] = submitted[j]
                                 /\ completion'[j] = completion[j]
  PROVE  RequestInv' /\ Granted' = Granted
<1>1. Elements(queue') = Elements(queue) /\ Distinct(queue')
  BY DEF Elements, RequestInv, FifoInv
<1>2. QueuedIn(Chats)' \subseteq QueuedIn(Chats)
  BY <1>1 DEF QueuedIn
<1>3. /\ \A c \in QueuedIn(Chats)' : WaitsForGrant(c)'
      /\ CurrentInv' /\ GrantInv' /\ Granted' = Granted
  BY <1>2, ImageChatsKept
<1>4. ASSUME NEW j \in QueuedIn(Images)'
      PROVE  image'[j] \in {"waiting", "batch"} /\ submitted'[j] = "pending" /\ completion'[j] = "pending"
  BY <1>1 DEF QueuedIn, RequestInv, FifoInv
<1>5. current' \notin Elements(queue')
  BY <1>1 DEF RequestFrame, RequestInv, FifoInv
<1>6. QED
  BY <1>1, <1>3, <1>4, <1>5 DEF RequestInv, FifoInv

LEMMA ImageStepSafe ==
  ASSUME IInv, ImageStep
  PROVE  RequestInv' /\ OwnershipInv'
<1>0. RequestFrame /\ TypeOK /\ RequestInv /\ OwnershipInv
  BY DEF ImageStep, IInv
<1>o. ASSUME Granted' = Granted, pc = "boot" => queue' = <<>> PROVE OwnershipInv'
  <2>1. UNCHANGED <<llm, late, pc, owner, state, recoverable, restorePoint, activeMeta,
                    activeControls, prompt, historyWait, closing, target>>
    BY <1>0 DEF RequestFrame, gpuVars, sideVars, promptVars, ownerVars, lifeVars
  <2>2. QED
    BY <1>0, <1>o, <2>1, OwnershipFrame
<1>b. pc = "boot" => queue = <<>>
  BY <1>0 DEF OwnershipInv, BootInv
<1>q. \A i \in Images : i \in Elements(queue) =>
        image[i] \in {"waiting", "batch"} /\ submitted[i] = "pending"
  BY <1>0 DEF RequestInv, FifoInv, QueuedIn
<1>1. ASSUME NEW s \in Seq(Images), Distinct(s), NEW v \in {"waiting", "batch"}, ImageEnqueue(s, v)
      PROVE  RequestInv' /\ OwnershipInv'
  <2>1. pc # "boot"
    BY <1>1 DEF ImageEnqueue, Accepting
  <2>2. QED
    BY <1>0, <1>o, <1>1, <2>1, ImageEnqueueRequests
<1>2. ASSUME NEW S, NEW T, CancelImages(S), ForgetImages(T), S \subseteq T, T \subseteq Images,
             \A i \in T : completion[i] = "pending" => i \in S
      PROVE  RequestInv' /\ OwnershipInv'
  <2>1. pc = "boot" => queue' = <<>>
    BY <1>b, <1>2 DEF CancelImages, RemoveQueued, QueuedIn, Elements
  <2>2. QED
    BY <1>0, <1>o, <1>2, <2>1, ImageLeaveRequests
<1>3. ASSUME NEW i \in Images, ImageEnqueue(<<i>>, "waiting") PROVE RequestInv' /\ OwnershipInv'
  <2>1. <<i>> \in Seq(Images) /\ Distinct(<<i>>)
    BY DEF Distinct
  <2>2. QED
    BY <1>1, <1>3, <2>1
<1>4. ASSUME NEW i \in Images, ImageReply(i) PROVE RequestInv' /\ OwnershipInv'
  <2>1. i \notin Elements(queue) /\ UNCHANGED <<queue, cancelled>>
    BY <1>4, <1>q DEF ImageReply
  <2>2. \A j \in Images \ {i} : /\ image'[j] = image[j] /\ submitted'[j] = submitted[j]
                                /\ completion'[j] = completion[j]
    BY <1>0, <1>4 DEF ImageReply, futureVars, TypeOK, ImageTypeOK
  <2>3. QED
    BY <1>0, <1>b, <1>o, <2>1, <2>2, ImageServedRequests
<1>5. ASSUME NEW i \in Images, ImageFinish(i) PROVE RequestInv' /\ OwnershipInv'
  <2>1. i \notin Elements(queue) /\ UNCHANGED <<queue, cancelled>>
    BY <1>5, <1>q DEF ImageFinish
  <2>2. \A j \in Images \ {i} : /\ image'[j] = image[j] /\ submitted'[j] = submitted[j]
                                /\ completion'[j] = completion[j]
    BY <1>0, <1>5 DEF ImageFinish, ForgetImages, Assign, TypeOK, ImageTypeOK
  <2>3. QED
    BY <1>0, <1>b, <1>o, <2>1, <2>2, ImageServedRequests
<1>6. ASSUME NEW i \in Images, ImageAbandon(i) PROVE RequestInv' /\ OwnershipInv'
  BY <1>2, <1>6 DEF ImageAbandon
<1>7. ASSUME NEW b \in Batches, ImageEnqueue(b, "batch") PROVE RequestInv' /\ OwnershipInv'
  <2>1. b \in Seq(Images) /\ Distinct(b)
    BY BatchAssumption DEF Distinct
  <2>2. QED
    BY <1>1, <1>7, <2>1
<1>8. ASSUME NEW b \in Batches, BatchLeave(b) PROVE RequestInv' /\ OwnershipInv'
  <2> DEFINE S == {i \in Elements(b) : completion[i] = "pending"}
  <2>1. CancelImages(S) /\ ForgetImages(Elements(b))
    BY <1>8, Zenon DEF BatchLeave
  <2>2. S \subseteq Elements(b) /\ \A i \in Elements(b) : completion[i] = "pending" => i \in S
    OBVIOUS
  <2>3. Elements(b) \subseteq Images
    BY BatchAssumption DEF Elements
  <2> HIDE DEF S
  <2>4. QED
    BY <1>2, <2>1, <2>2, <2>3
<1>9. QED
  BY <1>3, <1>4, <1>5, <1>6, <1>7, <1>8 DEF ImageStep

-----------------------------------------------------------------------------
(* Side requests.                                                          *)

LEMMA SideStepSafe ==
  ASSUME IInv, SideStep
  PROVE  RequestInv' /\ OwnershipInv'
<1>0. TypeOK /\ RequestInv /\ OwnershipInv
  BY DEF IInv
<1>1. /\ UNCHANGED <<llm, late, pc, owner, state, recoverable, restorePoint, prompt, closing>>
      /\ UNCHANGED <<queue, current, cancelled, chat, target, ready, granted, activeChats,
                     image, submitted, completion>>
  BY DEF SideStep, SideFrame, gpuVars, queueVars, grantVars, futureVars, ownerVars, lifeVars
<1>2. RequestInv' /\ Granted' = Granted
  BY <1>0, <1>1, RequestsKept
<1>n. activeMeta \in Nat /\ activeControls \in Nat
  BY <1>0 DEF TypeOK, SideTypeOK
<1>3. OwnerInv' /\ LateInv' /\ ModelInv' /\ LeaseInv' /\ StateNamesOwner'
  BY <1>0, <1>1, <1>2 DEF OwnershipInv, OwnerInv, LateInv, ModelInv, LeaseInv, StateNamesOwner
<1>4. PromptInv'
  BY <1>0, <1>1 DEF OwnershipInv, PromptInv, SideStep, HistoryDelete, HistoryProceed, PassiveMetadata,
     RouterControl, MetadataBegin, MetadataDone, ControlBegin, ControlDone
<1>5. \/ activeMeta' = activeMeta
      \/ activeMeta' = activeMeta - 1 /\ activeMeta > 0
      \/ /\ activeMeta' = activeMeta + 1
         /\ \/ Reserving /\ (Granted # {} \/ state \notin QuietStates \cup {"initializing"})
            \/ owner = "llm" /\ state \notin QuietStates \cup {"initializing"}
  <2>1. CASE PassiveMetadata
    BY <2>1 DEF PassiveMetadata, MetadataBegin, QuietStates
  <2>2. CASE RouterControl
    BY <2>2, <1>0, NoLeases DEF RouterControl, MetadataBegin, QuietStates, RequestInv
  <2>3. CASE ~PassiveMetadata /\ ~RouterControl
    BY <2>3 DEF SideStep, MetadataDone, ControlBegin, ControlDone, HistoryDelete, HistoryProceed, sideVars
  <2>4. QED
    BY <2>1, <2>2, <2>3
<1>6. \/ activeControls' = activeControls
      \/ activeControls' = activeControls - 1 /\ activeControls > 0
      \/ /\ activeControls' = activeControls + 1
         /\ owner = "comfy" /\ state \notin QuietStates \cup {"initializing"}
  BY DEF SideStep, PassiveMetadata, RouterControl, MetadataBegin, MetadataDone, ControlBegin, ControlDone,
     HistoryDelete, HistoryProceed, sideVars, QuietStates
<1>7. QuietInv'
  BY <1>0, <1>1, <1>2, <1>5, <1>6, <1>n DEF OwnershipInv, QuietInv
<1>8. BootInv'
  BY <1>0, <1>1, <1>2, <1>5, <1>6, <1>n DEF OwnershipInv, BootInv
<1>9. QED
  BY <1>2, <1>3, <1>4, <1>7, <1>8 DEF OwnershipInv

-----------------------------------------------------------------------------
(* What the dispatcher's steps leave for the requests.                     *)

\* The dispatcher keeps the work in its hands, takes the head of the queue
\* into them, or is done with it; it answers no other work, and grants nothing.
LEMMA ServedRequests ==
  ASSUME TypeOK, RequestInv,
         Distinct(queue'), Elements(queue') \subseteq Elements(queue),
         UNCHANGED <<chat, target, image, granted, activeChats>>,
         \A c \in Chats : /\ c # current => ready'[c] = ready[c]
                          /\ ready'[c] = "ok" <=> ready[c] = "ok",
         \A i \in Images : i # current => submitted'[i] = submitted[i] /\ completion'[i] = completion[i],
         \/ current' = None
         \/ current' = current /\ UNCHANGED <<cancelled, ready>>
         \/ current' \in QueuedIn(Images) \ Elements(queue')
         \/ current' \in QueuedIn(Chats) \ Elements(queue') /\ UNCHANGED ready
  PROVE  RequestInv' /\ Granted' = Granted
<1> USE DEF RequestInv
<1>1. Granted' = Granted
  BY DEF Granted
<1>2. GrantInv'
  BY <1>1 DEF GrantInv
<1>3. ASSUME NEW c \in Chats, WaitsForGrant(c), c # current \/ UNCHANGED ready PROVE WaitsForGrant(c)'
  BY <1>3 DEF WaitsForGrant
<1>4. ASSUME NEW c \in QueuedIn(Chats)' PROVE WaitsForGrant(c)'
  <2>1. c \in Chats /\ c # current /\ WaitsForGrant(c)
    BY DEF QueuedIn, FifoInv
  <2>2. QED
    BY <1>3, <2>1
<1>5. ASSUME NEW i \in QueuedIn(Images)'
      PROVE  image'[i] \in {"waiting", "batch"} /\ submitted'[i] = "pending" /\ completion'[i] = "pending"
  BY DEF QueuedIn, FifoInv
<1>6. None \notin Elements(queue) /\ None \notin Chats
  BY WorkAssumption DEF Elements, TypeOK, QueueTypeOK, Work
<1>7. current' \notin Elements(queue')
  BY <1>6 DEF FifoInv
<1>8. CurrentInv'
  <2>1. ASSUME NEW c \in Chats, c = current'
        PROVE  /\ ~granted'[c] /\ (Targeted => target'[c] # None)
               /\ ~cancelled' => WaitsForGrant(c)'
    <3>1. CASE current' = current /\ UNCHANGED <<cancelled, ready>>
      BY <1>3, <2>1, <3>1 DEF CurrentInv
    <3>2. CASE current' \in QueuedIn(Chats) /\ UNCHANGED ready
      <4>1. WaitsForGrant(c)
        BY <2>1, <3>2 DEF FifoInv
      <4>2. QED
        BY <1>3, <3>2, <4>1 DEF WaitsForGrant
    <3>3. c \notin QueuedIn(Images) /\ c # None
      BY <1>6, WorkAssumption DEF QueuedIn
    <3>4. QED
      BY <2>1, <3>1, <3>2, <3>3
  <2>2. QED
    BY <2>1 DEF CurrentInv
<1>9. QED
  BY <1>1, <1>2, <1>4, <1>5, <1>7, <1>8 DEF FifoInv

\* A grant, to the work in hand or the head of the queue, or to nobody when
\* that work was cancelled.
LEMMA GrantRequests ==
  ASSUME TypeOK, RequestInv, NEW c \in Chats, NEW s, Grant(c, s),
         Distinct(queue'), Elements(queue') \subseteq Elements(queue) \ {c},
         ~cancelled => WaitsForGrant(c),
         UNCHANGED <<chat, target, image, submitted, completion>>
  PROVE  /\ RequestInv'
         /\ IF cancelled THEN Granted' = Granted ELSE Granted' = Granted \cup {c}
<1> USE DEF RequestInv
<1>c. cancelled \in BOOLEAN /\ current' = None
  BY DEF TypeOK, DispatcherTypeOK, Grant, NextWork
<1>1. CASE cancelled
  BY <1>1, <1>c, ServedRequests DEF Grant, grantVars
<1>2. CASE ~cancelled
  <2>1. /\ granted' = [granted EXCEPT ![c] = TRUE]
        /\ activeChats' = activeChats + 1
        /\ ready' = Settle(ready, {c}, "ok")
    BY <1>2 DEF Grant
  <2>2. WaitsForGrant(c)
    BY <1>2
  <2>3. ready' = [ready EXCEPT ![c] = "ok"]
    BY <2>1, <2>2 DEF Settle, WaitsForGrant, TypeOK, GrantTypeOK
  <2>4. Granted' = Granted \cup {c} /\ c \notin Granted
    BY <2>1, <2>2 DEF Granted, WaitsForGrant, TypeOK, GrantTypeOK
  <2>5. activeChats' = Cardinality(Granted')
    BY <2>1, <2>4, GrantedFinite, FS_AddElement DEF GrantInv
  <2>6. GrantInv'
    BY <2>1, <2>2, <2>3, <2>5 DEF GrantInv, WaitsForGrant, TypeOK, GrantTypeOK, ChatTypeOK
  <2>7. ASSUME NEW d \in QueuedIn(Chats)' PROVE WaitsForGrant(d)'
    <3>1. d \in Chats /\ d # c /\ WaitsForGrant(d)
      BY DEF QueuedIn, FifoInv
    <3>2. QED
      BY <2>1, <2>3, <3>1 DEF WaitsForGrant, TypeOK, GrantTypeOK
  <2>8. ASSUME NEW i \in QueuedIn(Images)'
        PROVE  image'[i] \in {"waiting", "batch"} /\ submitted'[i] = "pending" /\ completion'[i] = "pending"
    BY DEF QueuedIn, FifoInv
  <2>9. None \notin Elements(queue) /\ None \notin Chats
    BY WorkAssumption DEF Elements, TypeOK, QueueTypeOK, Work
  <2>10. FifoInv'
    BY <1>c, <2>7, <2>8, <2>9 DEF FifoInv
  <2>11. CurrentInv'
    BY <1>c, <2>9 DEF CurrentInv
  <2>12. QED
    BY <1>2, <2>4, <2>6, <2>10, <2>11
<1>3. QED
  BY <1>c, <1>1, <1>2

-----------------------------------------------------------------------------
(* The lease that begins.                                                  *)

\* A lease may be granted once the LLM owns the GPU for good, with the restore
\* point the chat asked for, and nobody else is on a serial backend.
LEMMA GrantOwnership ==
  ASSUME TypeOK, OwnershipInv, NEW c \in Chats, NEW s, Grant(c, s),
         owner' = "llm", recoverable' = FALSE, late' = FALSE, restorePoint' # None,
         target[c] # None => restorePoint' = target[c],
         ~Reserving /\ Kind # "tabbyapi" => llm' = restorePoint',
         s \notin {"comfy_ready", "image_active", "awaiting_request"},
         IF cancelled THEN Granted' = Granted ELSE Granted' = Granted \cup {c},
         Granted # {} => ~Serial /\ UNCHANGED restorePoint,
         activeControls = 0, prompt = None,
         UNCHANGED <<target, activeMeta, activeControls, prompt, historyWait>>
  PROVE  OwnershipInv'
<1>1. pc' = "next" /\ current' = None
  BY DEF Grant, NextWork
<1>2. state' \notin {"comfy_ready", "image_active", "awaiting_request"}
  BY DEF Grant
<1>3. LeaseInv'
  <2>1. Serial => Granted = {}
    OBVIOUS
  <2>2. ASSUME Serial, Granted' # {} PROVE Cardinality(Granted') = 1
    <3>1. Granted' = {c}
      BY <2>1, <2>2
    <3>2. QED
      BY <3>1, FS_Singleton
  <2>3. ASSUME NEW d \in Granted', target'[d] # None PROVE restorePoint' = target'[d]
    <3>1. CASE d = c
      BY <2>3, <3>1
    <3>2. CASE d # c
      <4>1. d \in Granted
        BY <2>3, <3>2
      <4>2. QED
        BY <2>3, <4>1 DEF OwnershipInv, LeaseInv
    <3>3. QED
      BY <3>1, <3>2
  <2>4. QED
    BY <1>1, <2>2, <2>3 DEF LeaseInv
<1>4. BootInv' /\ ModelInv' /\ StateNamesOwner'
  BY <1>1, <1>2 DEF BootInv, ModelInv, StateNamesOwner
<1>5. OwnerInv' /\ LateInv'
  BY <1>1 DEF OwnerInv, LateInv, RestoreCalls
<1>6. QuietInv'
  BY <1>1 DEF OwnershipInv, QuietInv, Lifecycle, RestoreCalls, ActivateCalls
<1>7. PromptInv'
  BY <1>1 DEF OwnershipInv, PromptInv
<1>8. QED
  BY <1>3, <1>4, <1>5, <1>6, <1>7 DEF OwnershipInv

-----------------------------------------------------------------------------
(* _dispatch_chat() and _restore_llm().                                    *)

\* What these steps leave alone.
LEMMA ServeFrameFacts ==
  ASSUME ServeFrame
  PROVE  UNCHANGED <<chat, target, image, submitted, completion, activeMeta, activeControls,
                     prompt, historyWait, closing>>
BY DEF ServeFrame, futureVars, sideVars, promptVars, lifeVars

\* A chat in front of the dispatcher is granted its lease at once, or the
\* handoff to the LLM begins.
LEMMA PrepareSafe ==
  ASSUME IInv, NEW c \in Chats, NEW s, PrepareChat(c, s), ServeFrame,
         UNCHANGED <<llm, late, recoverable, restorePoint>>,
         pc \in {"next", "chatDrain"},
         s = "draining_llm" \/ (s = state /\ ~Serial),
         Distinct(queue'), Elements(queue') \subseteq Elements(queue) \ {c},
         c = current \/ c \in QueuedIn(Chats),
         ~cancelled => WaitsForGrant(c),
         Targeted => target[c] # None,
         Serial => Granted = {},
         NeedsRestore(c) => Granted = {} /\ activeMeta = 0
  PROVE  RequestInv' /\ OwnershipInv'
<1>0. /\ TypeOK /\ RequestInv /\ OwnershipInv
      /\ UNCHANGED <<chat, target, image, submitted, completion, activeMeta, activeControls,
                     prompt, historyWait, closing>>
  BY ServeFrameFacts DEF IInv
<1>t. /\ recoverable \in BOOLEAN /\ late \in BOOLEAN /\ activeControls \in Nat
      /\ target[c] # None => Targeted
  BY <1>0 DEF TypeOK, OwnerTypeOK, GpuTypeOK, SideTypeOK, RequestInv, CurrentInv
<1>p. prompt = None
  BY <1>0 DEF OwnershipInv, PromptInv
<1>1. CASE NeedsRestore(c)
  <2>1. BeginRestore(c, s) /\ Granted = {} /\ activeMeta = 0
    BY <1>1 DEF PrepareChat
  <2>2. current' = c /\ UNCHANGED <<cancelled, ready, granted, activeChats>>
    BY <2>1 DEF BeginRestore, grantVars
  <2>3. RequestInv' /\ Granted' = Granted
    BY <1>0, <2>2, ServedRequests
  <2>4. \/ /\ pc' = "controlDrain" /\ state' = "cleaning_comfy" /\ UNCHANGED owner
           /\ owner # "llm" \/ target[c] = None
        \/ /\ pc' = "restoreValidate" /\ state' = "draining_llm" /\ owner' = "unknown"
           /\ owner = "llm"
    BY <1>t, <2>1 DEF BeginRestore, NeedsCleanup, Serial, Targeted
  <2>5. CASE /\ pc' = "controlDrain" /\ state' = "cleaning_comfy" /\ UNCHANGED owner
             /\ owner # "llm" \/ target[c] = None
    <3>1. owner # "llm" \/ recoverable
      BY <1>1, <2>5 DEF NeedsRestore
    <3>2. BootInv' /\ OwnerInv' /\ ModelInv' /\ PromptInv' /\ LeaseInv' /\ StateNamesOwner'
      BY <1>0, <1>p, <2>1, <2>3, <2>5, <3>1
         DEF OwnershipInv, BootInv, OwnerInv, ModelInv, PromptInv, LeaseInv, StateNamesOwner, RestoreCalls
    <3>3. LateInv' /\ QuietInv'
      BY <1>0, <2>1, <2>3, <2>5
         DEF OwnershipInv, LateInv, QuietInv, QuietStates, Lifecycle, RestoreCalls, ActivateCalls
    <3>4. QED
      BY <2>3, <3>2, <3>3 DEF OwnershipInv
  <2>6. CASE /\ pc' = "restoreValidate" /\ state' = "draining_llm" /\ owner' = "unknown"
             /\ owner = "llm"
    <3>1. activeControls = 0
      BY <1>0, <1>t, <2>6 DEF OwnershipInv, QuietInv
    <3>2. BootInv' /\ OwnerInv' /\ ModelInv' /\ PromptInv' /\ LeaseInv' /\ StateNamesOwner'
      BY <1>0, <1>p, <2>1, <2>3, <2>6
         DEF OwnershipInv, BootInv, OwnerInv, ModelInv, PromptInv, LeaseInv, StateNamesOwner, RestoreCalls
    <3>3. LateInv' /\ QuietInv'
      BY <1>0, <2>1, <2>3, <2>6, <3>1
         DEF OwnershipInv, LateInv, QuietInv, QuietStates, Lifecycle, RestoreCalls, ActivateCalls
    <3>4. QED
      BY <2>3, <3>2, <3>3 DEF OwnershipInv
  <2>7. QED
    BY <2>4, <2>5, <2>6
<1>2. CASE ~NeedsRestore(c)
  <2>1. /\ Grant(c, s) /\ owner' = owner /\ owner = "llm" /\ ~recoverable
        /\ target[c] # None => restorePoint = target[c]
    BY <1>2 DEF PrepareChat, NeedsRestore
  <2>2. /\ RequestInv'
        /\ IF cancelled THEN Granted' = Granted ELSE Granted' = Granted \cup {c}
    BY <1>0, <2>1, GrantRequests
  <2>3. late' = FALSE /\ restorePoint' # None /\ recoverable' = FALSE /\ activeControls = 0
    BY <1>0, <1>t, <2>1 DEF OwnershipInv, OwnerInv, LateInv, QuietInv
  <2>4. ~Reserving /\ Kind # "tabbyapi" => llm' = restorePoint'
    BY <1>0, <2>1 DEF OwnershipInv, ModelInv
  <2>5. s \notin {"comfy_ready", "image_active", "awaiting_request"}
    BY <1>0, <2>1 DEF OwnershipInv, StateNamesOwner
  <2>6. OwnershipInv'
    BY <1>0, <1>p, <2>1, <2>2, <2>3, <2>4, <2>5, GrantOwnership
  <2>7. QED
    BY <2>2, <2>6
<1>3. QED
  BY <1>1, <1>2

LEMMA TakeChatSafe ==
  ASSUME IInv, TakeChat
  PROVE  RequestInv' /\ OwnershipInv'
<1> DEFINE c == Head(queue)
<1>0. /\ TypeOK /\ RequestInv /\ OwnershipInv
      /\ ServeFrame
      /\ UNCHANGED <<llm, late, recoverable, restorePoint>>
      /\ queue # <<>> /\ c \in Chats /\ queue' = Tail(queue) /\ pc = "next"
  BY DEF IInv, TakeChat, Awake, At, gpuVars
<1>1. UNCHANGED <<chat, target, image, submitted, completion, activeMeta, activeControls, prompt,
                  historyWait, closing>>
  BY <1>0, ServeFrameFacts
<1>2. Distinct(queue') /\ Elements(queue') = Elements(queue) \ {c}
  BY <1>0, TailElements DEF TypeOK, QueueTypeOK, RequestInv, FifoInv
<1>3. c \in QueuedIn(Chats) /\ WaitsForGrant(c)
  <2>1. 1 \in DOMAIN queue /\ c = queue[1]
    BY <1>0 DEF TypeOK, QueueTypeOK
  <2>2. c \in QueuedIn(Chats)
    BY <1>0, <2>1 DEF QueuedIn, Elements
  <2>3. QED
    BY <1>0, <2>2 DEF RequestInv, FifoInv
<1> HIDE DEF c
<1>4. CASE Serial
  <2>1. /\ pc' = "chatDrain" /\ current' = c
        /\ UNCHANGED <<cancelled, ready, granted, activeChats, owner, state>>
    BY <1>4 DEF TakeChat, grantVars, c
  <2>2. RequestInv' /\ Granted' = Granted
    BY <1>0, <1>1, <1>2, <1>3, <2>1, ServedRequests
  <2>3. BootInv' /\ OwnerInv' /\ ModelInv' /\ PromptInv' /\ LeaseInv' /\ StateNamesOwner'
    BY <1>0, <1>1, <2>1, <2>2
       DEF OwnershipInv, BootInv, OwnerInv, ModelInv, PromptInv, LeaseInv, StateNamesOwner, RestoreCalls
  <2>4. LateInv' /\ QuietInv'
    BY <1>0, <1>1, <2>1, <2>2 DEF OwnershipInv, LateInv, QuietInv, Lifecycle, RestoreCalls, ActivateCalls
  <2>5. QED
    BY <2>2, <2>3, <2>4 DEF OwnershipInv
<1>5. CASE ~Serial
  <2>1. PrepareChat(c, state)
    BY <1>5 DEF TakeChat, c
  <2>2. ~Reserving /\ ~Targeted /\ target[c] = None
    BY <1>0, <1>5 DEF Serial, Reserving, Targeted, RequestInv, CurrentInv
  <2>3. ASSUME NeedsRestore(c) PROVE Granted = {} /\ activeMeta = 0
    <3>1. owner # "llm"
      BY <1>0, <2>2, <2>3 DEF NeedsRestore, OwnershipInv, OwnerInv
    <3>2. QED
      BY <1>0, <2>2, <3>1 DEF OwnershipInv, LeaseInv, QuietInv, TypeOK, SideTypeOK
  <2>4. QED
    BY <1>0, <1>2, <1>3, <1>5, <2>1, <2>2, <2>3, PrepareSafe
<1>6. QED
  BY <1>4, <1>5

\* Where a handoff stands while it waits for a call.
LEMMA HandoffState ==
  ASSUME IInv, pc \in Lifecycle \cup {"controlDrain"}
  PROVE  /\ Granted = {} /\ activeMeta = 0 /\ prompt = None /\ state \in QuietStates
         /\ pc \in Lifecycle => activeControls = 0
BY DEF IInv, OwnershipInv, QuietInv, PromptInv, Lifecycle, RestoreCalls, ActivateCalls

\* Going on to the next call keeps the doors closed.
LEMMA HandoffContinues ==
  ASSUME OwnershipInv, pc' \in Lifecycle, state' \in QuietStates,
         Granted' = {}, activeMeta = 0, activeControls = 0, prompt = None,
         UNCHANGED <<activeMeta, activeControls, prompt, historyWait>>
  PROVE  BootInv' /\ QuietInv' /\ PromptInv' /\ LeaseInv' /\ StateNamesOwner'
BY DEF OwnershipInv, BootInv, QuietInv, PromptInv, LeaseInv, StateNamesOwner, QuietStates, Lifecycle,
       RestoreCalls, ActivateCalls

LEMMA RestoreStepSafe ==
  ASSUME IInv, RestoreStep
  PROVE  RequestInv' /\ OwnershipInv'
<1>0. /\ TypeOK /\ RequestInv /\ OwnershipInv /\ ServeFrame
      /\ UNCHANGED <<queue, chat, target, image, submitted, completion, activeMeta,
                     activeControls, prompt, historyWait, closing>>
  BY ServeFrameFacts DEF IInv, RestoreStep, RestoreFrame
<1>q. Distinct(queue') /\ Elements(queue') = Elements(queue)
  BY <1>0 DEF RequestInv, FifoInv, Elements, Distinct
<1>c. pc \in ChatPCs => current \in Chats /\ current \notin Elements(queue)
  BY <1>0 DEF TypeOK, DispatcherTypeOK, RequestInv, FifoInv
<1>t. recoverable \in BOOLEAN /\ late \in BOOLEAN /\ activeControls \in Nat /\ activeChats \in Nat
      /\ activeMeta \in Nat /\ cancelled \in BOOLEAN
  BY <1>0, NoLeases DEF TypeOK, DispatcherTypeOK, OwnerTypeOK, GpuTypeOK, SideTypeOK, RequestInv
<1>h. pc \in Lifecycle \cup {"controlDrain"} =>
        /\ Granted = {} /\ activeMeta = 0 /\ prompt = None /\ state \in QuietStates
        /\ pc \in Lifecycle => activeControls = 0
  BY HandoffState
<1>g. ASSUME UNCHANGED <<current, cancelled, ready, granted, activeChats>> PROVE RequestInv' /\ Granted' = Granted
  BY <1>0, <1>q, <1>g, ServedRequests
<1>1. CASE ChatDrained
  <2>1. /\ pc = "chatDrain" /\ ~Blocked
        /\ UNCHANGED <<llm, late, recoverable, restorePoint>>
        /\ \/ cancelled /\ NextWork /\ UNCHANGED <<ready, granted, activeChats, owner, state>>
           \/ ~cancelled /\ PrepareChat(current, "draining_llm")
    BY <1>1 DEF ChatDrained, Awake, At, gpuVars, grantVars
  <2>2. CASE cancelled /\ NextWork /\ UNCHANGED <<ready, granted, activeChats, owner, state>>
    <3>1. pc' = "next" /\ current' = None
      BY <2>2 DEF NextWork
    <3>2. RequestInv' /\ Granted' = Granted
      BY <1>0, <1>q, <2>2, <3>1, ServedRequests
    <3>3. BootInv' /\ OwnerInv' /\ ModelInv' /\ PromptInv' /\ LeaseInv' /\ StateNamesOwner'
      BY <1>0, <2>1, <2>2, <3>1, <3>2
         DEF OwnershipInv, BootInv, OwnerInv, ModelInv, PromptInv, LeaseInv, StateNamesOwner, RestoreCalls
    <3>4. LateInv' /\ QuietInv'
      BY <1>0, <2>1, <2>2, <3>1, <3>2
         DEF OwnershipInv, LateInv, QuietInv, Lifecycle, RestoreCalls, ActivateCalls
    <3>5. QED
      BY <3>2, <3>3, <3>4 DEF OwnershipInv
  <2>3. CASE ~cancelled /\ PrepareChat(current, "draining_llm")
    <3>1. Granted = {} /\ activeMeta = 0
      BY <1>0, <1>t, <2>1, <2>3, NoLeases DEF Blocked, RequestInv
    <3>2. current \in Chats /\ current \notin Elements(queue)
      BY <1>c, <2>1 DEF ChatPCs
    <3>3. (~cancelled => WaitsForGrant(current)) /\ (Targeted => target[current] # None)
      BY <1>0, <3>2 DEF RequestInv, CurrentInv
    <3> DEFINE c == current
    <3>4. c \in Chats /\ PrepareChat(c, "draining_llm") /\ Elements(queue') \subseteq Elements(queue) \ {c}
      BY <1>q, <2>3, <3>2
    <3>5. QED
      BY <1>0, <1>q, <2>1, <3>1, <3>3, <3>4, PrepareSafe
  <2>4. QED
    BY <2>1, <2>2, <2>3
<1>2. CASE ControlsDrained
  <2>1. /\ pc = "controlDrain" /\ pc' = "cleanup" /\ ~Blocked
        /\ UNCHANGED <<llm, late, owner, state, recoverable, restorePoint>>
        /\ UNCHANGED <<current, cancelled, ready, granted, activeChats>>
    BY <1>2 DEF ControlsDrained, Awake, At, GoTo, gpuVars, grantVars, ownerVars
  <2>2. activeControls = 0
    BY <1>t, <2>1 DEF Blocked
  <2>3. RequestInv' /\ Granted' = Granted
    BY <1>g, <2>1
  <2>4. BootInv' /\ QuietInv' /\ PromptInv' /\ LeaseInv' /\ StateNamesOwner'
    BY <1>0, <1>h, <2>1, <2>2, <2>3, HandoffContinues DEF Lifecycle, RestoreCalls
  <2>5. OwnerInv' /\ LateInv' /\ ModelInv'
    BY <1>0, <2>1 DEF OwnershipInv, OwnerInv, LateInv, ModelInv, RestoreCalls
  <2>6. QED
    BY <2>3, <2>4, <2>5 DEF OwnershipInv
<1>3. CASE CleanupReturns
  <2>1. /\ pc = "cleanup" /\ pc' = "restoreValidate" /\ owner' = "unknown"
        /\ UNCHANGED <<llm, late, state, recoverable, restorePoint>>
        /\ UNCHANGED <<current, cancelled, ready, granted, activeChats>>
    BY <1>3 DEF CleanupReturns, At, GoTo, llmVars, grantVars
  <2>2. RequestInv' /\ Granted' = Granted
    BY <1>g, <2>1
  <2>3. BootInv' /\ QuietInv' /\ PromptInv' /\ LeaseInv' /\ StateNamesOwner'
    BY <1>0, <1>h, <2>1, <2>2, HandoffContinues DEF Lifecycle, RestoreCalls
  <2>4. OwnerInv' /\ LateInv' /\ ModelInv'
    BY <1>0, <2>1 DEF OwnershipInv, OwnerInv, LateInv, ModelInv, RestoreCalls
  <2>5. QED
    BY <2>2, <2>3, <2>4 DEF OwnershipInv
<1>4. CASE RestoreValidated
  <2>1. /\ pc = "restoreValidate" /\ pc' = RestoreCall /\ owner = "unknown"
        /\ UNCHANGED <<llm, late, owner, recoverable, restorePoint>>
        /\ UNCHANGED <<current, cancelled, ready, granted, activeChats>>
        /\ state' \in {state, "reloading_llm"}
    BY <1>0, <1>4 DEF RestoreValidated, At, GoTo, gpuVars, grantVars, OwnershipInv, OwnerInv, RestoreCalls
  <2>2. RequestInv' /\ Granted' = Granted
    BY <1>g, <2>1
  <2>3. BootInv' /\ QuietInv' /\ PromptInv' /\ LeaseInv' /\ StateNamesOwner'
    BY <1>0, <1>h, <2>1, <2>2, HandoffContinues DEF Lifecycle, RestoreCalls, RestoreCall, QuietStates
  <2>4. Targeted <=> target[current] # None
    BY <1>0, <1>c, <2>1 DEF RequestInv, CurrentInv, ChatPCs, RestoreCalls
  <2>5. RouterMode => ~Targeted
    BY KindAssumption DEF Targeted
  <2>6. OwnerInv' /\ LateInv' /\ ModelInv'
    BY <1>0, <2>1, <2>4, <2>5 DEF OwnershipInv, OwnerInv, LateInv, ModelInv, RestoreCalls, RestoreCall
  <2>7. QED
    BY <2>2, <2>3, <2>6 DEF OwnershipInv
<1>5. CASE RestoreReleased
  <2>1. /\ pc = "restoreRelease" /\ pc' = "acquire" /\ owner = "unknown"
        /\ late' = FALSE /\ UNCHANGED <<owner, state, recoverable, restorePoint>>
        /\ UNCHANGED <<current, cancelled, ready, granted, activeChats>>
    BY <1>0, <1>5 DEF RestoreReleased, ReleaseOk, At, GoTo, ownerVars, grantVars, OwnershipInv, OwnerInv,
       RestoreCalls
  <2>2. RequestInv' /\ Granted' = Granted
    BY <1>g, <2>1
  <2>3. BootInv' /\ QuietInv' /\ PromptInv' /\ LeaseInv' /\ StateNamesOwner'
    BY <1>0, <1>h, <2>1, <2>2, HandoffContinues DEF Lifecycle, RestoreCalls
  <2>4. OwnerInv' /\ LateInv' /\ ModelInv'
    BY <1>0, <2>1 DEF OwnershipInv, OwnerInv, LateInv, ModelInv, RestoreCalls
  <2>5. QED
    BY <2>2, <2>3, <2>4 DEF OwnershipInv
\* Both ways to a restored LLM end in the same grant.
<1>r. ASSUME pc \in {"restoreObserve", "acquire"}, NEW p, p # None, Restored(p), late' = FALSE,
             target[current] # None => p = target[current],
             ~Reserving /\ Kind # "tabbyapi" => llm' = p
      PROVE  RequestInv' /\ OwnershipInv'
  <2> DEFINE c == current
             s == IF Reserving THEN "llm_reserved" ELSE "llm_ready"
  <2>1. c \in Chats /\ c \notin Elements(queue) /\ (~cancelled => WaitsForGrant(c))
    BY <1>0, <1>c, <1>r DEF ChatPCs, RestoreCalls, RequestInv, CurrentInv
  <2>2. Granted = {} /\ activeMeta = 0 /\ prompt = None /\ activeControls = 0
    BY <1>h, <1>r DEF Lifecycle, RestoreCalls
  <2>3. Grant(c, s) /\ owner' = "llm" /\ restorePoint' = p /\ recoverable' = FALSE
    BY <1>r DEF Restored
  <2>4. s \notin {"comfy_ready", "image_active", "awaiting_request"}
    OBVIOUS
  <2>5. (target[c] # None => restorePoint' = target[c]) /\ restorePoint' # None
        /\ (~Reserving /\ Kind # "tabbyapi" => llm' = restorePoint')
    BY <1>r, <2>3
  <2> HIDE DEF s
  <2>6. /\ RequestInv'
        /\ IF cancelled THEN Granted' = Granted ELSE Granted' = Granted \cup {c}
    BY <1>0, <1>q, <2>1, <2>3, GrantRequests
  <2>7. OwnershipInv'
    BY <1>0, <1>r, <2>1, <2>2, <2>3, <2>4, <2>5, <2>6, GrantOwnership
  <2>8. QED
    BY <2>6, <2>7
<1>6. CASE RestoreObserved
  <2>1. pc = "restoreObserve"
    BY <1>6 DEF RestoreObserved, At
  <2>2. PICK p \in RestorePoints :
          /\ ObserveOk(p)
          /\ IF p # None
               THEN Restored(p)
               ELSE /\ GoTo("acquire") /\ state' = "reloading_llm"
                    /\ UNCHANGED <<owner, recoverable, restorePoint, grantVars>>
    BY <1>6, Zenon DEF RestoreObserved
  <2>3. ~RouterMode /\ ~Targeted /\ owner = "unknown" /\ target[current] = None
    BY <1>0, <1>c, <2>1 DEF OwnershipInv, OwnerInv, RequestInv, CurrentInv, ChatPCs, RestoreCalls
  <2>4. p = llm /\ late = FALSE /\ UNCHANGED <<llm, late>>
    BY <1>t, <2>2, <2>3 DEF ObserveOk, ObserveModelOk, Targeted, llmVars
  <2>5. CASE p # None
    BY <1>r, <2>1, <2>2, <2>3, <2>4, <2>5
  <2>6. CASE p = None
    <3>1. /\ pc' = "acquire" /\ state' = "reloading_llm"
          /\ UNCHANGED <<owner, recoverable, restorePoint>>
          /\ UNCHANGED <<current, cancelled, ready, granted, activeChats>>
      BY <2>2, <2>6 DEF GoTo, grantVars
    <3>2. RequestInv' /\ Granted' = Granted
      BY <1>g, <3>1
    <3>3. BootInv' /\ QuietInv' /\ PromptInv' /\ LeaseInv' /\ StateNamesOwner'
      BY <1>0, <1>h, <2>1, <3>1, <3>2, HandoffContinues DEF Lifecycle, RestoreCalls, QuietStates
    <3>4. OwnerInv' /\ LateInv' /\ ModelInv'
      BY <1>0, <2>1, <2>3, <2>4, <3>1 DEF OwnershipInv, OwnerInv, LateInv, ModelInv, RestoreCalls
    <3>5. QED
      BY <3>2, <3>3, <3>4 DEF OwnershipInv
  <2>7. QED
    BY <2>5, <2>6
<1>7. CASE RestoreAcquired
  <2>1. pc = "acquire"
    BY <1>7 DEF RestoreAcquired, At
  <2>2. PICK p \in RestorePoints : AcquireOk(AcquireTarget, p) /\ Restored(p)
    BY <1>7 DEF RestoreAcquired
  <2>3. target[current] # None => Targeted
    BY <1>0, <1>c, <2>1 DEF RequestInv, CurrentInv, ChatPCs, RestoreCalls
  <2>4. RouterMode => Kind = "koboldcpp" /\ late = FALSE
    BY <1>0, <1>t, <2>1, KindAssumption DEF OwnershipInv, LateInv
  <2>5. /\ p # None /\ late' = FALSE
        /\ target[current] # None => p = target[current]
        /\ ~Reserving /\ Kind # "tabbyapi" => llm' = p
    <3>1. CASE RouterMode
      BY <2>2, <2>3, <2>4, <3>1, PointAssumption
         DEF AcquireOk, ReserveOk, Reserving, Targeted, llmVars
    <3>2. CASE ~RouterMode
      BY <2>2, <3>2, PointAssumption
         DEF AcquireOk, AcquireCombinedOk, AcquireModelOk, Reserving, AcquireTarget
    <3>3. QED
      BY <3>1, <3>2
  <2>6. QED
    BY <1>r, <2>1, <2>2, <2>5
<1>8. CASE RestoreFails
  <2>1. /\ pc \in {"controlDrain"} \cup RestoreCalls
        /\ recoverable' = TRUE /\ state' = "error" /\ pc' = "next" /\ current' = None
        /\ ready' = Settle(ready, {current}, "error")
        /\ UNCHANGED <<granted, activeChats, owner, restorePoint>>
    BY <1>8 DEF RestoreFails, NextWork, At, RestoreCalls
  <2>2. \A c \in Chats : /\ c # current => ready'[c] = ready[c]
                         /\ ready'[c] = "ok" <=> ready[c] = "ok"
    BY <1>0, <2>1 DEF Settle, TypeOK, GrantTypeOK
  <2>3. RequestInv' /\ Granted' = Granted
    BY <1>0, <1>q, <2>1, <2>2, ServedRequests
  <2>4. /\ RouterMode => UNCHANGED late
        /\ pc \in {"controlDrain", "cleanup"} => UNCHANGED <<llm, late>>
    BY <1>8 DEF RestoreFails, At, ReleaseFails, AcquireFails, gpuVars, llmVars
  <2>5. owner = "llm" => Reserving
    BY <1>0, <2>1 DEF OwnershipInv, OwnerInv
  <2>6. owner # "unknown" => pc \in {"controlDrain", "cleanup"}
    BY <1>0, <2>1 DEF OwnershipInv, OwnerInv
  <2>7. OwnerInv' /\ ModelInv'
    BY <1>0, <2>1, <2>4, <2>5, <2>6 DEF OwnershipInv, OwnerInv, ModelInv, RestoreCalls
  <2>8. LateInv'
    BY <1>0, <2>1, <2>4, <2>5, <2>6 DEF OwnershipInv, LateInv
  <2>9. BootInv' /\ QuietInv' /\ PromptInv' /\ LeaseInv' /\ StateNamesOwner'
    BY <1>0, <1>h, <2>1, <2>3
       DEF OwnershipInv, BootInv, QuietInv, PromptInv, LeaseInv, StateNamesOwner, Lifecycle, RestoreCalls,
           ActivateCalls
  <2>10. QED
    BY <2>3, <2>7, <2>8, <2>9 DEF OwnershipInv
<1>9. QED
  BY <1>1, <1>2, <1>3, <1>4, <1>5, <1>6, <1>7, <1>8 DEF RestoreStep

-----------------------------------------------------------------------------
(* _dispatch_image() and _activate_comfy().                                *)

LEMMA TakeImageSafe ==
  ASSUME IInv, TakeImage
  PROVE  RequestInv' /\ OwnershipInv'
<1> DEFINE i == Head(queue)
<1>0. /\ TypeOK /\ RequestInv /\ OwnershipInv
      /\ UNCHANGED <<llm, late, recoverable, restorePoint, owner>>
      /\ UNCHANGED <<chat, target, ready, granted, activeChats, image, submitted, completion,
                     cancelled, activeMeta, activeControls, prompt, historyWait, closing>>
      /\ queue # <<>> /\ i \in Images /\ queue' = Tail(queue) /\ pc = "next" /\ current' = i
  BY DEF IInv, TakeImage, Awake, At, llmVars, PopFrame, futureVars, promptVars, sideVars, grantVars,
         lifeVars
<1>1. Distinct(queue') /\ Elements(queue') = Elements(queue) \ {i}
  BY <1>0, TailElements DEF TypeOK, QueueTypeOK, RequestInv, FifoInv
<1>2. i \in QueuedIn(Images)
  <2>1. 1 \in DOMAIN queue /\ i = queue[1]
    BY <1>0 DEF TypeOK, QueueTypeOK
  <2>2. QED
    BY <1>0, <2>1 DEF QueuedIn, Elements
<1>3. \/ owner = "comfy" /\ pc' = "submit" /\ state' = "image_active"
      \/ owner # "comfy" /\ pc' = "imageDrain" /\ state' = "draining_llm"
  BY DEF TakeImage
<1> HIDE DEF i
<1>4. RequestInv' /\ Granted' = Granted
  BY <1>0, <1>1, <1>2, ServedRequests
<1>5. BootInv' /\ OwnerInv' /\ ModelInv' /\ PromptInv' /\ LeaseInv' /\ StateNamesOwner'
  BY <1>0, <1>3, <1>4
     DEF OwnershipInv, BootInv, OwnerInv, ModelInv, PromptInv, LeaseInv, StateNamesOwner, RestoreCalls
<1>6. LateInv' /\ QuietInv'
  BY <1>0, <1>3, <1>4
     DEF OwnershipInv, LateInv, QuietInv, QuietStates, Lifecycle, RestoreCalls, ActivateCalls
<1>7. QED
  BY <1>4, <1>5, <1>6 DEF OwnershipInv

\* The end of an image's turn frees the prompt's waiters.
LEMMA EndImageFacts ==
  ASSUME EndImage
  PROVE  pc' = "next" /\ current' = None /\ prompt' = None /\ historyWait' # "blocked"
BY DEF EndImage, NextWork

\* Futures of the current image alone are answered.
LEMMA AnswerCurrent ==
  ASSUME TypeOK, NEW v, NEW f \in [Images -> Futures]
  PROVE  \A i \in Images : i # current => Settle(f, {current}, v)[i] = f[i]
BY DEF Settle

\* ComfyUI gets the GPU when the LLM has confirmably left it.
LEMMA StartImageOwnership ==
  ASSUME OwnershipInv, StartImage, Granted' = Granted, Granted = {}, prompt = None,
         Passive => llm' = None /\ ~late',
         RouterMode => ~late',
         activeMeta = 0,
         UNCHANGED <<activeMeta, activeControls>>
  PROVE  OwnershipInv'
<1>1. /\ owner' = "comfy" /\ recoverable' = FALSE /\ state' \in {"comfy_ready", "image_active"}
      /\ pc' \in {"next", "submit"} /\ prompt' = None /\ historyWait' # "blocked"
  <2>1. CASE cancelled
    BY <2>1, EndImageFacts DEF StartImage
  <2>2. CASE ~cancelled
    BY <2>2 DEF StartImage, GoTo, promptVars, OwnershipInv, PromptInv
  <2>3. QED
    BY <2>1, <2>2
<1>2. BootInv' /\ OwnerInv' /\ ModelInv' /\ PromptInv' /\ LeaseInv' /\ StateNamesOwner'
  BY <1>1 DEF BootInv, OwnerInv, ModelInv, PromptInv, LeaseInv, StateNamesOwner, RestoreCalls
<1>3. LateInv' /\ QuietInv'
  BY <1>1 DEF LateInv, QuietInv, Lifecycle, RestoreCalls, ActivateCalls
<1>4. QED
  BY <1>2, <1>3 DEF OwnershipInv

\* From the release on the GPU has no confirmed owner.
LEMMA BeginReleaseOwnership ==
  ASSUME OwnershipInv, BeginRelease, Granted' = Granted, Granted = {}, prompt = None,
         activeMeta = 0, activeControls = 0,
         RouterMode /\ late' => recoverable' /\ restorePoint' # None,
         UNCHANGED <<activeMeta, activeControls, prompt, historyWait>>
  PROVE  OwnershipInv'
<1>1. owner' = "unknown" /\ state' = "unloading_llm" /\ pc' = "release"
  BY DEF BeginRelease, GoTo
<1>2. BootInv' /\ QuietInv' /\ PromptInv' /\ LeaseInv' /\ StateNamesOwner'
  BY <1>1, HandoffContinues DEF Lifecycle, ActivateCalls, QuietStates
<1>3. OwnerInv' /\ LateInv' /\ ModelInv'
  BY <1>1 DEF OwnerInv, LateInv, ModelInv, RestoreCalls
<1>4. QED
  BY <1>2, <1>3 DEF OwnershipInv

\* An image's turn answers that image only, and grants nothing.
LEMMA ServeImageRequests ==
  ASSUME IInv, ServeImageStep
  PROVE  RequestInv' /\ Granted' = Granted
<1>0. /\ TypeOK /\ RequestInv
      /\ UNCHANGED <<queue, chat, target, ready, granted, activeChats, image>>
  BY DEF IInv, ServeImageStep, ImageFrame, PopFrame, grantVars
<1>1. Distinct(queue') /\ Elements(queue') = Elements(queue)
  BY <1>0 DEF RequestInv, FifoInv, Elements, Distinct
<1> DEFINE Others == \A i \in Images : i # current =>
                       submitted'[i] = submitted[i] /\ completion'[i] = completion[i]
           Hands == current' = None \/ (current' = current /\ UNCHANGED cancelled)
<1>2. ASSUME \/ UNCHANGED submitted
             \/ \E v \in Futures : submitted' = Settle(submitted, {current}, v),
             \/ UNCHANGED completion
             \/ \E v \in Futures : completion' = Settle(completion, {current}, v)
      PROVE  Others
  BY <1>0, <1>2, AnswerCurrent DEF TypeOK, ImageTypeOK
<1>3. ASSUME StartImage PROVE Hands /\ Others
  <2>1. CASE cancelled
    BY <1>2, <1>3, <2>1 DEF StartImage, ResolveImageError, EndImage, NextWork, Futures
  <2>2. CASE ~cancelled
    BY <1>3, <2>2 DEF StartImage, GoTo, futureVars
  <2>3. QED
    BY <2>1, <2>2
<1>4. CASE ImageDrained
  <2>1. ASSUME ResolveImageError, EndImage PROVE Hands /\ Others
    BY <1>2, <2>1 DEF ResolveImageError, EndImage, NextWork, Futures
  <2>2. ASSUME GoTo("imageValidate"), UNCHANGED futureVars PROVE Hands /\ Others
    BY <2>2 DEF GoTo, futureVars
  <2>3. ASSUME BeginRelease, UNCHANGED futureVars PROVE Hands /\ Others
    BY <2>3 DEF BeginRelease, GoTo, futureVars
  <2>4. Hands /\ Others
    BY <1>3, <1>4, <2>1, <2>2, <2>3 DEF ImageDrained
  <2>5. QED
    BY <1>0, <1>1, <2>4, ServedRequests
<1>5. CASE ImageValidated
  <2>1. Hands /\ Others
    BY <1>5 DEF ImageValidated, BeginRelease, GoTo, futureVars
  <2>2. QED
    BY <1>0, <1>1, <2>1, ServedRequests
<1>6. CASE ImageAcquired
  <2>1. Hands /\ Others
    BY <1>6 DEF ImageAcquired, BeginRelease, GoTo, futureVars
  <2>2. QED
    BY <1>0, <1>1, <2>1, ServedRequests
<1>7. CASE ImageObserved
  <2>1. StartImage \/ (BeginRelease /\ UNCHANGED futureVars)
    BY <1>7, Zenon DEF ImageObserved
  <2>2. Hands /\ Others
    BY <1>3, <2>1 DEF BeginRelease, GoTo, futureVars
  <2>3. QED
    BY <1>0, <1>1, <2>2, ServedRequests
<1>8. CASE ImageReleased
  <2>1. Hands /\ Others
    BY <1>3, <1>8 DEF ImageReleased
  <2>2. QED
    BY <1>0, <1>1, <2>1, ServedRequests
<1>9. CASE SubmitAccepted
  <2>1. Hands /\ Others
    BY <1>2, <1>9 DEF SubmitAccepted, GoTo, Futures
  <2>2. QED
    BY <1>0, <1>1, <2>1, ServedRequests
<1>10. CASE PromptSucceeds
  <2>1. Hands /\ Others
    BY <1>2, <1>10 DEF PromptSucceeds, EndImage, NextWork, Futures
  <2>2. QED
    BY <1>0, <1>1, <2>1, ServedRequests
<1>11. CASE ImageFails
  <2>1. \/ UNCHANGED submitted
        \/ \E v \in Futures : submitted' = Settle(submitted, {current}, v)
    BY <1>11 DEF ImageFails, ActivationFails, SubmitFails, PromptFails, Futures
  <2>2. \E v \in Futures : completion' = Settle(completion, {current}, v)
    BY <1>11 DEF ImageFails, Futures
  <2>3. Hands /\ Others
    BY <1>2, <1>11, <2>1, <2>2 DEF ImageFails, EndImage, NextWork
  <2>4. QED
    BY <1>0, <1>1, <2>3, ServedRequests
<1>12. QED
  BY <1>4, <1>5, <1>6, <1>7, <1>8, <1>9, <1>10, <1>11 DEF ServeImageStep

LEMMA ServeImageStepSafe ==
  ASSUME IInv, ServeImageStep
  PROVE  RequestInv' /\ OwnershipInv'
<1>0. /\ TypeOK /\ RequestInv /\ OwnershipInv
      /\ UNCHANGED <<queue, target, activeMeta, activeControls, closing>>
  BY DEF IInv, ServeImageStep, ImageFrame, PopFrame, sideVars, lifeVars
<1>1. RequestInv' /\ Granted' = Granted
  BY ServeImageRequests
<1>t. /\ recoverable \in BOOLEAN /\ late \in BOOLEAN /\ activeControls \in Nat /\ activeChats \in Nat
      /\ activeMeta \in Nat /\ cancelled \in BOOLEAN /\ owner \in {"llm", "comfy", "unknown"}
      /\ pc \in ImagePCs => current \in Images
  BY <1>0, NoLeases DEF TypeOK, DispatcherTypeOK, OwnerTypeOK, GpuTypeOK, SideTypeOK, RequestInv, Owners
<1>h. pc \in ActivateCalls =>
        /\ Granted = {} /\ activeMeta = 0 /\ prompt = None /\ state \in QuietStates
        /\ activeControls = 0
  BY HandoffState DEF Lifecycle
<1>k. RouterMode => Kind = "koboldcpp" /\ Passive
  BY KindAssumption DEF Passive
<1>2. CASE ImageDrained
  <2>1. /\ pc = "imageDrain" /\ ~Blocked /\ owner # "comfy" /\ prompt = None
        /\ UNCHANGED <<llm, late, restorePoint>>
    BY <1>0, <1>2 DEF ImageDrained, Awake, At, llmVars, OwnershipInv, OwnerInv, PromptInv
  <2>2. ASSUME ~cancelled PROVE Granted = {} /\ activeMeta = 0
    BY <1>0, <1>t, <2>1, <2>2, NoLeases DEF Blocked, RequestInv
  <2>3. activeControls = 0
    BY <1>0, <1>t, <2>1 DEF OwnershipInv, QuietInv
  <2>4. CASE /\ state' = IF owner = "llm" THEN "llm_ready" ELSE "awaiting_request"
             /\ EndImage /\ UNCHANGED <<owner, recoverable>>
    <3>1. pc' = "next" /\ prompt' = None /\ historyWait' # "blocked"
      BY <2>4, EndImageFacts
    <3>2. BootInv' /\ OwnerInv' /\ ModelInv' /\ PromptInv' /\ LeaseInv' /\ StateNamesOwner'
      BY <1>0, <1>1, <1>t, <2>1, <2>4, <3>1
         DEF OwnershipInv, BootInv, OwnerInv, ModelInv, PromptInv, LeaseInv, StateNamesOwner, RestoreCalls
    <3>3. LateInv' /\ QuietInv'
      BY <1>0, <1>1, <2>1, <2>4, <3>1
         DEF OwnershipInv, LateInv, QuietInv, Lifecycle, RestoreCalls, ActivateCalls
    <3>4. QED
      BY <1>1, <3>2, <3>3 DEF OwnershipInv
  <2>5. CASE /\ ~cancelled /\ (RouterMode \/ (Passive /\ owner = "unknown"))
             /\ GoTo("imageValidate") /\ UNCHANGED <<promptVars, owner, state, recoverable>>
    <3>1. pc' = "imageValidate" /\ UNCHANGED <<prompt, historyWait>>
      BY <2>5 DEF GoTo, promptVars
    <3>2. state' \in QuietStates
      BY <1>0, <2>1, <2>5 DEF OwnershipInv, QuietInv
    <3>3. BootInv' /\ QuietInv' /\ PromptInv' /\ LeaseInv' /\ StateNamesOwner'
      BY <1>0, <1>1, <2>1, <2>2, <2>3, <2>5, <3>1, <3>2, HandoffContinues DEF Lifecycle, ActivateCalls
    <3>4. OwnerInv' /\ LateInv' /\ ModelInv'
      BY <1>0, <2>1, <2>5, <3>1 DEF OwnershipInv, OwnerInv, LateInv, ModelInv, RestoreCalls
    <3>5. QED
      BY <1>1, <3>3, <3>4 DEF OwnershipInv
  <2>6. CASE /\ ~cancelled /\ ~RouterMode
             /\ BeginRelease /\ UNCHANGED <<promptVars, recoverable>>
    BY <1>0, <1>1, <2>1, <2>2, <2>3, <2>6, BeginReleaseOwnership DEF promptVars
  <2>7. CASE ~cancelled /\ ~Passive /\ StartImage
    BY <1>0, <1>1, <1>k, <2>1, <2>2, <2>7, StartImageOwnership
  <2>8. QED
    BY <1>2, <2>4, <2>5, <2>6, <2>7, Zenon DEF ImageDrained
<1>3. CASE ImageValidated
  <2>1. /\ pc = "imageValidate" /\ pc \in ActivateCalls
        /\ UNCHANGED <<llm, late, recoverable, restorePoint, prompt, historyWait>>
    BY <1>3 DEF ImageValidated, At, ActivateCalls, gpuVars, promptVars
  <2>2. CASE RouterMode /\ restorePoint # None
    <3>1. BeginRelease
      BY <1>3, <2>2 DEF ImageValidated
    <3>2. RouterMode /\ late' => recoverable' /\ restorePoint' # None
      BY <1>0, <2>1 DEF OwnershipInv, LateInv
    <3>3. QED
      BY <1>0, <1>1, <1>h, <2>1, <3>1, <3>2, BeginReleaseOwnership
  <2>3. CASE ~(RouterMode /\ restorePoint # None)
    <3>1. pc' = (IF RouterMode THEN "imageAcquire" ELSE "imageObserve") /\ UNCHANGED <<owner, state>>
      BY <1>3, <2>3 DEF ImageValidated, GoTo
    <3>2. BootInv' /\ QuietInv' /\ PromptInv' /\ LeaseInv' /\ StateNamesOwner'
      BY <1>0, <1>1, <1>h, <2>1, <3>1, HandoffContinues DEF Lifecycle, ActivateCalls
    <3>3. OwnerInv' /\ LateInv' /\ ModelInv'
      BY <1>0, <2>1, <3>1 DEF OwnershipInv, OwnerInv, LateInv, ModelInv, RestoreCalls
    <3>4. QED
      BY <1>1, <3>2, <3>3 DEF OwnershipInv
  <2>4. QED
    BY <2>2, <2>3
<1>4. CASE ImageAcquired
  <2>1. /\ pc = "imageAcquire" /\ pc \in ActivateCalls /\ BeginRelease
        /\ UNCHANGED <<recoverable, prompt, historyWait>>
    BY <1>4 DEF ImageAcquired, At, ActivateCalls, promptVars
  <2>2. RouterMode
    BY <1>0, <2>1 DEF OwnershipInv, OwnerInv
  <2>3. restorePoint' # None /\ UNCHANGED <<llm, late>>
    BY <1>4, <1>k, <2>2, PointAssumption DEF ImageAcquired, AcquireOk, ReserveOk, Reserving, llmVars
  <2>4. RouterMode /\ late' => recoverable' /\ restorePoint' # None
    BY <1>0, <2>1, <2>3 DEF OwnershipInv, LateInv
  <2>5. QED
    BY <1>0, <1>1, <1>h, <2>1, <2>4, BeginReleaseOwnership
<1>5. CASE ImageObserved
  <2>1. pc = "imageObserve" /\ pc \in ActivateCalls /\ owner = "unknown"
    BY <1>0, <1>5 DEF ImageObserved, At, ActivateCalls, OwnershipInv, OwnerInv
  <2>2. PICK p \in RestorePoints :
          /\ ObserveOk(p)
          /\ IF p # None
               THEN /\ restorePoint' = p /\ BeginRelease
                    /\ UNCHANGED <<comfyVars, recoverable, futureVars, promptVars>>
               ELSE StartImage /\ UNCHANGED restorePoint
    BY <1>5, Zenon DEF ImageObserved
  <2>3. UNCHANGED <<llm, late>>
    BY <2>2 DEF ObserveOk, llmVars
  <2>4. CASE p # None
    <3>1. /\ restorePoint' # None /\ BeginRelease
          /\ UNCHANGED <<recoverable, prompt, historyWait>>
      BY <2>2, <2>4 DEF promptVars
    <3>2. RouterMode /\ late' => recoverable' /\ restorePoint' # None
      BY <1>0, <2>3, <3>1 DEF OwnershipInv, LateInv
    <3>3. QED
      BY <1>0, <1>1, <1>h, <2>1, <3>1, <3>2, BeginReleaseOwnership
  <2>5. CASE p = None
    <3>1. StartImage
      BY <2>2, <2>5
    <3>2. llm' = None /\ ~late'
      BY <2>2, <2>3, <2>5, PointAssumption DEF ObserveOk, ObserveCombinedOk, ObserveModelOk
    <3>3. QED
      BY <1>0, <1>1, <1>h, <2>1, <3>1, <3>2, StartImageOwnership
  <2>6. QED
    BY <2>4, <2>5
<1>6. CASE ImageReleased
  <2>1. pc \in ActivateCalls /\ StartImage /\ llm' = None /\ ~late'
    BY <1>6 DEF ImageReleased, ReleaseOk, At, ActivateCalls
  <2>2. QED
    BY <1>0, <1>1, <1>h, <2>1, StartImageOwnership
<1>7. CASE SubmitAccepted
  <2>1. /\ pc = "submit" /\ pc' = "prompt" /\ prompt' = current /\ current \in Images
        /\ UNCHANGED <<llm, late, owner, state, recoverable, restorePoint, historyWait>>
    BY <1>7, <1>t DEF SubmitAccepted, At, GoTo, llmVars, ownerVars, ImagePCs
  <2>2. prompt' # None
    BY <2>1, WorkAssumption DEF Work
  <2>3. BootInv' /\ OwnerInv' /\ ModelInv' /\ PromptInv' /\ LeaseInv' /\ StateNamesOwner'
    BY <1>0, <1>1, <2>1, <2>2
       DEF OwnershipInv, BootInv, OwnerInv, ModelInv, PromptInv, LeaseInv, StateNamesOwner, RestoreCalls
  <2>4. LateInv' /\ QuietInv'
    BY <1>0, <1>1, <2>1 DEF OwnershipInv, LateInv, QuietInv, Lifecycle, RestoreCalls, ActivateCalls
  <2>5. QED
    BY <1>1, <2>3, <2>4 DEF OwnershipInv
<1>8. CASE PromptSucceeds
  <2>1. /\ pc = "prompt" /\ owner = "comfy" /\ state' = "comfy_ready"
        /\ pc' = "next" /\ prompt' = None /\ historyWait' # "blocked"
        /\ UNCHANGED <<llm, late, owner, recoverable, restorePoint>>
    BY <1>0, <1>8, EndImageFacts DEF PromptSucceeds, At, gpuVars, OwnershipInv, OwnerInv
  <2>2. BootInv' /\ OwnerInv' /\ ModelInv' /\ PromptInv' /\ LeaseInv' /\ StateNamesOwner'
    BY <1>0, <1>1, <2>1
       DEF OwnershipInv, BootInv, OwnerInv, ModelInv, PromptInv, LeaseInv, StateNamesOwner, RestoreCalls
  <2>3. LateInv' /\ QuietInv'
    BY <1>0, <1>1, <2>1 DEF OwnershipInv, LateInv, QuietInv, Lifecycle, RestoreCalls, ActivateCalls
  <2>4. QED
    BY <1>1, <2>2, <2>3 DEF OwnershipInv
<1>9. CASE ImageFails
  <2>1. /\ pc \in ActivateCalls \cup {"imageDrain", "submit", "prompt"}
        /\ pc' = "next" /\ prompt' = None /\ historyWait' # "blocked" /\ UNCHANGED owner
        /\ state' = IF owner = "comfy" THEN "comfy_ready"
                    ELSE IF owner = "llm" THEN "llm_ready" ELSE "error"
    BY <1>9, EndImageFacts
       DEF ImageFails, ActivationFails, SubmitFails, PromptFails, At, ActivateCalls
  <2>2. recoverable' = (recoverable \/ owner = "unknown")
    BY <1>9, Zenon DEF ImageFails
  <2>3. \/ UNCHANGED <<llm, late, restorePoint>>
        \/ pc \in {"release", "imageAcquire"} /\ (RouterMode => UNCHANGED <<late, restorePoint>>)
    BY <1>9, <1>k
       DEF ImageFails, ActivationFails, SubmitFails, PromptFails, At, llmVars, AcquireFails, ReleaseFails,
           SyncedPoint
  <2>4. UNCHANGED <<llm, late, restorePoint>> \/ owner = "unknown" \/ (RouterMode /\ owner = "llm")
    BY <1>0, <1>t, <2>3 DEF OwnershipInv, OwnerInv
  <2>5. owner = "llm" => recoverable' = recoverable
    BY <1>t, <2>2
  <2>6. (RouterMode => UNCHANGED <<late, restorePoint>>) /\ (recoverable => recoverable')
    BY <2>2, <2>3
  <2>7. BootInv' /\ PromptInv' /\ LeaseInv' /\ StateNamesOwner'
    <3>1. ASSUME Granted # {} PROVE UNCHANGED restorePoint /\ UNCHANGED recoverable
      <4>1. pc = "imageDrain" /\ owner = "llm"
        BY <1>0, <2>1, <3>1 DEF OwnershipInv, LeaseInv, ActivateCalls
      <4>2. QED
        BY <2>3, <2>5, <4>1
    <3>2. QED
      BY <1>0, <1>1, <2>1, <3>1 DEF OwnershipInv, BootInv, PromptInv, LeaseInv, StateNamesOwner
  <2>8. OwnerInv'
    BY <1>0, <2>1, <2>4, <2>5, <2>6 DEF OwnershipInv, OwnerInv, RestoreCalls
  <2>9. ModelInv'
    BY <1>0, <2>1, <2>4 DEF OwnershipInv, ModelInv, Reserving
  <2>10. LateInv'
    BY <1>0, <2>1, <2>4, <2>5, <2>6 DEF OwnershipInv, LateInv
  <2>11. QuietInv'
    BY <1>0, <1>1, <2>1 DEF OwnershipInv, QuietInv, Lifecycle, RestoreCalls, ActivateCalls
  <2>12. QED
    BY <1>1, <2>7, <2>8, <2>9, <2>10, <2>11 DEF OwnershipInv
<1>10. QED
  BY <1>2, <1>3, <1>4, <1>5, <1>6, <1>7, <1>8, <1>9 DEF ServeImageStep

-----------------------------------------------------------------------------
(* The remaining steps.                                                    *)

LEMMA InitSafe ==
  ASSUME Init
  PROVE  RequestInv /\ OwnershipInv
<1>1. Granted = {} /\ queue = <<>> /\ pc = "boot" /\ current = None
  BY DEF Init, Granted
<1>2. Elements(queue) = {} /\ None \notin Chats
  BY <1>1, WorkAssumption DEF Elements, Work
<1>3. FifoInv
  BY <1>1, <1>2 DEF FifoInv, Distinct, QueuedIn
<1>4. CurrentInv
  BY <1>1, <1>2 DEF Init, CurrentInv
<1>5. GrantInv
  BY <1>1, FS_EmptySet DEF Init, GrantInv
<1>6. OwnershipInv
  BY <1>1 DEF Init, GpuInit, OwnershipInv, BootInv, OwnerInv, LateInv, QuietInv, ModelInv, PromptInv,
              LeaseInv, StateNamesOwner, Lifecycle, RestoreCalls, ActivateCalls
<1>7. QED
  BY <1>3, <1>4, <1>5, <1>6 DEF RequestInv

LEMMA InitializeSafe ==
  ASSUME IInv, Initialize
  PROVE  RequestInv' /\ OwnershipInv'
<1>0. /\ TypeOK /\ RequestInv /\ OwnershipInv /\ pc = "boot"
      /\ UNCHANGED <<llm, late, recoverable, closing, activeMeta, activeControls, prompt, historyWait>>
      /\ UNCHANGED <<queue, current, cancelled, chat, target, ready, granted, activeChats,
                     image, submitted, completion>>
  BY DEF IInv, Initialize, BootFrame, llmVars, queueVars, grantVars, futureVars, sideVars, promptVars
<1>1. RequestInv' /\ Granted' = Granted
  BY <1>0, RequestsKept
<1>2. /\ owner = "unknown" /\ ~recoverable /\ ~late /\ Granted = {}
      /\ activeMeta = 0 /\ activeControls = 0 /\ prompt = None
  BY <1>0 DEF OwnershipInv, BootInv, PromptInv
<1>3. \/ /\ pc' = "next" /\ state' = "awaiting_request" /\ UNCHANGED <<owner, restorePoint>>
      \/ /\ pc' = "next" /\ state' = "llm_ready" /\ owner' = "llm" /\ restorePoint' = llm
         /\ llm # None
      \/ /\ pc' = "dead" /\ state' = "error" /\ UNCHANGED <<owner, restorePoint>>
  BY DEF Initialize
<1>4. OwnershipInv'
  BY <1>0, <1>1, <1>2, <1>3
     DEF OwnershipInv, BootInv, OwnerInv, LateInv, QuietInv, ModelInv, PromptInv, LeaseInv,
         StateNamesOwner, Lifecycle, RestoreCalls, ActivateCalls
<1>5. QED
  BY <1>1, <1>4

LEMMA CloseSafe ==
  ASSUME IInv, Close
  PROVE  RequestInv' /\ OwnershipInv'
<1>0. /\ TypeOK /\ RequestInv /\ OwnershipInv /\ pc # "boot"
      /\ queue' = <<>> /\ state' = "shutting_down"
      /\ ready' = Settle(ready, QueuedIn(Chats), "error")
      /\ UNCHANGED <<llm, late, pc, owner, recoverable, restorePoint, activeMeta, activeControls,
                     prompt, historyWait>>
      /\ UNCHANGED <<current, cancelled, chat, target, granted, activeChats, image>>
  BY DEF IInv, Close, gpuVars, sideVars, promptVars
<1>1. Granted' = Granted
  BY <1>0 DEF Granted
<1>2. Elements(queue') = {} /\ Distinct(queue')
  BY <1>0 DEF Elements, Distinct
<1>3. \A c \in Chats : /\ c \notin Elements(queue) => ready'[c] = ready[c]
                       /\ ready'[c] = "ok" <=> ready[c] = "ok"
  BY <1>0 DEF Settle, QueuedIn, TypeOK, GrantTypeOK
<1>4. FifoInv'
  BY <1>2 DEF FifoInv, QueuedIn
<1>5. CurrentInv'
  <2>1. current \notin Elements(queue)
    BY <1>0 DEF RequestInv, FifoInv
  <2>2. QED
    BY <1>0, <1>3, <2>1 DEF RequestInv, CurrentInv, WaitsForGrant
<1>6. GrantInv'
  BY <1>0, <1>1, <1>3 DEF RequestInv, GrantInv
<1>7. OwnershipInv'
  BY <1>0, <1>1
     DEF OwnershipInv, BootInv, OwnerInv, LateInv, QuietInv, ModelInv, PromptInv, LeaseInv,
         StateNamesOwner, QuietStates
<1>8. QED
  BY <1>4, <1>5, <1>6, <1>7 DEF RequestInv

LEMMA ShutdownSafe ==
  ASSUME IInv, Shutdown
  PROVE  RequestInv' /\ OwnershipInv'
<1>0. /\ TypeOK /\ RequestInv /\ OwnershipInv
      /\ UNCHANGED <<llm, owner, state, recoverable, restorePoint, activeMeta, activeControls>>
      /\ UNCHANGED <<queue, chat, target, granted, activeChats, image>>
  BY DEF IInv, Shutdown, StopFrame, queueVars, sideVars, ownerVars
<1>q. Distinct(queue') /\ Elements(queue') = Elements(queue)
  BY <1>0 DEF RequestInv, FifoInv, Elements, Distinct
<1>l. late' = late \/ (pc = "acquire" /\ ~RouterMode)
  <2>1. CASE DispatcherCancelled
    <3>1. late' = late \/ late' = (late \/ (pc = "acquire" /\ ~RouterMode))
      BY <2>1, Zenon DEF DispatcherCancelled
    <3>2. CASE pc = "acquire" /\ ~RouterMode
      BY <3>2
    <3>3. CASE ~(pc = "acquire" /\ ~RouterMode)
      BY <1>0, <3>1, <3>3 DEF TypeOK, GpuTypeOK
    <3>4. QED
      BY <3>2, <3>3
  <2>2. CASE ~DispatcherCancelled
    BY <2>2, Zenon DEF Shutdown, PromptCancelled, InterruptReturns
  <2>3. QED
    BY <2>1, <2>2
<1>1. CASE StopDispatcher
  <2>1. /\ pc' = "dead" /\ current' = None /\ prompt' = None /\ historyWait' # "blocked"
        /\ ready' = Settle(ready, {current}, "error")
        /\ submitted' = Settle(submitted, {current}, "error")
        /\ completion' = Settle(completion, {current}, "error")
    BY <1>1 DEF StopDispatcher, ResolveImageError
  <2>2. \A c \in Chats : /\ c # current => ready'[c] = ready[c]
                         /\ ready'[c] = "ok" <=> ready[c] = "ok"
    BY <1>0, <2>1 DEF Settle, TypeOK, GrantTypeOK
  <2>3. \A i \in Images : i # current => submitted'[i] = submitted[i] /\ completion'[i] = completion[i]
    BY <1>0, <2>1, AnswerCurrent DEF TypeOK, ImageTypeOK
  <2>4. RequestInv' /\ Granted' = Granted
    BY <1>0, <1>q, <2>1, <2>2, <2>3, ServedRequests
  <2>5. pc # "boot"
    BY <1>1 DEF Shutdown, DispatcherCancelled, PromptCancelled, InterruptReturns
  <2>6. BootInv' /\ OwnerInv' /\ ModelInv' /\ PromptInv' /\ LeaseInv' /\ StateNamesOwner'
    BY <1>0, <2>1, <2>4
       DEF OwnershipInv, BootInv, OwnerInv, ModelInv, PromptInv, LeaseInv, StateNamesOwner, RestoreCalls
  <2>7. LateInv' /\ QuietInv'
    BY <1>0, <1>l, <2>1, <2>4
       DEF OwnershipInv, OwnerInv, LateInv, QuietInv, Lifecycle, RestoreCalls, ActivateCalls
  <2>8. QED
    BY <2>4, <2>6, <2>7 DEF OwnershipInv
<1>2. CASE PromptCancelled
  <2>1. /\ pc = "prompt" /\ pc' = "interrupt"
        /\ UNCHANGED <<late, current, cancelled, ready, submitted, completion, prompt, historyWait>>
    BY <1>2 DEF PromptCancelled, GoTo, futureVars, promptVars
  <2>2. RequestInv' /\ Granted' = Granted
    BY <1>0, <2>1, RequestsKept
  <2>3. OwnershipInv'
    BY <1>0, <2>1, <2>2
       DEF OwnershipInv, BootInv, OwnerInv, LateInv, QuietInv, ModelInv, PromptInv, LeaseInv,
           StateNamesOwner, Lifecycle, RestoreCalls, ActivateCalls
  <2>4. QED
    BY <2>2, <2>3
<1>3. QED
  BY <1>1, <1>2 DEF Shutdown, DispatcherCancelled, InterruptReturns

LEMMA EnvironmentSafe ==
  ASSUME IInv, Environment
  PROVE  RequestInv' /\ OwnershipInv'
<1>0. /\ TypeOK /\ RequestInv /\ OwnershipInv
      /\ UNCHANGED <<pc, owner, state, recoverable, restorePoint, closing, activeMeta,
                     activeControls, prompt, historyWait>>
      /\ UNCHANGED <<queue, current, cancelled, chat, target, ready, granted, activeChats,
                     image, submitted, completion>>
  BY DEF IInv, Environment, dispatcherVars, queueVars, grantVars, futureVars, sideVars, promptVars,
         ownerVars, lifeVars
<1>1. RequestInv' /\ Granted' = Granted
  BY <1>0, RequestsKept
<1>2. BootInv' /\ OwnerInv' /\ QuietInv' /\ PromptInv' /\ LeaseInv' /\ StateNamesOwner'
  <2>1. pc = "boot" => ~late' /\ queue' = <<>>
    <3>1. pc = "boot" => ~late /\ queue = <<>>
      BY <1>0 DEF OwnershipInv, BootInv
    <3>2. late' = late \/ late' = FALSE
      BY Zenon DEF Environment, NativeLoad, LateLoad, PromptFinishes
    <3>3. QED
      BY <1>0, <3>1, <3>2
  <2>2. QED
    BY <1>0, <1>1, <2>1
       DEF OwnershipInv, BootInv, OwnerInv, QuietInv, PromptInv, LeaseInv, StateNamesOwner
<1>3. LateInv' /\ ModelInv'
  <2>1. CASE NativeLoad
    <3>1. Granted # {} /\ UNCHANGED late /\ (Reserving \/ Kind = "tabbyapi")
      BY <1>0, <2>1 DEF NativeLoad, RequestInv, GrantInv, Granted
    <3>2. owner = "llm"
      BY <1>0, <3>1 DEF OwnershipInv, LeaseInv
    <3>3. QED
      BY <1>0, <3>1, <3>2 DEF OwnershipInv, LateInv, ModelInv
  <2>2. CASE LateLoad
    BY <1>0, <2>2 DEF LateLoad, OwnershipInv, OwnerInv, LateInv, ModelInv
  <2>3. CASE PromptFinishes
    BY <1>0, <2>3 DEF PromptFinishes, OwnershipInv, LateInv, ModelInv
  <2>4. QED
    BY <2>1, <2>2, <2>3 DEF Environment
<1>4. QED
  BY <1>1, <1>2, <1>3 DEF OwnershipInv

LEMMA StutterSafe ==
  ASSUME IInv, DispatcherWaits \/ UNCHANGED vars
  PROVE  RequestInv' /\ OwnershipInv'
<1>0. RequestInv /\ OwnershipInv
  BY DEF IInv
<1>1. /\ UNCHANGED <<llm, late, pc, owner, state, recoverable, restorePoint, activeMeta,
                     activeControls, prompt, historyWait, closing>>
      /\ UNCHANGED <<queue, current, cancelled, chat, target, ready, granted, activeChats,
                     image, submitted, completion>>
  BY DEF DispatcherWaits, vars, gpuVars, dispatcherVars, queueVars, grantVars, futureVars, sideVars,
         promptVars, ownerVars, lifeVars
<1>2. RequestInv' /\ Granted' = Granted
  BY <1>0, <1>1, RequestsKept
<1>3. pc = "boot" => queue' = <<>>
  BY <1>0, <1>1 DEF OwnershipInv, BootInv
<1>4. QED
  BY <1>0, <1>1, <1>2, <1>3, OwnershipFrame

-----------------------------------------------------------------------------
(* The theorems.                                                           *)

\* Every reachable state satisfies the invariant, which is inductive: no step
\* of any request, of the dispatcher or of the two programs leaves it.
THEOREM InductiveInvariant == Spec => []IInv
<1>1. Init => IInv
  BY InitType, InitSafe DEF IInv
<1>2. IInv /\ TypeOK' /\ [Next]_vars => IInv'
  <2> SUFFICES ASSUME IInv, TypeOK', [Next]_vars PROVE RequestInv' /\ OwnershipInv'
    BY DEF IInv
  <2>1. CASE Initialize
    BY <2>1, InitializeSafe
  <2>2. CASE \E c \in Chats : ChatStep(c)
    BY <2>2, ChatStepSafe
  <2>3. CASE ImageStep
    BY <2>3, ImageStepSafe
  <2>4. CASE SideStep
    BY <2>4, SideStepSafe
  <2>5. CASE Dispatcher
    BY <2>5, StutterSafe, TakeChatSafe, RestoreStepSafe, TakeImageSafe, ServeImageStepSafe, ShutdownSafe
       DEF Dispatcher
  <2>6. CASE Close
    BY <2>6, CloseSafe
  <2>7. CASE Environment
    BY <2>7, EnvironmentSafe
  <2>8. CASE UNCHANGED vars
    BY <2>8, StutterSafe
  <2>9. QED
    BY <2>1, <2>2, <2>3, <2>4, <2>5, <2>6, <2>7, <2>8 DEF Next, Stopped
<1>3. QED
  BY <1>1, <1>2, TypeCorrect, PTL DEF Spec

\* For every backend that is observed before use, ComfyUI only works on a GPU
\* without lease, model or pending load.
THEOREM ExclusionHolds == Passive /\ Spec => []Exclusion
<1>1. IInv /\ Passive => Exclusion
  BY DEF IInv, OwnershipInv, OwnerInv, LateInv, LeaseInv, ComfyAtWork, Exclusion
<1>2. CASE Passive
  <2>1. IInv => Exclusion
    BY <1>1, <1>2
  <2>2. QED
    BY <2>1, InductiveInvariant, PTL
<1>3. CASE ~Passive
  BY <1>3
<1>4. QED
  BY <1>2, <1>3

\* For them ComfyUI is never granted a GPU that the LLM has not released, which
\* the documentation promises for every backend.
THEOREM ReleasedBeforeGrantHolds == Passive /\ Spec => []ReleasedBeforeGrant
<1>1. CASE Passive
  <2>1. IInv => ReleasedBeforeGrant
    BY <1>1 DEF IInv, OwnershipInv, LateInv, ReleasedBeforeGrant
  <2>2. QED
    BY <2>1, InductiveInvariant, PTL
<1>2. CASE ~Passive
  BY <1>2
<1>3. QED
  BY <1>1, <1>2

\* A lease is only held while the LLM is the confirmed owner, between handoffs
\* and without a pending load.
THEOREM LeaseOwnsGpuHolds == Spec => []LeaseOwnsGpu
<1>1. IInv => LeaseOwnsGpu
  BY DEF IInv, OwnershipInv, OwnerInv, LateInv, LeaseInv, LeaseOwnsGpu
<1>2. QED
  BY <1>1, InductiveInvariant, PTL

\* A lease serves the model it was asked for.
THEOREM LeaseServesModelHolds == Spec => []LeaseServesModel
<1>1. IInv => LeaseServesModel
  BY DEF IInv, OwnershipInv, LeaseInv, ModelInv, LeaseServesModel
<1>2. QED
  BY <1>1, InductiveInvariant, PTL

\* No metadata read meets a handoff.
THEOREM MetadataQuietHolds == Spec => []MetadataQuiet
<1>1. IInv => MetadataQuiet
  BY DEF IInv, OwnershipInv, QuietInv, MetadataQuiet
<1>2. QED
  BY <1>1, InductiveInvariant, PTL

\* A ComfyUI control request pins ComfyUI's ownership.
THEOREM ControlsPinOwnerHolds == Spec => []ControlsPinOwner
<1>1. IInv => ControlsPinOwner
  BY DEF IInv, OwnershipInv, QuietInv, ControlsPinOwner
<1>2. QED
  BY <1>1, InductiveInvariant, PTL

\* A history deletion waits for a monitored prompt only.
THEOREM HistoryHeldHolds == Spec => []HistoryHeld
<1>1. IInv => HistoryHeld
  BY DEF IInv, OwnershipInv, PromptInv, HistoryHeld
<1>2. QED
  BY <1>1, InductiveInvariant, PTL

\* The reported state names the owner.
THEOREM StateNamesOwnerHolds == Spec => []StateNamesOwner
<1>1. IInv => StateNamesOwner
  BY DEF IInv, OwnershipInv
<1>2. QED
  BY <1>1, InductiveInvariant, PTL

-----------------------------------------------------------------------------
(* ComfyUI's memory.                                                       *)

\* Nothing of ComfyUI is on the GPU while the LLM owns it, nor after the
\* cleanup in the middle of a handoff.
CleanInv ==
  owner = "llm" \/ pc \in RestoreCalls \ {"cleanup"} => comfyClean /\ running = {}

LEMMA CleanKept ==
  ASSUME WaitsForIdle, IInv, CleanInv, [Next]_vars
  PROVE  CleanInv'
<1> USE DEF CleanInv, RestoreCalls
<1>0. TypeOK /\ OwnershipInv /\ comfyClean \in BOOLEAN
  BY DEF IInv, TypeOK, GpuTypeOK
<1>1. ASSUME UNCHANGED <<comfyClean, running>>,
             owner' = owner \/ owner' \in {"comfy", "unknown"},
             pc' = pc \/ pc' \notin RestoreCalls \ {"cleanup"}
      PROVE  CleanInv'
  BY <1>1
<1>2. CASE UNCHANGED vars
  BY <1>2 DEF vars, gpuVars, dispatcherVars, ownerVars
<1>3. CASE Initialize
  BY <1>0, <1>3 DEF Initialize, BootFrame, FreeOk, OwnershipInv, BootInv
<1>4. CASE Close \/ SideStep
  BY <1>1, <1>4 DEF Close, SideStep, SideFrame, gpuVars, ownerVars
<1>5. CASE Environment
  BY <1>5 DEF Environment, NativeLoad, LateLoad, PromptFinishes, comfyVars, dispatcherVars, ownerVars
<1>6. CASE \E c \in Chats : ChatStep(c)
  BY <1>1, <1>6 DEF ChatStep, ChatFrame, comfyVars
<1>7. CASE ImageStep
  BY <1>1, <1>7 DEF ImageStep, RequestFrame, gpuVars, ownerVars
<1>8. CASE DispatcherWaits
  BY <1>1, <1>8 DEF DispatcherWaits, gpuVars, ownerVars
<1>9. ASSUME NEW c \in Chats, NEW before, PrepareChat(c, before), UNCHANGED <<comfyClean, running>>
      PROVE  CleanInv'
  BY <1>9 DEF PrepareChat, BeginRestore, NeedsCleanup, Grant, NextWork
<1>10. CASE TakeChat
  BY <1>9, <1>10 DEF TakeChat, gpuVars
<1>11. CASE RestoreStep
  <2>1. CASE ChatDrained
    <3>1. current \in Chats /\ UNCHANGED <<comfyClean, running>>
      BY <1>0, <2>1 DEF ChatDrained, Awake, At, TypeOK, DispatcherTypeOK, ChatPCs, gpuVars
    <3>2. QED
      BY <1>9, <2>1, <3>1 DEF ChatDrained, NextWork
  <2>2. CASE ControlsDrained
    BY <2>2 DEF ControlsDrained, GoTo, gpuVars, ownerVars
  <2>3. CASE CleanupReturns
    BY <2>3 DEF CleanupReturns, FreeOk
  <2>4. CASE RestoreValidated \/ RestoreReleased
    BY <2>4 DEF RestoreValidated, RestoreReleased, At, gpuVars, comfyVars
  <2>5. CASE RestoreObserved \/ RestoreAcquired
    BY <2>5 DEF RestoreObserved, RestoreAcquired, At, comfyVars
  <2>6. CASE RestoreFails
    <3>1. owner' = owner /\ pc' = "next"
      BY <2>6 DEF RestoreFails, NextWork
    <3>2. (owner = "llm") => (comfyClean' /\ running' = {})
      <4>1. SUFFICES ASSUME owner = "llm" PROVE comfyClean' /\ running' = {}
        OBVIOUS
      <4>2. comfyClean = TRUE /\ running = {}
        BY <1>0, <4>1
      <4>3. FreeFails \/ UNCHANGED <<comfyClean, running>>
        BY <2>6 DEF RestoreFails, gpuVars, comfyVars
      <4>4. CASE FreeFails
        <5>1. (comfyClean' = comfyClean \/ comfyClean' = (running = {})) /\ running' = running
          BY <4>4 DEF FreeFails
        <5>2. comfyClean' = TRUE
          BY <4>2, <5>1, Zenon
        <5>3. QED
          BY <4>2, <5>1, <5>2
      <4>5. QED
        BY <4>2, <4>3, <4>4
    <3>3. QED
      BY <3>1, <3>2
  <2>7. QED
    BY <1>11, <2>1, <2>2, <2>3, <2>4, <2>5, <2>6 DEF RestoreStep
<1>12. CASE TakeImage
  BY <1>12 DEF TakeImage
<1>13. CASE ServeImageStep
  <2>1. ASSUME StartImage PROVE CleanInv'
    BY <2>1 DEF StartImage, EndImage, NextWork, GoTo
  <2>2. ASSUME NEW p \in {"imageValidate", "imageAcquire", "imageObserve"}, BeginRelease \/ GoTo(p),
               UNCHANGED <<comfyClean, running>>,
               owner' = owner \/ owner' = "unknown"
        PROVE  CleanInv'
    BY <1>1, <2>2 DEF BeginRelease, GoTo
  <2>3. ASSUME EndImage, UNCHANGED <<comfyClean, running, owner>> PROVE CleanInv'
    BY <1>1, <2>3 DEF EndImage, NextWork
  <2>4. CASE ImageDrained
    BY <2>1, <2>2, <2>3, <2>4 DEF ImageDrained, comfyVars, BeginRelease
  <2>5. CASE ImageValidated \/ ImageAcquired
    BY <2>2, <2>5 DEF ImageValidated, ImageAcquired, gpuVars, comfyVars, BeginRelease
  <2>6. CASE ImageObserved \/ ImageReleased
    BY <2>1, <2>2, <2>6 DEF ImageObserved, ImageReleased, comfyVars, BeginRelease
  <2>7. CASE SubmitAccepted \/ PromptSucceeds \/ ImageFails
    <3>1. owner' = owner /\ pc' \in {"prompt", "next"}
      BY <2>7 DEF SubmitAccepted, PromptSucceeds, ImageFails, EndImage, NextWork, GoTo, ownerVars
    <3>2. owner = "llm" => UNCHANGED <<comfyClean, running>>
      BY <1>0, <2>7 DEF SubmitAccepted, PromptSucceeds, ImageFails, ActivationFails, SubmitFails,
                        PromptFails, At, comfyVars, gpuVars, OwnershipInv, OwnerInv
    <3>3. QED
      BY <3>1, <3>2
  <2>8. QED
    BY <1>13, <2>4, <2>5, <2>6, <2>7 DEF ServeImageStep
<1>14. CASE Shutdown
  <2>1. owner' = owner /\ comfyClean' = comfyClean /\ pc' \in {"interrupt", "dead"}
    BY <1>14 DEF Shutdown, StopFrame, DispatcherCancelled, PromptCancelled, InterruptReturns, StopDispatcher,
                 GoTo, ownerVars
  <2>2. owner = "llm" => running' = running
    BY <1>0, <1>14 DEF Shutdown, DispatcherCancelled, PromptCancelled, InterruptReturns, OwnershipInv, OwnerInv
  <2>3. QED
    BY <2>1, <2>2
<1>15. QED
  BY <1>2, <1>3, <1>4, <1>5, <1>6, <1>7, <1>8, <1>10, <1>11, <1>12, <1>13, <1>14 DEF Next, Dispatcher, Stopped

\* A chat's lease has the GPU to itself: where the cleanup waits for ComfyUI to
\* be idle, no prompt executes and no cache is left, not even one of a prompt
\* that was given up on.
THEOREM CleanLeaseHolds == WaitsForIdle /\ Spec => []CleanLease
<1>1. Init => CleanInv
  BY DEF Init, CleanInv, RestoreCalls
<1>2. WaitsForIdle /\ IInv /\ CleanInv /\ [Next]_vars => CleanInv'
  BY CleanKept
<1>3. IInv /\ CleanInv => CleanLease
  BY DEF IInv, OwnershipInv, LeaseInv, CleanInv, CleanLease
<1>4. CASE WaitsForIdle
  <2>1. IInv /\ CleanInv /\ [Next]_vars => CleanInv'
    BY <1>2, <1>4
  <2>2. QED
    BY <1>1, <1>3, <2>1, InductiveInvariant, PTL DEF Spec
<1>5. CASE ~WaitsForIdle
  BY <1>5
<1>6. QED
  BY <1>4, <1>5
=============================================================================
