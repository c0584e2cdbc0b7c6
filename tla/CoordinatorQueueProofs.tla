----------------------- MODULE CoordinatorQueueProofs ------------------------
(* Order and waiting at the coordinator, for every value of the constants: *)
(* it implements LeaseQueue; nobody waits in vain, because no wake-up is    *)
(* lost and every future that is read belongs to work that is still to be   *)
(* dispatched; and the counters say what is queued.                        *)
EXTENDS CoordinatorQueue, CoordinatorSafety

-----------------------------------------------------------------------------
(* Sequences that lose members.                                            *)

\* A sequence keeps itself, ...
LEMMA KeepsAll ==
  ASSUME NEW S, NEW s \in Seq(S)
  PROVE  Lease!Keeps(s, s)
<1> DEFINE place == [k \in DOMAIN s |-> k]
<1>1. place \in [DOMAIN s -> DOMAIN s]
  OBVIOUS
<1>2. \A k \in DOMAIN s : place[k] = k
  OBVIOUS
<1> HIDE DEF place
<1>3. QED
  BY <1>1, <1>2 DEF Lease!Keeps

\* ... the empty sequence is what is left of any, ...
LEMMA KeepsNothing ==
  ASSUME NEW S, NEW s \in Seq(S)
  PROVE  Lease!Keeps(s, <<>>)
<1> DEFINE place == [k \in {} |-> k]
<1>1. place \in [DOMAIN <<>> -> DOMAIN s] /\ DOMAIN <<>> = {}
  OBVIOUS
<1> HIDE DEF place
<1>2. QED
  BY <1>1 DEF Lease!Keeps

\* ... and a stretch can be cut out of one.
LEMMA KeepsRest ==
  ASSUME NEW S, NEW q \in Seq(S), NEW lo \in DOMAIN q, NEW hi \in DOMAIN q, lo <= hi
  PROVE  Lease!Keeps(q, Cut(q, lo, hi))
<1> DEFINE r == Cut(q, lo, hi)
           n == hi - lo + 1
           place == [k \in DOMAIN r |-> IF k < lo THEN k ELSE k + n]
<1>1. /\ DOMAIN q = 1 .. Len(q) /\ Len(q) \in Nat
      /\ lo \in 1 .. Len(q) /\ hi \in lo .. Len(q)
  OBVIOUS
<1>2. /\ DOMAIN r = 1 .. lo - 1 + (Len(q) - hi)
      /\ \A k \in 1 .. lo - 1 : r[k] = q[k]
      /\ \A k \in lo .. lo - 1 + (Len(q) - hi) : r[k] = q[k + n]
  BY <1>1, CutPlaces
<1> HIDE DEF r
<1>3. \A k \in DOMAIN r : place[k] = IF k < lo THEN k ELSE k + n
  OBVIOUS
<1>4. place \in [DOMAIN r -> DOMAIN q]
  BY <1>1, <1>2
<1> HIDE DEF place
<1>5. \A j, k \in DOMAIN r : j < k => place[j] < place[k]
  BY <1>1, <1>2, <1>3
<1>6. ASSUME NEW k \in DOMAIN r PROVE r[k] = q[place[k]]
  <2>1. CASE k < lo
    BY <1>1, <1>2, <1>3, <2>1
  <2>2. CASE ~(k < lo)
    <3>1. k \in lo .. lo - 1 + (Len(q) - hi)
      BY <1>1, <1>2, <2>2
    <3>2. QED
      BY <1>2, <1>3, <2>2, <3>1
  <2>3. QED
    BY <2>1, <2>2
<1>7. QED
  BY <1>4, <1>5, <1>6 DEF Lease!Keeps, r

\* What is kept of a sequence is kept behind a member in front of it, which
\* may go or stay.
LEMMA KeepsBehind ==
  ASSUME NEW S, NEW s \in Seq(S), NEW t \in Seq(S), NEW w \in S, Lease!Keeps(s, t)
  PROVE  /\ Lease!Keeps(<<w>> \o s, t)
         /\ Lease!Keeps(<<w>> \o s, <<w>> \o t)
<1>1. PICK place \in [DOMAIN t -> DOMAIN s] :
        /\ \A j, k \in DOMAIN t : j < k => place[j] < place[k]
        /\ \A k \in DOMAIN t : t[k] = s[place[k]]
  BY DEF Lease!Keeps
<1> DEFINE u == <<w>> \o s
           v == <<w>> \o t
<1>2. /\ DOMAIN s = 1 .. Len(s) /\ Len(s) \in Nat
      /\ DOMAIN t = 1 .. Len(t) /\ Len(t) \in Nat
      /\ DOMAIN u = 1 .. Len(s) + 1 /\ DOMAIN v = 1 .. Len(t) + 1
      /\ u[1] = w /\ v[1] = w
      /\ \A k \in DOMAIN s : u[k + 1] = s[k]
      /\ \A k \in 2 .. Len(t) + 1 : v[k] = t[k - 1]
  OBVIOUS
<1> HIDE DEF u, v
<1>3. \A k \in DOMAIN t : place[k] \in 1 .. Len(s)
  BY <1>2
<1>4. Lease!Keeps(u, t)
  <2> DEFINE f == [k \in DOMAIN t |-> place[k] + 1]
  <2>1. f \in [DOMAIN t -> DOMAIN u] /\ \A k \in DOMAIN t : f[k] = place[k] + 1
    BY <1>2, <1>3
  <2> HIDE DEF f
  <2>2. \A j, k \in DOMAIN t : j < k => f[j] < f[k]
    BY <1>1, <1>2, <1>3, <2>1
  <2>3. \A k \in DOMAIN t : t[k] = u[f[k]]
    BY <1>1, <1>2, <1>3, <2>1
  <2>4. QED
    BY <2>1, <2>2, <2>3 DEF Lease!Keeps
<1>5. Lease!Keeps(u, v)
  <2> DEFINE g == [k \in DOMAIN v |-> IF k = 1 THEN 1 ELSE place[k - 1] + 1]
  <2>1. \A k \in DOMAIN v : k = 1 \/ k - 1 \in DOMAIN t
    BY <1>2
  <2>2. \A k \in DOMAIN v : g[k] = IF k = 1 THEN 1 ELSE place[k - 1] + 1
    OBVIOUS
  <2>3. g \in [DOMAIN v -> DOMAIN u]
    BY <1>2, <1>3, <2>1
  <2> HIDE DEF g
  <2>4. ASSUME NEW j \in DOMAIN v, NEW k \in DOMAIN v, j < k PROVE g[j] < g[k]
    <3>1. k # 1 /\ k - 1 \in DOMAIN t /\ g[k] = place[k - 1] + 1 /\ place[k - 1] \in Nat \ {0}
      BY <1>2, <1>3, <2>1, <2>2, <2>4
    <3>2. CASE j = 1
      BY <2>2, <3>1, <3>2
    <3>3. CASE j # 1
      <4>1. j - 1 \in DOMAIN t /\ g[j] = place[j - 1] + 1 /\ j - 1 < k - 1
        BY <1>2, <2>1, <2>2, <2>4, <3>3
      <4>2. place[j - 1] < place[k - 1]
        BY <1>1, <3>1, <4>1
      <4>3. QED
        BY <1>3, <3>1, <4>1, <4>2
    <3>4. QED
      BY <3>2, <3>3
  <2>5. ASSUME NEW k \in DOMAIN v PROVE v[k] = u[g[k]]
    <3>1. CASE k = 1
      BY <1>2, <2>2, <3>1
    <3>2. CASE k # 1
      <4>1. k - 1 \in DOMAIN t /\ g[k] = place[k - 1] + 1 /\ v[k] = t[k - 1]
        BY <1>2, <2>1, <2>2, <3>2
      <4>2. QED
        BY <1>1, <1>2, <1>3, <4>1
    <3>3. QED
      BY <3>1, <3>2
  <2>6. QED
    BY <2>3, <2>4, <2>5 DEF Lease!Keeps
<1>6. QED
  BY <1>4, <1>5 DEF u, v

\* How sequences join, and where they begin.
LEMMA Joining ==
  ASSUME NEW S, NEW p \in Seq(S), NEW q \in Seq(S), NEW r \in Seq(S)
  PROVE  /\ (p \o q) \o r = p \o (q \o r)
         /\ p \o q \in Seq(S)
         /\ <<>> \o q = q
         /\ q # <<>> => Tail(q) \in Seq(S) /\ Head(q) \in S /\ <<Head(q)>> \o Tail(q) = q
<1>1. <<>> \o q = q
  BY ConcatEmptySeq
<1>2. q # <<>> => Tail(q) \in Seq(S) /\ Head(q) \in S /\ <<Head(q)>> \o Tail(q) = q
  BY HeadTailProperties, SeqEqual
<1>3. (p \o q) \o r = p \o (q \o r)
  BY ConcatAssociative
<1>4. p \o q \in Seq(S)
  BY ConcatProperties
<1>5. QED
  BY <1>1, <1>2, <1>3, <1>4, Zenon

-----------------------------------------------------------------------------
(* The invariant: besides that of CoordinatorInv, no work that was never   *)
(* taken counts as cancelled.                                              *)

HandsInv == current = None => ~cancelled

\* Between two works the dispatcher's `cancelled' is unset: nothing can be
\* withdrawn that is not in its hands, and it drops each flag with its work.
LEMMA HandsKept ==
  ASSUME TypeOK, HandsInv, [Next]_vars
  PROVE  HandsInv'
<1> USE DEF HandsInv
<1>n. None \notin Chats /\ None \notin Images
  BY WorkAssumption DEF Work
<1>0. ASSUME UNCHANGED <<current, cancelled>> PROVE HandsInv'
  BY <1>0
<1>1. ASSUME NextWork PROVE HandsInv'
  BY <1>1 DEF NextWork
<1>2. CASE UNCHANGED vars
  BY <1>0, <1>2 DEF vars, dispatcherVars
<1>3. CASE Initialize \/ Close \/ Environment \/ SideStep
  BY <1>0, <1>3 DEF Initialize, BootFrame, Close, Environment, dispatcherVars, SideStep, SideFrame
<1>4. ASSUME NEW c \in Chats, ChatStep(c) PROVE HandsInv'
  <2>1. UNCHANGED current
    BY <1>4 DEF ChatStep, ChatFrame
  <2>2. CASE ChatAbandon(c)
    <3>1. current = None => cancelled' = (cancelled \/ FALSE)
      BY <1>n, <2>2, Zenon DEF ChatAbandon
    <3>2. QED
      BY <2>1, <3>1, Zenon
  <2>3. CASE ~ChatAbandon(c)
    <3>1. UNCHANGED cancelled
      BY <1>4, <2>3 DEF ChatStep, ChatEnqueue, ChatEnter, ChatExit, ChatFails
    <3>2. QED
      BY <1>0, <2>1, <3>1
  <2>4. QED
    BY <2>2, <2>3
<1>5. CASE ImageStep
  <2>1. UNCHANGED current
    BY <1>5 DEF ImageStep, RequestFrame
  <2>2. ASSUME NEW S, S \subseteq Images, CancelImages(S) PROVE HandsInv'
    <3>1. current = None => current \notin S
      BY <1>n, <2>2
    <3>2. cancelled' = (cancelled \/ current \in S)
      BY <2>2, Zenon DEF CancelImages
    <3>3. QED
      BY <2>1, <3>1, <3>2, Zenon
  <2>3. ASSUME NEW i \in Images, ImageAbandon(i) PROVE HandsInv'
    BY <2>2, <2>3 DEF ImageAbandon
  <2>4. ASSUME NEW b \in Batches, BatchLeave(b) PROVE HandsInv'
    <3>1. {i \in Elements(b) : completion[i] = "pending"} \subseteq Images
      BY BatchAssumption DEF Elements
    <3>2. QED
      BY <2>2, <2>4, <3>1 DEF BatchLeave
  <2>5. ASSUME UNCHANGED cancelled PROVE HandsInv'
    BY <1>0, <2>1, <2>5
  <2>6. QED
    BY <1>5, <2>3, <2>4, <2>5 DEF ImageStep, ImageEnqueue, ImageReply, ImageFinish
<1>6. ASSUME NEW c \in Chats, NEW before, PrepareChat(c, before) PROVE HandsInv'
  BY <1>1, <1>6, <1>n DEF PrepareChat, BeginRestore, Grant
<1>7. CASE DispatcherWaits
  BY <1>0, <1>7 DEF DispatcherWaits
<1>8. CASE TakeChat
  BY <1>6, <1>8, <1>n DEF TakeChat
<1>9. CASE RestoreStep
  <2>1. CASE ChatDrained
    <3>1. current \in Chats
      BY <2>1 DEF ChatDrained, Awake, At, TypeOK, DispatcherTypeOK, ChatPCs
    <3>2. QED
      BY <1>1, <1>6, <2>1, <3>1 DEF ChatDrained
  <2>2. CASE ~ChatDrained
    BY <1>0, <1>1, <1>9, <2>2
       DEF RestoreStep, ControlsDrained, CleanupReturns, RestoreValidated, RestoreReleased,
           RestoreObserved, RestoreAcquired, RestoreFails, Restored, Grant, GoTo
  <2>3. QED
    BY <2>1, <2>2
<1>10. CASE TakeImage
  BY <1>10, <1>n DEF TakeImage
<1>11. CASE ServeImageStep
  <2>1. ASSUME StartImage \/ BeginRelease \/ EndImage PROVE HandsInv'
    BY <1>0, <1>1, <2>1 DEF StartImage, BeginRelease, EndImage, GoTo
  <2>2. QED
    BY <1>0, <1>11, <2>1
       DEF ServeImageStep, ImageDrained, ImageValidated, ImageAcquired, ImageObserved, ImageReleased,
           SubmitAccepted, PromptSucceeds, ImageFails, GoTo
<1>12. CASE Shutdown
  BY <1>0, <1>12
     DEF Shutdown, DispatcherCancelled, PromptCancelled, InterruptReturns, StopDispatcher, GoTo
<1>13. QED
  BY <1>2, <1>3, <1>4, <1>5, <1>7, <1>8, <1>9, <1>10, <1>11, <1>12 DEF Next, Dispatcher, Stopped

QueueInv == IInv /\ HandsInv

-----------------------------------------------------------------------------
(* How steps of the coordinator look in the line.                          *)

\* What Line is made of.
LEMMA LineParts ==
  ASSUME IInv
  PROVE  /\ queue \in Seq(Work) /\ Line \in Seq(Work)
         /\ Line = IF current = None \/ cancelled \/ ComfyAtWork THEN queue ELSE <<current>> \o queue
         /\ current = None \/ current \in Work
         /\ ComfyAtWork => current \in Images
<1>1. queue \in Seq(Work) /\ (current = None \/ current \in Work)
  BY DEF IInv, TypeOK, DispatcherTypeOK, QueueTypeOK, Work
<1>2. ComfyAtWork => current \in Images
  BY DEF IInv, TypeOK, DispatcherTypeOK, ComfyAtWork, ImagePCs
<1>3. <<>> \o queue = queue
  BY <1>1, ConcatEmptySeq
<1>4. Line = IF current = None \/ cancelled \/ ComfyAtWork THEN queue ELSE <<current>> \o queue
  BY <1>3 DEF Line, Dispatched
<1>5. Line \in Seq(Work)
  <2>1. CASE current = None \/ cancelled \/ ComfyAtWork
    BY <1>1, <1>4, <2>1
  <2>2. CASE ~(current = None \/ cancelled \/ ComfyAtWork)
    <3>1. <<current>> \in Seq(Work)
      BY <1>1, <2>2
    <3>2. <<current>> \o queue \in Seq(Work)
      BY <1>1, <3>1, ConcatProperties
    <3>3. QED
      BY <1>4, <2>2, <3>2
  <2>3. QED
    BY <2>1, <2>2
<1>6. QED
  BY <1>1, <1>2, <1>4, <1>5

\* Most steps are none of the line's business.
LEMMA LineKept ==
  ASSUME UNCHANGED <<queue, current, cancelled, granted>>, ComfyAtWork' = ComfyAtWork
  PROVE  UNCHANGED Lease!leaseVars
BY DEF Lease!leaseVars, Line, Dispatched, Using, Granted

\* A request leaves the front or the middle of the line, or both.
LEMMA LineLeft ==
  ASSUME IInv, IInv', UNCHANGED <<pc, current, granted>>, Lease!Keeps(queue, queue'),
         cancelled => cancelled'
  PROVE  Lease!LeaseNext
<1>1. ComfyAtWork' = ComfyAtWork /\ Using' = Using
  BY DEF ComfyAtWork, Using, Granted
<1>2. Lease!Keeps(Line, Line')
  <2>1. queue' \in Seq(Work) /\ Line' = IF current = None \/ cancelled' \/ ComfyAtWork
                                         THEN queue' ELSE <<current>> \o queue'
    BY <1>1, LineParts DEF IInv, TypeOK, QueueTypeOK, DispatcherTypeOK, Line, Dispatched
  <2>2. QED
    BY <2>1, LineParts, KeepsBehind
<1>3. QED
  BY <1>1, <1>2 DEF Lease!LeaseNext, Lease!Leave

\* The dispatcher is done with what it had: a request that was refused or had
\* been withdrawn, or an image that ComfyUI worked on.
LEMMA TurnOver ==
  ASSUME IInv, UNCHANGED <<queue, granted>>, current' = None, pc' \in {"next", "dead"}
  PROVE  Lease!LeaseNext
<1>1. ~ComfyAtWork' /\ Using' = Granted /\ Line' = queue
  <2>1. queue \in Seq(Work) /\ <<>> \o queue = queue
    BY LineParts, ConcatEmptySeq
  <2>2. QED
    BY <2>1 DEF ComfyAtWork, Using, Granted, Line, Dispatched
<1>2. CASE ComfyAtWork
  <2>1. current \in Images /\ Using = Granted \cup {current} /\ current \notin Granted /\ Line = queue
    BY <1>2, LineParts, WorkAssumption DEF Using, Granted
  <2>2. Lease!End(current)
    BY <1>1, <2>1 DEF Lease!End
  <2>3. QED
    BY <2>1, <2>2 DEF Lease!LeaseNext
<1>3. CASE ~ComfyAtWork
  <2>1. Using = Granted
    BY <1>3 DEF Using
  <2>2. Lease!Keeps(Line, queue)
    BY LineParts, KeepsAll, KeepsBehind
  <2>3. QED
    BY <1>1, <2>1, <2>2 DEF Lease!LeaseNext, Lease!Leave
<1>4. QED
  BY <1>2, <1>3

\* Taking the first request off the FIFO does not take it out of the line.
LEMMA FrontTaken ==
  ASSUME IInv, NEW w \in Work, <<w>> \o queue' = Line, current' = w, ~cancelled',
         ~ComfyAtWork, ~ComfyAtWork', UNCHANGED granted
  PROVE  UNCHANGED Lease!leaseVars
<1>1. Line' = Line
  BY WorkAssumption DEF Line, Dispatched
<1>2. Using' = Using
  BY DEF Using, Granted
<1>3. QED
  BY <1>1, <1>2 DEF Lease!leaseVars

\* What Begin needs to know of a line that starts with w.
LEMMA FrontOf ==
  ASSUME NEW w \in Work, NEW rest \in Seq(Work)
  PROVE  /\ <<w>> \o rest # <<>>
         /\ Head(<<w>> \o rest) = w
         /\ Tail(<<w>> \o rest) = rest
OBVIOUS

\* The first request in the line, a chat, is granted its lease.
LEMMA ChatBegins ==
  ASSUME IInv, IInv', NEW c \in Chats, <<c>> \o queue' = Line, current' = None,
         ~ComfyAtWork, pc' = "next", granted' = [granted EXCEPT ![c] = TRUE],
         Serial => Granted = {}
  PROVE  Lease!LeaseNext
<1>1. queue' \in Seq(Work) /\ <<>> \o queue' = queue'
  BY ConcatEmptySeq DEF IInv, TypeOK, QueueTypeOK
<1>2. Line' = queue'
  BY <1>1 DEF Line, Dispatched
<1>3. Granted' = Granted \cup {c}
  BY DEF Granted, IInv, TypeOK, GrantTypeOK
<1>4. Using = Granted /\ Using' = Using \cup {c}
  BY <1>3 DEF Using, ComfyAtWork
<1>5. c \in Work /\ c \notin Images /\ Using \cap Images = {}
  BY <1>4, WorkAssumption DEF Work, Granted
<1>6. Line # <<>> /\ c = Head(Line) /\ queue' = Tail(Line)
  BY <1>1, <1>5, FrontOf
<1>7. Lease!Begin(c)
  BY <1>2, <1>4, <1>5, <1>6 DEF Lease!Begin
<1>8. QED
  BY <1>7 DEF Lease!LeaseNext

\* The first request in the line, an image, is given to ComfyUI.
LEMMA ImageBegins ==
  ASSUME IInv, IInv', NEW i \in Images, <<i>> \o queue' = Line, current' = i,
         ~ComfyAtWork, pc' = "submit", UNCHANGED granted, Granted = {}
  PROVE  Lease!LeaseNext
<1>1. queue' \in Seq(Work) /\ <<>> \o queue' = queue'
  BY ConcatEmptySeq DEF IInv, TypeOK, QueueTypeOK
<1>2. Line' = queue'
  BY <1>1 DEF Line, Dispatched, ComfyAtWork
<1>3. Using = {} /\ Using' = Using \cup {i}
  BY DEF Using, ComfyAtWork, Granted
<1>4. Line # <<>> /\ i = Head(Line) /\ queue' = Tail(Line)
  BY <1>1, FrontOf DEF Work
<1>5. Lease!Begin(i)
  BY <1>2, <1>3, <1>4 DEF Lease!Begin
<1>6. QED
  BY <1>5 DEF Lease!LeaseNext

-----------------------------------------------------------------------------
(* The steps of requests.                                                  *)

\* Works that leave the FIFO leave the line.
LEMMA QueueLeft ==
  ASSUME IInv, NEW S, RemoveQueued(S)
  PROVE  Lease!Keeps(queue, queue')
<1>1. queue \in Seq(Work)
  BY LineParts
<1>2. CASE QueuedIn(S) = {}
  BY <1>1, <1>2, KeepsAll DEF RemoveQueued
<1>3. CASE QueuedIn(S) # {}
  BY <1>1, <1>3, KeepsRest DEF RemoveQueued
<1>4. QED
  BY <1>2, <1>3

\* New works join at the end.
LEMMA LineJoined ==
  ASSUME IInv, NEW s \in Seq(Work), queue' = queue \o s,
         UNCHANGED <<pc, current, cancelled, granted>>,
         s \in {<<w>> : w \in Work} \cup Batches,
         \A w \in Elements(s) : w # current /\ w \notin Elements(queue) /\ w \notin Granted
  PROVE  Lease!LeaseNext
<1>1. Dispatched' = Dispatched /\ Using' = Using
  BY DEF Dispatched, Using, Granted, ComfyAtWork
<1>2. Dispatched \in Seq(Work) /\ queue \in Seq(Work)
  BY LineParts DEF Dispatched
<1>3. Line' = Line \o s
  BY <1>1, <1>2, Joining DEF Line
<1>4. \A k \in DOMAIN s : s[k] \in Elements(s)
  BY DEF Elements
<1>5. \A k \in DOMAIN s : s[k] \notin Using
  BY <1>4 DEF Using
<1>6. ASSUME NEW j \in DOMAIN Line PROVE Line[j] = current \/ Line[j] \in Elements(queue)
  <2>1. CASE current = None \/ cancelled \/ ComfyAtWork
    BY <2>1, LineParts DEF Elements
  <2>2. CASE ~(current = None \/ cancelled \/ ComfyAtWork)
    <3>1. Line = <<current>> \o queue /\ current \in Work
      BY <2>2, LineParts
    <3>2. j = 1 \/ (j - 1 \in DOMAIN queue /\ Line[j] = queue[j - 1])
      BY <1>2, <3>1
    <3>3. QED
      BY <1>2, <3>1, <3>2 DEF Elements
  <2>3. QED
    BY <2>1, <2>2
<1>7. \A k \in DOMAIN s : \A j \in DOMAIN Line : Line[j] # s[k]
  BY <1>4, <1>6
<1>8. Lease!Join(s)
  BY <1>1, <1>3, <1>5, <1>7 DEF Lease!Join
<1>9. QED
  BY <1>8 DEF Lease!LeaseNext

\* A lease is given back.
LEMMA LeaseEnds ==
  ASSUME IInv, NEW c \in Chats, granted[c], LeaveLease(c),
         UNCHANGED <<pc, current, cancelled, queue>>
  PROVE  Lease!LeaseNext
<1>1. Granted' = Granted \ {c} /\ c \in Granted
  BY LeaveLeaseGrants DEF IInv, TypeOK, RequestInv, Granted
<1>2. ComfyAtWork' = ComfyAtWork /\ Line' = Line
  BY DEF ComfyAtWork, Line, Dispatched
<1>3. ComfyAtWork => current # c
  BY LineParts, WorkAssumption
<1>4. Using' = Using \ {c} /\ c \in Using
  BY <1>1, <1>2, <1>3 DEF Using
<1>5. Lease!End(c)
  BY <1>2, <1>4 DEF Lease!End
<1>6. QED
  BY <1>5 DEF Lease!LeaseNext

LEMMA ChatLine ==
  ASSUME IInv, IInv', NEW c \in Chats, ChatStep(c)
  PROVE  [Lease!LeaseNext]_(Lease!leaseVars)
<1>0. UNCHANGED <<pc, current>> /\ ComfyAtWork' = ComfyAtWork /\ TypeOK /\ RequestInv
  BY DEF ChatStep, ChatFrame, ComfyAtWork, IInv
<1>1. ASSUME NEW t \in Targets, ChatEnqueue(c, t) PROVE Lease!LeaseNext
  <2>1. queue' = queue \o <<c>> /\ <<c>> \in Seq(Work) /\ c \in Work
    BY <1>1, LineParts, AppendIsConcat DEF ChatEnqueue, Work
  <2>2. Elements(<<c>>) = {c}
    BY DEF Elements
  <2>3. c # current /\ c \notin Elements(queue) /\ c \notin Granted
    BY <1>0, <1>1 DEF ChatEnqueue, RequestInv, FifoInv, GrantInv, QueuedIn, WaitsForGrant, Granted
  <2>4. UNCHANGED <<cancelled, granted>>
    BY <1>1 DEF ChatEnqueue
  <2>5. QED
    BY <1>0, <2>1, <2>2, <2>3, <2>4, LineJoined
<1>2. CASE ChatEnter(c)
  BY <1>0, <1>2, LineKept DEF ChatEnter, grantVars
<1>3. CASE ChatAbandon(c)
  <2>1. RemoveQueued({c}) /\ LeaveLease(c)
    BY <1>3 DEF ChatAbandon
  <2>2. CASE granted[c]
    <3>1. c # current /\ c \notin Elements(queue)
      BY <1>0, <2>2 DEF RequestInv, CurrentInv, FifoInv, QueuedIn, WaitsForGrant
    <3>2. UNCHANGED queue
      BY <2>1, <3>1 DEF RemoveQueued, QueuedIn
    <3>3. cancelled' = (cancelled \/ FALSE)
      BY <1>3, <3>1, Zenon DEF ChatAbandon
    <3>4. cancelled \in BOOLEAN
      BY <1>0 DEF TypeOK, DispatcherTypeOK
    <3>5. UNCHANGED cancelled
      BY <3>3, <3>4
    <3>6. QED
      BY <1>0, <2>1, <2>2, <3>2, <3>5, LeaseEnds
  <2>3. CASE ~granted[c]
    <3>1. UNCHANGED granted
      BY <1>0, <2>1, <2>3 DEF LeaveLease, TypeOK, GrantTypeOK
    <3>2. cancelled => cancelled'
      BY <1>3, Zenon DEF ChatAbandon
    <3>3. QED
      BY <1>0, <2>1, <3>1, <3>2, QueueLeft, LineLeft
  <2>4. QED
    BY <2>2, <2>3
<1>4. CASE ChatExit(c) \/ ChatFails(c)
  <2>1. granted[c] /\ LeaveLease(c) /\ UNCHANGED <<queue, cancelled>>
    BY <1>0, <1>4 DEF ChatExit, ChatFails, RequestInv, GrantInv
  <2>2. QED
    BY <1>0, <2>1, LeaseEnds
<1>5. QED
  BY <1>1, <1>2, <1>3, <1>4 DEF ChatStep

LEMMA ImageLine ==
  ASSUME IInv, IInv', ImageStep
  PROVE  [Lease!LeaseNext]_(Lease!leaseVars)
<1>0. UNCHANGED <<pc, current, granted>> /\ ComfyAtWork' = ComfyAtWork /\ RequestInv
  BY DEF ImageStep, RequestFrame, grantVars, ComfyAtWork, IInv
<1>1. ASSUME NEW s \in Seq(Images), NEW v, s \in {<<w>> : w \in Work} \cup Batches, ImageEnqueue(s, v)
      PROVE  Lease!LeaseNext
  <2>1. s \in Seq(Work) /\ queue' = queue \o s /\ UNCHANGED cancelled
    BY <1>1 DEF ImageEnqueue, Work
  <2>2. ASSUME NEW w \in Elements(s)
        PROVE  w # current /\ w \notin Elements(queue) /\ w \notin Granted
    <3>1. w \in Images /\ image[w] = "out" /\ current # w
      BY <1>1 DEF ImageEnqueue, Elements
    <3>2. w \notin Elements(queue)
      BY <1>0, <3>1 DEF RequestInv, FifoInv, QueuedIn
    <3>3. w \notin Granted
      BY <3>1, WorkAssumption DEF Granted
    <3>4. QED
      BY <3>1, <3>2, <3>3
  <2>3. QED
    BY <1>0, <1>1, <2>1, <2>2, LineJoined
<1>2. ASSUME NEW S, CancelImages(S) PROVE Lease!LeaseNext
  <2>1. cancelled => cancelled'
    BY <1>2, Zenon DEF CancelImages
  <2>2. QED
    BY <1>0, <1>2, <2>1, QueueLeft, LineLeft DEF CancelImages
<1>3. ASSUME NEW i \in Images, ImageEnqueue(<<i>>, "waiting") PROVE Lease!LeaseNext
  <2>1. <<i>> \in Seq(Images) /\ <<i>> \in {<<w>> : w \in Work} \cup Batches
    BY DEF Work
  <2>2. QED
    BY <1>1, <1>3, <2>1
<1>4. ASSUME NEW i \in Images, ImageReply(i) \/ ImageFinish(i) PROVE UNCHANGED Lease!leaseVars
  BY <1>0, <1>4, LineKept DEF ImageReply, ImageFinish
<1>5. ASSUME NEW i \in Images, ImageAbandon(i) PROVE Lease!LeaseNext
  BY <1>2, <1>5 DEF ImageAbandon
<1>6. ASSUME NEW b \in Batches, ImageEnqueue(b, "batch") PROVE Lease!LeaseNext
  BY <1>1, <1>6, BatchAssumption
<1>7. ASSUME NEW b \in Batches, BatchLeave(b) PROVE Lease!LeaseNext
  BY <1>2, <1>7 DEF BatchLeave
<1>8. QED
  BY <1>3, <1>4, <1>5, <1>6, <1>7 DEF ImageStep

-----------------------------------------------------------------------------
(* The steps of the dispatcher.                                            *)

\* Waiting for the next call.
LEMMA CallFollows ==
  ASSUME UNCHANGED <<queue, granted>>, NEW p, GoTo(p), ~ComfyAtWork,
         p \notin {"submit", "prompt", "interrupt"}
  PROVE  UNCHANGED Lease!leaseVars
BY LineKept DEF GoTo, ComfyAtWork

\* Before the dispatcher has taken a work the line is the FIFO.
LEMMA FrontOfQueue ==
  ASSUME QueueInv, pc = "next", queue # <<>>
  PROVE  /\ current = None /\ ~cancelled /\ ~ComfyAtWork
         /\ <<Head(queue)>> \o Tail(queue) = Line
<1>1. current = None
  BY DEF QueueInv, IInv, TypeOK, DispatcherTypeOK, IdlePCs
<1>2. Line = queue /\ queue \in Seq(Work)
  BY <1>1, LineParts DEF QueueInv
<1>3. QED
  BY <1>1, <1>2, Joining DEF QueueInv, HandsInv, ComfyAtWork

\* A chat at the front is granted its lease, or prepared for.
LEMMA PrepareLine ==
  ASSUME QueueInv, IInv', NEW c \in Chats, NEW before, PrepareChat(c, before),
         ~cancelled, ~ComfyAtWork, <<c>> \o queue' = Line, Serial => Granted = {}
  PROVE  [Lease!LeaseNext]_(Lease!leaseVars)
<1>1. CASE NeedsRestore(c)
  <2>1. current' = c /\ UNCHANGED <<cancelled, granted>> /\ ~ComfyAtWork'
    BY <1>1 DEF PrepareChat, BeginRestore, grantVars, ComfyAtWork
  <2>2. QED
    BY <2>1, FrontTaken DEF QueueInv, Work
<1>2. CASE ~NeedsRestore(c)
  BY <1>2, ChatBegins DEF QueueInv, PrepareChat, Grant, NextWork
<1>3. QED
  BY <1>1, <1>2

LEMMA TakeChatLine ==
  ASSUME QueueInv, IInv', TakeChat
  PROVE  [Lease!LeaseNext]_(Lease!leaseVars)
<1>1. /\ pc = "next" /\ queue # <<>> /\ Head(queue) \in Chats
      /\ ~cancelled /\ ~ComfyAtWork /\ <<Head(queue)>> \o queue' = Line
  BY FrontOfQueue DEF TakeChat, Awake, At
<1>2. CASE Serial
  <2>1. current' = Head(queue) /\ UNCHANGED <<cancelled, granted>> /\ ~ComfyAtWork'
    BY <1>2 DEF TakeChat, grantVars, ComfyAtWork
  <2>2. QED
    BY <1>1, <2>1, FrontTaken DEF QueueInv, Work
<1>3. CASE ~Serial
  BY <1>1, <1>3, PrepareLine DEF TakeChat
<1>4. QED
  BY <1>2, <1>3

\* The chat in the dispatcher's hands gets its lease, unless it has left.
LEMMA GrantLine ==
  ASSUME QueueInv, IInv', NEW before, Grant(current, before), UNCHANGED queue,
         pc \in ChatPCs, Granted = {}
  PROVE  Lease!LeaseNext
<1>1. current \in Chats /\ current # None /\ ~ComfyAtWork
  BY WorkAssumption DEF QueueInv, IInv, TypeOK, DispatcherTypeOK, ChatPCs, RestoreCalls, ComfyAtWork, Work
<1>2. CASE cancelled
  BY <1>2, TurnOver DEF QueueInv, Grant, NextWork, grantVars
<1>3. CASE ~cancelled
  <2>1. <<current>> \o queue' = Line
    BY <1>1, <1>3, LineParts DEF QueueInv
  <2>2. QED
    BY <1>1, <1>3, <2>1, ChatBegins DEF QueueInv, Grant, NextWork
<1>4. QED
  BY <1>2, <1>3

LEMMA RestoreLine ==
  ASSUME QueueInv, IInv', RestoreStep
  PROVE  [Lease!LeaseNext]_(Lease!leaseVars)
<1>0. UNCHANGED queue /\ TypeOK /\ RequestInv /\ OwnershipInv /\ IInv
  BY DEF RestoreStep, RestoreFrame, QueueInv, IInv
<1>h. pc \in Lifecycle => Granted = {}
  BY <1>0 DEF OwnershipInv, QuietInv
<1>1. CASE ChatDrained
  <2>1. pc = "chatDrain" /\ ~Blocked /\ current \in Chats /\ ~ComfyAtWork
    BY <1>0, <1>1 DEF ChatDrained, Awake, At, TypeOK, DispatcherTypeOK, ChatPCs, ComfyAtWork
  <2>2. CASE cancelled
    BY <1>0, <1>1, <2>2, TurnOver DEF ChatDrained, NextWork, grantVars
  <2>3. CASE ~cancelled
    <3>1. <<current>> \o queue' = Line
      BY <1>0, <2>1, <2>3, LineParts, WorkAssumption DEF Work
    <3>2. Granted = {}
      <4>1. activeChats + activeMeta = 0 /\ activeChats \in Nat /\ activeMeta \in Nat
        BY <1>0, <2>1, <2>3, NoLeases DEF Blocked, TypeOK, SideTypeOK, RequestInv, GrantTypeOK
      <4>2. QED
        BY <1>0, <4>1, NoLeases DEF RequestInv
    <3>3. PrepareChat(current, "draining_llm")
      BY <1>1, <2>3 DEF ChatDrained
    <3>4. QED
      BY <2>1, <2>3, <3>1, <3>2, <3>3, PrepareLine
  <2>4. QED
    BY <2>2, <2>3
<1>2. CASE ControlsDrained \/ CleanupReturns \/ RestoreValidated \/ RestoreReleased
  <2>1. UNCHANGED granted /\ ~ComfyAtWork
    BY <1>2 DEF ControlsDrained, CleanupReturns, RestoreValidated, RestoreReleased, grantVars, Awake, At,
                ComfyAtWork
  <2>2. \E p \in Lifecycle : GoTo(p)
    BY <1>2 DEF ControlsDrained, CleanupReturns, RestoreValidated, RestoreReleased, RestoreCall,
                Lifecycle, RestoreCalls
  <2>3. QED
    BY <1>0, <2>1, <2>2, CallFollows DEF Lifecycle, RestoreCalls, ActivateCalls
<1>3. ASSUME NEW p, Restored(p), pc \in RestoreCalls PROVE Lease!LeaseNext
  BY <1>0, <1>3, <1>h, GrantLine DEF Restored, Lifecycle, ChatPCs
<1>4. CASE RestoreObserved
  <2>1. pc = "restoreObserve"
    BY <1>4 DEF RestoreObserved, At
  <2>2. CASE \E p \in RestorePoints : Restored(p)
    BY <1>3, <2>1, <2>2 DEF RestoreCalls
  <2>3. CASE GoTo("acquire") /\ UNCHANGED grantVars
    BY <1>0, <2>1, <2>3, CallFollows DEF grantVars, ComfyAtWork
  <2>4. QED
    BY <1>4, <2>2, <2>3 DEF RestoreObserved
<1>5. CASE RestoreAcquired
  <2>1. pc \in RestoreCalls /\ \E p \in RestorePoints : Restored(p)
    BY <1>5 DEF RestoreAcquired, At, RestoreCalls
  <2>2. QED
    BY <1>3, <2>1
<1>6. CASE RestoreFails
  BY <1>0, <1>6, TurnOver DEF RestoreFails, NextWork
<1>7. QED
  BY <1>1, <1>2, <1>4, <1>5, <1>6 DEF RestoreStep

LEMMA TakeImageLine ==
  ASSUME QueueInv, IInv', TakeImage
  PROVE  [Lease!LeaseNext]_(Lease!leaseVars)
<1>1. /\ pc = "next" /\ queue # <<>> /\ Head(queue) \in Images /\ current' = Head(queue)
      /\ ~cancelled /\ ~ComfyAtWork /\ <<Head(queue)>> \o queue' = Line
      /\ UNCHANGED <<cancelled, granted>>
  BY FrontOfQueue DEF TakeImage, Awake, At, PopFrame, grantVars
<1>2. CASE owner = "comfy"
  <2>1. pc' = "submit"
    BY <1>2 DEF TakeImage
  <2>2. Granted = {}
    BY <1>2 DEF QueueInv, IInv, OwnershipInv, LeaseInv
  <2>3. QED
    BY <1>1, <2>1, <2>2, ImageBegins DEF QueueInv
<1>3. CASE owner # "comfy"
  <2>1. ~ComfyAtWork'
    BY <1>3 DEF TakeImage, ComfyAtWork
  <2>2. QED
    BY <1>1, <2>1, FrontTaken DEF QueueInv, Work
<1>4. QED
  BY <1>2, <1>3

\* The image in the dispatcher's hands is given to ComfyUI, unless it has left.
LEMMA StartLine ==
  ASSUME QueueInv, IInv', StartImage, UNCHANGED <<queue, granted>>,
         pc \in {"imageDrain"} \cup ActivateCalls, ~cancelled => Granted = {}
  PROVE  Lease!LeaseNext
<1>1. current \in Images /\ current # None /\ ~ComfyAtWork
  BY WorkAssumption DEF QueueInv, IInv, TypeOK, DispatcherTypeOK, ImagePCs, ActivateCalls, ComfyAtWork, Work
<1>2. CASE cancelled
  BY <1>2, TurnOver DEF QueueInv, StartImage, EndImage, NextWork
<1>3. CASE ~cancelled
  <2>1. <<current>> \o queue' = Line /\ current' = current /\ pc' = "submit"
    BY <1>1, <1>3, LineParts DEF QueueInv, StartImage, GoTo
  <2>2. QED
    BY <1>1, <1>3, <2>1, ImageBegins DEF QueueInv
<1>4. QED
  BY <1>2, <1>3

LEMMA ServeImageLine ==
  ASSUME QueueInv, IInv', ServeImageStep
  PROVE  [Lease!LeaseNext]_(Lease!leaseVars)
<1>0. UNCHANGED <<queue, granted>> /\ TypeOK /\ RequestInv /\ OwnershipInv /\ IInv
  BY DEF ServeImageStep, ImageFrame, PopFrame, grantVars, QueueInv, IInv
<1>h. pc \in ActivateCalls => Granted = {}
  BY <1>0 DEF OwnershipInv, QuietInv, Lifecycle
<1>1. ASSUME EndImage PROVE Lease!LeaseNext
  BY <1>0, <1>1, TurnOver DEF EndImage, NextWork
<1>2. ASSUME NEW p \in {"imageValidate", "imageAcquire", "imageObserve"}, GoTo(p) \/ BeginRelease,
             pc \in {"imageDrain"} \cup ActivateCalls
      PROVE  UNCHANGED Lease!leaseVars
  BY <1>0, <1>2, CallFollows DEF BeginRelease, ComfyAtWork, ActivateCalls
<1>3. CASE ImageDrained
  <2>1. pc = "imageDrain" /\ ~Blocked
    BY <1>3 DEF ImageDrained, Awake, At
  <2>2. ASSUME ~cancelled PROVE Granted = {}
    <3>1. activeChats + activeMeta = 0 /\ activeChats \in Nat /\ activeMeta \in Nat
      BY <1>0, <2>1, <2>2, NoLeases DEF Blocked, TypeOK, SideTypeOK, RequestInv
    <3>2. QED
      BY <1>0, <3>1, NoLeases DEF RequestInv
  <2>3. StartImage => Lease!LeaseNext
    BY <1>0, <2>1, <2>2, StartLine
  <2>4. EndImage \/ GoTo("imageValidate") \/ BeginRelease \/ StartImage
    BY <1>3 DEF ImageDrained
  <2>5. QED
    BY <1>1, <1>2, <2>1, <2>3, <2>4
<1>4. CASE ImageValidated \/ ImageAcquired
  <2>1. pc \in ActivateCalls
    BY <1>4 DEF ImageValidated, ImageAcquired, At, ActivateCalls
  <2>2. BeginRelease \/ GoTo("imageAcquire") \/ GoTo("imageObserve")
    BY <1>4 DEF ImageValidated, ImageAcquired
  <2>3. QED
    BY <1>2, <2>1, <2>2
<1>5. CASE ImageObserved \/ ImageReleased
  <2>1. pc \in ActivateCalls
    BY <1>5 DEF ImageObserved, ImageReleased, At, ActivateCalls
  <2>2. BeginRelease \/ StartImage
    BY <1>5, Zenon DEF ImageObserved, ImageReleased
  <2>3. StartImage => Lease!LeaseNext
    BY <1>0, <1>h, <2>1, StartLine
  <2>4. QED
    BY <1>2, <2>1, <2>2, <2>3
<1>6. CASE SubmitAccepted
  BY <1>0, <1>6, LineKept DEF SubmitAccepted, At, GoTo, ComfyAtWork
<1>7. CASE PromptSucceeds \/ ImageFails
  BY <1>1, <1>7 DEF PromptSucceeds, ImageFails
<1>8. QED
  BY <1>3, <1>4, <1>5, <1>6, <1>7 DEF ServeImageStep

-----------------------------------------------------------------------------
(* Start, shutdown, and the theorem.                                       *)

LEMMA CloseLine ==
  ASSUME IInv, IInv', Close
  PROVE  Lease!LeaseNext
<1>1. /\ queue' = <<>> /\ UNCHANGED <<pc, current, cancelled, granted>>
      /\ Lease!Keeps(queue, queue')
  BY LineParts, KeepsNothing DEF Close
<1>2. QED
  BY <1>1, LineLeft

LEMMA ShutdownLine ==
  ASSUME IInv, Shutdown
  PROVE  [Lease!LeaseNext]_(Lease!leaseVars)
<1>1. UNCHANGED <<queue, granted>>
  BY DEF Shutdown, StopFrame, queueVars
<1>2. CASE StopDispatcher
  BY <1>1, <1>2, TurnOver DEF StopDispatcher
<1>3. CASE PromptCancelled
  BY <1>1, <1>3, LineKept DEF PromptCancelled, GoTo, ComfyAtWork
<1>4. QED
  BY <1>2, <1>3 DEF Shutdown, DispatcherCancelled, InterruptReturns

\* Steps of the environment and of side requests, and the start.
LEMMA OtherLine ==
  ASSUME Initialize \/ SideStep \/ DispatcherWaits \/ Environment \/ UNCHANGED vars
  PROVE  UNCHANGED Lease!leaseVars
<1>1. UNCHANGED <<queue, current, cancelled, granted>>
  BY DEF Initialize, BootFrame, SideStep, SideFrame, DispatcherWaits, Environment, vars, dispatcherVars,
         queueVars, grantVars
<1>2. ComfyAtWork' = ComfyAtWork
  BY DEF Initialize, SideStep, SideFrame, DispatcherWaits, Environment, vars, dispatcherVars, ComfyAtWork
<1>3. QED
  BY <1>1, <1>2, LineKept

\* The coordinator is an implementation of LeaseQueue, for any clients, any
\* batches and any backend: requests get the GPU in the order in which they
\* came, and an image never shares it.
THEOREM ServedInOrder == Spec => ServesInOrder
<1>1. Init => Lease!LeaseInit
  <2> SUFFICES ASSUME Init PROVE Lease!LeaseInit
    OBVIOUS
  <2>1. /\ queue = <<>> /\ current = None /\ pc = "boot"
        /\ granted = [c \in Chats |-> FALSE]
    BY DEF Init
  <2>2. Line = <<>> /\ Using = {}
    BY <2>1 DEF Line, Dispatched, Using, Granted, ComfyAtWork
  <2>3. QED
    BY <2>2 DEF Lease!LeaseInit
<1>2. Init => HandsInv
  BY DEF Init, HandsInv
<1>3. TypeOK /\ HandsInv /\ [Next]_vars => HandsInv'
  BY HandsKept
<1>4. IInv /\ HandsInv /\ IInv' /\ [Next]_vars => [Lease!LeaseNext]_(Lease!leaseVars)
  <2> SUFFICES ASSUME QueueInv, IInv, IInv', [Next]_vars PROVE [Lease!LeaseNext]_(Lease!leaseVars)
    BY DEF QueueInv
  <2>1. CASE Initialize \/ SideStep \/ Environment \/ UNCHANGED vars
    BY <2>1, OtherLine
  <2>2. CASE \E c \in Chats : ChatStep(c)
    BY <2>2, ChatLine
  <2>3. CASE ImageStep
    BY <2>3, ImageLine
  <2>4. CASE Dispatcher
    BY <2>4, OtherLine, TakeChatLine, RestoreLine, TakeImageLine, ServeImageLine, ShutdownLine
       DEF Dispatcher
  <2>5. CASE Close
    BY <2>5, CloseLine
  <2>6. QED
    BY <2>1, <2>2, <2>3, <2>4, <2>5 DEF Next, Stopped
<1>5. QED
  BY <1>1, <1>2, <1>3, <1>4, TypeCorrect, InductiveInvariant, PTL
     DEF Spec, ServesInOrder, Lease!LeaseSpec

-----------------------------------------------------------------------------
(* Wake-ups.                                                               *)

\* The wait the dispatcher is at is over.
WaitOver == pc \in Waiting /\ ~closing /\ ~Blocked

\* A step notifies the dispatcher, leaves it a wait that is not over, or finds
\* it over already.
Wakes == \/ notified' = TRUE
         \/ ~WaitOver'
         \/ WaitOver /\ notified' = notified

LEMMA WakeupKept ==
  ASSUME NoLostWakeup, Wakes
  PROVE  NoLostWakeup'
<1>1. CASE notified' = TRUE
  BY <1>1, Zenon DEF NoLostWakeup
<1>2. CASE ~WaitOver'
  BY <1>2, Zenon DEF NoLostWakeup, WaitOver
<1>3. CASE WaitOver /\ notified' = notified
  BY <1>3, Zenon DEF NoLostWakeup, WaitOver
<1>4. QED
  BY <1>1, <1>2, <1>3, Zenon DEF Wakes

\* Requests and leases that end notify; what else clients do ends no wait.
LEMMA ClientWakeups ==
  ASSUME TypeOK,
         \/ \E c \in Chats : ChatStep(c)
         \/ ImageStep
         \/ SideStep
  PROVE  Wakes
<1>1. ASSUME UNCHANGED <<notified, pc, cancelled, queue, closing, activeChats, activeMeta,
                         activeControls>>
      PROVE  Wakes
  <2>1. WaitOver' => WaitOver
    BY <1>1 DEF WaitOver, Blocked
  <2>2. QED
    BY <1>1, <2>1, Zenon DEF Wakes
<1>2. ASSUME NEW c \in Chats, ChatStep(c)
      PROVE  Wakes
  <2>1. CASE ChatEnter(c)
    BY <1>1, <1>2, <2>1 DEF ChatStep, ChatFrame, ChatEnter, grantVars, sideVars, lifeVars
  <2>2. CASE ~ChatEnter(c)
    <3>1. notified' = TRUE
      BY <1>2, <2>2, Zenon
         DEF ChatStep, ChatEnqueue, ChatAbandon, ChatExit, ChatFails, LeaveLease, Notify
    <3>2. QED
      BY <3>1, Zenon DEF Wakes
  <2>3. QED
    BY <2>1, <2>2
<1>3. CASE ImageStep
  <2>1. ASSUME NEW i \in Images, ImageReply(i) \/ ImageFinish(i)
        PROVE  Wakes
    BY <1>1, <1>3, <2>1
       DEF ImageStep, RequestFrame, ImageReply, ImageFinish, grantVars, sideVars, lifeVars
  <2>2. QED
    BY <1>3, <2>1, Zenon
       DEF ImageStep, ImageEnqueue, ImageAbandon, BatchLeave, CancelImages, Notify, Wakes
<1>4. CASE SideStep
  <2>1. UNCHANGED <<pc, cancelled, queue, closing, activeChats>>
    BY <1>4 DEF SideStep, SideFrame, queueVars, grantVars, lifeVars
  <2>2. CASE PassiveMetadata \/ RouterControl
    <3>1. /\ notified' = notified /\ activeMeta' = activeMeta + 1
          /\ activeControls' = activeControls
      BY <2>2 DEF PassiveMetadata, RouterControl, MetadataBegin
    <3>2. activeMeta \in Nat /\ activeChats \in Int
      BY DEF TypeOK, SideTypeOK, GrantTypeOK
    <3>3. WaitOver' => WaitOver
      BY <2>1, <3>1, <3>2 DEF WaitOver, Blocked
    <3>4. QED
      BY <3>1, <3>3, Zenon DEF Wakes
  <2>3. CASE ControlBegin
    <3>1. WaitOver' => WaitOver
      BY <2>1, <2>3 DEF ControlBegin, WaitOver, Blocked, TypeOK, SideTypeOK
    <3>2. QED
      BY <2>3, <3>1, Zenon DEF Wakes, ControlBegin
  <2>4. CASE MetadataDone \/ ControlDone
    BY <2>4, Zenon DEF MetadataDone, ControlDone, Notify, Wakes
  <2>5. CASE HistoryDelete \/ HistoryProceed
    BY <1>1, <2>1, <2>5 DEF HistoryDelete, HistoryProceed, sideVars
  <2>6. QED
    BY <1>4, <2>2, <2>3, <2>4, <2>5 DEF SideStep
<1>5. QED
  BY <1>2, <1>3, <1>4

\* So does the dispatcher itself, wherever it comes to wait.
LEMMA DispatcherWakeups ==
  ASSUME TypeOK, Dispatcher
  PROVE  Wakes
<1>0. ASSUME notified' = TRUE PROVE Wakes
  BY <1>0, Zenon DEF Wakes
<1>1. CASE DispatcherWaits
  <2>1. ~WaitOver'
    BY <1>1 DEF DispatcherWaits, WaitOver, Blocked, queueVars, grantVars, sideVars, lifeVars
  <2>2. QED
    BY <2>1 DEF Wakes
<1>2. CASE Shutdown
  <2>1. pc' \in {"dead", "interrupt"}
    BY <1>2
       DEF Shutdown, DispatcherCancelled, PromptCancelled, InterruptReturns, StopDispatcher, GoTo
  <2>2. QED
    BY <2>1 DEF Wakes, WaitOver, Waiting
<1>3. ASSUME NEW c, NEW before, PrepareChat(c, before) PROVE notified' = TRUE
  BY <1>3, Zenon DEF PrepareChat, BeginRestore, Grant, NextWork
<1>4. CASE TakeChat
  <2>1. notified = TRUE
    BY <1>4, Zenon DEF TakeChat, Awake, TypeOK, DispatcherTypeOK
  <2>2. notified' = TRUE
    BY <1>3, <1>4, <2>1, Zenon DEF TakeChat
  <2>3. QED
    BY <1>0, <2>2
<1>5. CASE RestoreStep
  <2>1. notified' = TRUE
    BY <1>3, <1>5, Zenon
       DEF RestoreStep, ChatDrained, ControlsDrained, CleanupReturns, RestoreValidated,
           RestoreReleased, RestoreObserved, RestoreAcquired, RestoreFails, Restored, Grant,
           NextWork, GoTo
  <2>2. QED
    BY <1>0, <2>1
<1>6. CASE TakeImage
  <2>1. notified = TRUE
    BY <1>6, Zenon DEF TakeImage, Awake, TypeOK, DispatcherTypeOK
  <2>2. notified' = TRUE
    BY <1>6, <2>1, Zenon DEF TakeImage
  <2>3. QED
    BY <1>0, <2>2
<1>7. CASE ServeImageStep
  <2>1. ASSUME StartImage \/ BeginRelease \/ EndImage PROVE notified' = TRUE
    BY <2>1, Zenon DEF StartImage, BeginRelease, EndImage, NextWork, GoTo
  <2>2. notified' = TRUE
    BY <1>7, <2>1, Zenon
       DEF ServeImageStep, ImageDrained, ImageValidated, ImageAcquired, ImageObserved,
           ImageReleased, SubmitAccepted, PromptSucceeds, ImageFails, GoTo
  <2>3. QED
    BY <1>0, <2>2
<1>8. QED
  BY <1>1, <1>2, <1>4, <1>5, <1>6, <1>7 DEF Dispatcher

\* The dispatcher never sleeps through a change that ends its wait.
THEOREM NoWakeupLost == Spec => []NoLostWakeup
<1>1. Init => NoLostWakeup
  BY Zenon DEF Init, NoLostWakeup
<1>2. IInv /\ NoLostWakeup /\ [Next]_vars => NoLostWakeup'
  <2> SUFFICES ASSUME IInv, NoLostWakeup, [Next]_vars PROVE NoLostWakeup'
    OBVIOUS
  <2>0. TypeOK /\ BootInv
    BY DEF IInv, OwnershipInv
  <2>1. CASE (\E c \in Chats : ChatStep(c)) \/ ImageStep \/ SideStep
    BY <2>0, <2>1, ClientWakeups, WakeupKept
  <2>2. CASE Dispatcher
    BY <2>0, <2>2, DispatcherWakeups, WakeupKept
  <2>3. CASE Initialize
    <3>1. queue' = <<>> /\ pc' \in {"next", "dead"} /\ closing' = closing /\ ~closing
      BY <2>0, <2>3 DEF Initialize, BootFrame, BootInv, queueVars
    <3>2. ~WaitOver'
      BY <3>1 DEF WaitOver, Blocked, Waiting
    <3>3. QED
      BY <3>2, WakeupKept DEF Wakes
  <2>4. CASE Close
    BY <2>4, WakeupKept, Zenon DEF Close, Notify, Wakes
  <2>5. CASE Environment \/ UNCHANGED vars
    <3>1. UNCHANGED <<notified, pc, cancelled, queue, closing, activeChats, activeMeta,
                      activeControls>>
      BY <2>5
         DEF Environment, vars, dispatcherVars, queueVars, grantVars, sideVars, lifeVars
    <3>2. WaitOver' => WaitOver
      BY <3>1 DEF WaitOver, Blocked
    <3>3. QED
      BY <3>1, <3>2, WakeupKept, Zenon DEF Wakes
  <2>6. QED
    BY <2>1, <2>2, <2>3, <2>4, <2>5 DEF Next, Stopped
<1>3. QED
  BY <1>1, <1>2, InductiveInvariant, PTL DEF Spec

-----------------------------------------------------------------------------
(* Futures.                                                                *)

\* Somebody waits for an answer of the dispatcher to w.
Waits(w) ==
  \/ w \in Chats /\ chat[w] = "waiting" /\ ready[w] = "pending"
  \/ w \in Images /\ image[w] # "out" /\ (submitted[w] = "pending" \/ completion[w] = "pending")

\* Who waits is queued for a live dispatcher or in its hands.
WaitsInv == \A w \in Work : Waits(w) => InHands(w)

\* Shutdown leaves the FIFO empty, the task ends for no other reason, and
\* a workflow is only monitored after it was answered.
StopInv ==
  /\ closing \/ fatal => queue = <<>>
  /\ pc = "dead" => closing \/ fatal
  /\ pc = "interrupt" => closing
  /\ pc \in {"prompt", "interrupt"} => submitted[current] # "pending"

OrphanInv == IInv /\ HandsInv /\ WaitsInv /\ StopInv

LEMMA OrphanParts ==
  ASSUME OrphanInv
  PROVE  /\ TypeOK /\ FifoInv /\ CurrentInv /\ BootInv /\ HandsInv /\ WaitsInv /\ StopInv
         /\ queue \in Seq(Work) /\ Distinct(queue)
         /\ pc = "dead" => queue = <<>>
         /\ Chats \cap Images = {} /\ None \notin Work /\ Work = Chats \cup Images
         /\ ready \in [Chats -> Futures]
         /\ submitted \in [Images -> Futures] /\ completion \in [Images -> Futures]
BY WorkAssumption
   DEF OrphanInv, IInv, RequestInv, OwnershipInv, FifoInv, StopInv, TypeOK, QueueTypeOK,
       GrantTypeOK, ImageTypeOK, Work

\* Steps that leave the FIFO and the dispatcher's hands alone, and make nobody
\* wait.
LEMMA HandsFrame ==
  ASSUME WaitsInv, UNCHANGED <<queue, current, cancelled>>, pc' = "dead" => pc = "dead",
         \A w \in Work : Waits(w)' => Waits(w)
  PROVE  WaitsInv'
BY DEF WaitsInv, InHands

\* The dispatcher lets go of a work nobody waits for any more.
LEMMA LetGo ==
  ASSUME WaitsInv, UNCHANGED queue, pc' = "dead" => queue = <<>>,
         \A w \in Work : Waits(w)' => Waits(w) /\ (current = w => cancelled)
  PROVE  WaitsInv'
<1>1. Elements(queue') = Elements(queue)
  OBVIOUS
<1>2. queue = <<>> => Elements(queue) = {}
  BY DEF Elements
<1>3. QED
  BY <1>1, <1>2 DEF WaitsInv, InHands

\* A settled future is no longer pending, and no other becomes so.
LEMMA Settled ==
  ASSUME NEW D, NEW f \in [D -> Futures], NEW S, NEW v \in Futures \ {"pending"},
         NEW w \in D
  PROVE  Settle(f, S, v)[w] = "pending" => f[w] = "pending" /\ w \notin S
BY DEF Settle

LEMMA Assigned ==
  ASSUME NEW D, NEW f, DOMAIN f = D, NEW S, NEW v, NEW w \in D
  PROVE  Assign(f, S, v)[w] = IF w \in S THEN v ELSE f[w]
BY DEF Assign

\* What chats do.
LEMMA ChatWaits ==
  ASSUME OrphanInv, NEW c \in Chats, ChatStep(c)
  PROVE  WaitsInv'
<1>0. /\ UNCHANGED <<pc, current, image, submitted, completion>>
      /\ c \in Work /\ c \notin Images
      /\ chat \in [Chats -> {"out", "waiting", "entered"}]
  BY OrphanParts DEF ChatStep, ChatFrame, futureVars, TypeOK, ChatTypeOK
<1>1. ASSUME NEW t, ChatEnqueue(c, t) PROVE WaitsInv'
  <2>1. pc # "dead" /\ pc' # "dead"
    BY <1>0, <1>1, OrphanParts DEF ChatEnqueue, Accepting, StopInv
  <2>2. c \in Elements(queue') /\ Elements(queue) \subseteq Elements(queue')
    <3>1. /\ DOMAIN queue = 1 .. Len(queue) /\ Len(queue) \in Nat
          /\ DOMAIN Append(queue, c) = 1 .. Len(queue) + 1
          /\ \A k \in 1 .. Len(queue) : Append(queue, c)[k] = queue[k]
          /\ Append(queue, c)[Len(queue) + 1] = c
      BY <1>0, OrphanParts
    <3>2. queue' = Append(queue, c)
      BY <1>1 DEF ChatEnqueue
    <3>3. QED
      BY <3>1, <3>2 DEF Elements
  <2>3. ASSUME NEW w \in Work, w # c, Waits(w)' PROVE Waits(w)
    BY <1>0, <1>1, <2>3, OrphanParts DEF ChatEnqueue, Waits
  <2>4. UNCHANGED <<current, cancelled>>
    BY <1>0, <1>1 DEF ChatEnqueue
  <2>5. QED
    BY <2>1, <2>2, <2>3, <2>4, OrphanParts DEF WaitsInv, InHands
<1>2. ASSUME ChatEnter(c) \/ ChatExit(c) \/ ChatFails(c) PROVE WaitsInv'
  <2>1. UNCHANGED <<queue, cancelled>>
    BY <1>2 DEF ChatEnter, ChatExit, ChatFails
  <2>2. /\ ready' = ready \/ ready' = [ready EXCEPT ![c] = "none"]
        /\ chat' = [chat EXCEPT ![c] = "out"] \/ chat' = [chat EXCEPT ![c] = "entered"]
    BY <1>2 DEF ChatEnter, ChatExit, ChatFails, LeaveLease, grantVars
  <2>3. ASSUME NEW w \in Work, Waits(w)' PROVE Waits(w)
    BY <1>0, <2>2, <2>3, OrphanParts DEF Waits
  <2>4. QED
    BY <1>0, <2>1, <2>3, HandsFrame, OrphanParts
<1>3. ASSUME ChatAbandon(c) PROVE WaitsInv'
  <2>1. Elements(queue') = Elements(queue) \ {c}
    BY <1>3, OrphanParts, RemoveQueuedElements DEF ChatAbandon
  <2>2. ASSUME NEW w \in Work, Waits(w)' PROVE Waits(w) /\ w # c
    BY <1>0, <1>3, <2>2, OrphanParts DEF ChatAbandon, LeaveLease, Waits
  <2>3. ASSUME NEW w \in Work, w # c, current = w, ~cancelled PROVE ~cancelled'
    <3>1. cancelled' = (cancelled \/ current = c)
      BY <1>3, Zenon DEF ChatAbandon
    <3>2. QED
      BY <2>3, <3>1, Zenon
  <2>4. QED
    BY <1>0, <2>1, <2>2, <2>3, OrphanParts DEF WaitsInv, InHands
<1>4. QED
  BY <1>1, <1>2, <1>3 DEF ChatStep

\* What image requests do.
LEMMA ImageWaits ==
  ASSUME OrphanInv, ImageStep
  PROVE  WaitsInv'
<1>0. /\ UNCHANGED <<pc, current, chat, ready>>
      /\ DOMAIN image = Images /\ DOMAIN submitted = Images /\ DOMAIN completion = Images
      /\ image \in [Images -> {"out", "waiting", "generating", "batch"}]
  BY OrphanParts DEF ImageStep, RequestFrame, grantVars, TypeOK, ImageTypeOK
<1>1. ASSUME NEW s \in Seq(Images), NEW status, ImageEnqueue(s, status) PROVE WaitsInv'
  <2>1. pc # "dead" /\ pc' # "dead"
    BY <1>0, <1>1, OrphanParts DEF ImageEnqueue, Accepting, StopInv
  <2>2. Elements(queue') = Elements(queue) \cup Elements(s)
    <3>1. queue' = queue \o s /\ s \in Seq(Work)
      BY <1>1, OrphanParts DEF ImageEnqueue
    <3>2. /\ DOMAIN queue = 1 .. Len(queue) /\ Len(queue) \in Nat
          /\ DOMAIN s = 1 .. Len(s) /\ Len(s) \in Nat
          /\ DOMAIN (queue \o s) = 1 .. Len(queue) + Len(s)
          /\ \A k \in 1 .. Len(queue) + Len(s) :
               (queue \o s)[k] = IF k <= Len(queue) THEN queue[k] ELSE s[k - Len(queue)]
      BY <3>1, OrphanParts, ConcatPlaces
    <3>3. ASSUME NEW w \in Elements(queue \o s) PROVE w \in Elements(queue) \cup Elements(s)
      BY <3>2, <3>3 DEF Elements
    <3>4. ASSUME NEW w \in Elements(queue) PROVE w \in Elements(queue \o s)
      BY <3>2, <3>4 DEF Elements
    <3>5. ASSUME NEW w \in Elements(s) PROVE w \in Elements(queue \o s)
      <4>1. PICK k \in 1 .. Len(s) : w = s[k]
        BY <3>2 DEF Elements
      <4>2. /\ k + Len(queue) \in 1 .. Len(queue) + Len(s) /\ ~(k + Len(queue) <= Len(queue))
            /\ (k + Len(queue)) - Len(queue) = k
        BY <3>2
      <4>3. (queue \o s)[k + Len(queue)] = w
        BY <3>2, <4>1, <4>2
      <4>4. QED
        BY <3>2, <4>2, <4>3 DEF Elements
    <3>6. QED
      BY <3>1, <3>3, <3>4, <3>5
  <2>3. ASSUME NEW w \in Work, w \notin Elements(s), Waits(w)' PROVE Waits(w)
    <3>1. w \in Images => /\ image'[w] = image[w] /\ submitted'[w] = submitted[w]
                          /\ completion'[w] = completion[w]
      BY <1>0, <1>1, <2>3, Assigned DEF ImageEnqueue
    <3>2. QED
      BY <1>0, <2>3, <3>1 DEF Waits
  <2>4. UNCHANGED <<current, cancelled>>
    BY <1>0, <1>1 DEF ImageEnqueue
  <2>5. QED
    BY <2>1, <2>2, <2>3, <2>4, OrphanParts DEF WaitsInv, InHands
<1>2. ASSUME NEW S \in SUBSET Images, ForgetImages(S), NEW w \in Work, Waits(w)'
      PROVE  Waits(w) /\ w \notin S
  <2>1. CASE w \in Chats
    BY <1>0, <1>2, <2>1, OrphanParts DEF Waits
  <2>2. CASE w \in Images
    <3>1. image'[w] = IF w \in S THEN "out" ELSE image[w]
      BY <1>0, <1>2, <2>2, Assigned DEF ForgetImages
    <3>2. /\ submitted'[w] = IF w \in S THEN "none" ELSE submitted[w]
          /\ completion'[w] = IF w \in S THEN "none" ELSE completion[w]
      BY <1>0, <1>2, <2>2, Assigned DEF ForgetImages
    <3>3. QED
      BY <1>2, <2>2, <3>1, <3>2, OrphanParts DEF Waits
  <2>3. QED
    BY <2>1, <2>2, OrphanParts
<1>3. ASSUME NEW S \in SUBSET Images, NEW T \in SUBSET Images, CancelImages(S), ForgetImages(T),
             \A w \in S \ T : ~Waits(w)
      PROVE  WaitsInv'
  <2>1. Elements(queue') = Elements(queue) \ S
    BY <1>3, OrphanParts, RemoveQueuedElements DEF CancelImages
  <2>2. ASSUME NEW w \in Work, Waits(w)' PROVE Waits(w) /\ w \notin S
    BY <1>2, <1>3, <2>2
  <2>3. ASSUME NEW w \in Work, w \notin S, current = w, ~cancelled PROVE ~cancelled'
    <3>1. cancelled' = (cancelled \/ current \in S)
      BY <1>3, Zenon DEF CancelImages
    <3>2. QED
      BY <2>3, <3>1, Zenon
  <2>4. QED
    BY <1>0, <2>1, <2>2, <2>3, OrphanParts DEF WaitsInv, InHands
<1>4. ASSUME NEW i \in Images, ImageReply(i) PROVE WaitsInv'
  <2>1. UNCHANGED <<queue, cancelled, submitted, completion>> /\ image[i] = "waiting"
    BY <1>4 DEF ImageReply, futureVars
  <2>2. ASSUME NEW w \in Work, Waits(w)' PROVE Waits(w)
    BY <1>0, <1>4, <2>1, <2>2, OrphanParts DEF ImageReply, Waits
  <2>3. QED
    BY <1>0, <2>1, <2>2, HandsFrame, OrphanParts
<1>5. ASSUME NEW i \in Images, ImageFinish(i) PROVE WaitsInv'
  <2>1. UNCHANGED <<queue, cancelled>>
    BY <1>5 DEF ImageFinish
  <2>2. ASSUME NEW w \in Work, Waits(w)' PROVE Waits(w)
    BY <1>2, <1>5, <2>2 DEF ImageFinish
  <2>3. QED
    BY <1>0, <2>1, <2>2, HandsFrame, OrphanParts
<1>6. ASSUME NEW i \in Images, ImageAbandon(i) PROVE WaitsInv'
  <2>1. {i} \in SUBSET Images /\ CancelImages({i}) /\ ForgetImages({i})
    BY <1>6 DEF ImageAbandon
  <2>2. QED
    BY <1>3, <2>1
<1>7. ASSUME NEW b \in Batches, BatchLeave(b) PROVE WaitsInv'
  <2>1. Elements(b) \subseteq Images
    BY BatchAssumption DEF Elements
  <2>2. /\ CancelImages({i \in Elements(b) : completion[i] = "pending"})
        /\ ForgetImages(Elements(b))
    BY <1>7 DEF BatchLeave
  <2>3. QED
    BY <1>3, <2>1, <2>2
<1>8. ASSUME NEW i \in Images, ImageEnqueue(<<i>>, "waiting") PROVE WaitsInv'
  <2>1. <<i>> \in Seq(Images)
    OBVIOUS
  <2>2. QED
    BY <1>1, <1>8, <2>1, Zenon
<1>9. ASSUME NEW b \in Batches, ImageEnqueue(b, "batch") PROVE WaitsInv'
  BY <1>1, <1>9, BatchAssumption
<1>10. QED
  BY <1>4, <1>5, <1>6, <1>7, <1>8, <1>9 DEF ImageStep

\* The dispatcher takes the first work off the FIFO.
LEMMA Taken ==
  ASSUME OrphanInv, pc = "next", queue # <<>>, queue' = Tail(queue), pc' # "dead",
         \A w \in Work : Waits(w)' => Waits(w),
         \/ current' = Head(queue) /\ cancelled' = cancelled
         \/ \A w \in Work : Waits(w)' => w # Head(queue)
  PROVE  WaitsInv'
<1>1. current = None /\ ~cancelled
  BY OrphanParts DEF TypeOK, DispatcherTypeOK, HandsInv, ChatPCs, ImagePCs, IdlePCs, RestoreCalls,
                     ActivateCalls
<1>2. Elements(queue') = Elements(queue) \ {Head(queue)}
  BY OrphanParts, TailElements
<1>3. ASSUME NEW w \in Work, Waits(w)' PROVE InHands(w)'
  <2>1. w \in Elements(queue)
    BY <1>1, <1>3, OrphanParts DEF WaitsInv, InHands
  <2>2. CASE w # Head(queue)
    BY <1>2, <2>1, <2>2 DEF InHands
  <2>3. CASE w = Head(queue)
    <3>1. current' = w /\ cancelled' = cancelled
      BY <1>3, <2>3
    <3>2. ~cancelled'
      BY <1>1, <3>1, Zenon
    <3>3. QED
      BY <3>1, <3>2 DEF InHands
  <2>4. QED
    BY <2>2, <2>3
<1>4. QED
  BY <1>3 DEF WaitsInv

\* Answering a chat makes nobody wait.
LEMMA ChatAnswered ==
  ASSUME OrphanInv, UNCHANGED <<chat, image, submitted, completion>>, NEW c,
         NEW v \in Futures \ {"pending"}, ready' = Settle(ready, {c}, v),
         NEW w \in Work, Waits(w)'
  PROVE  Waits(w) /\ (w # c \/ c \in Images)
BY OrphanParts, Settled DEF Waits

LEMMA GrantWaits ==
  ASSUME OrphanInv, current \in Chats, NEW before, Grant(current, before),
         UNCHANGED <<queue, chat, image, submitted, completion>>
  PROVE  WaitsInv'
<1>1. pc' = "next"
  BY DEF Grant, NextWork
<1>2. CASE cancelled
  <2>1. ready' = ready
    BY <1>2 DEF Grant, grantVars
  <2>2. \A w \in Work : Waits(w)' => Waits(w)
    BY <2>1 DEF Waits
  <2>3. QED
    BY <1>1, <1>2, <2>2, LetGo, OrphanParts
<1>3. CASE ~cancelled
  <2>1. ready' = Settle(ready, {current}, "ok") /\ "ok" \in Futures \ {"pending"}
    BY <1>3 DEF Grant, Futures
  <2>2. ASSUME NEW w \in Work, Waits(w)' PROVE Waits(w) /\ w # current
    BY <2>1, <2>2, ChatAnswered, OrphanParts
  <2>3. QED
    BY <1>1, <2>2, LetGo, OrphanParts
<1>4. QED
  BY <1>2, <1>3

\* What a chat is served with.
LEMMA TakeChatWaits ==
  ASSUME OrphanInv, TakeChat
  PROVE  WaitsInv'
<1>0. /\ pc = "next" /\ queue # <<>> /\ queue' = Tail(queue)
      /\ UNCHANGED <<chat, image, submitted, completion>>
      /\ Head(queue) \in Chats
  BY DEF TakeChat, Awake, At, ServeFrame, futureVars
<1>1. ASSUME UNCHANGED <<ready, cancelled>>, current' = Head(queue), pc' # "dead" PROVE WaitsInv'
  BY <1>0, <1>1, Taken DEF Waits
<1>2. CASE Serial
  BY <1>1, <1>2 DEF TakeChat, grantVars
<1>3. CASE ~Serial /\ NeedsRestore(Head(queue))
  BY <1>1, <1>3 DEF TakeChat, PrepareChat, BeginRestore, grantVars
<1>4. CASE ~Serial /\ ~NeedsRestore(Head(queue))
  <2>1. Grant(Head(queue), state)
    BY <1>4 DEF TakeChat, PrepareChat
  <2>2. ~cancelled
    BY <1>0, OrphanParts DEF TypeOK, DispatcherTypeOK, HandsInv, ChatPCs, ImagePCs, IdlePCs,
                             RestoreCalls, ActivateCalls
  <2>3. ready' = Settle(ready, {Head(queue)}, "ok") /\ pc' = "next"
    BY <2>1, <2>2 DEF Grant, NextWork
  <2>4. "ok" \in Futures \ {"pending"}
    BY DEF Futures
  <2>5. ASSUME NEW w \in Work, Waits(w)' PROVE Waits(w) /\ w # Head(queue)
    BY <1>0, <2>3, <2>4, <2>5, ChatAnswered, OrphanParts
  <2>6. Head(queue) \in Work
    BY <1>0, OrphanParts
  <2>7. QED
    BY <1>0, <2>3, <2>5, <2>6, Taken
<1>5. QED
  BY <1>2, <1>3, <1>4

LEMMA RestoreWaits ==
  ASSUME OrphanInv, RestoreStep
  PROVE  WaitsInv'
<1>0. UNCHANGED <<queue, chat, image, submitted, completion>>
  BY DEF RestoreStep, RestoreFrame, ServeFrame, futureVars
<1>1. ASSUME UNCHANGED <<ready, current, cancelled>>, pc' # "dead" PROVE WaitsInv'
  BY <1>0, <1>1, HandsFrame, OrphanParts DEF Waits
<1>2. current \in Chats
  BY OrphanParts
     DEF RestoreStep, ChatDrained, ControlsDrained, CleanupReturns, RestoreValidated,
         RestoreReleased, RestoreObserved, RestoreAcquired, RestoreFails, Awake, At, TypeOK,
         DispatcherTypeOK, ChatPCs, RestoreCalls
<1>3. CASE ChatDrained
  <2>1. CASE cancelled
    <3>1. pc' = "next" /\ ready' = ready
      BY <1>3, <2>1 DEF ChatDrained, NextWork, grantVars
    <3>2. QED
      BY <1>0, <2>1, <3>1, LetGo, OrphanParts DEF Waits
  <2>2. CASE ~cancelled /\ NeedsRestore(current)
    <3>1. BeginRestore(current, "draining_llm")
      BY <1>3, <2>2 DEF ChatDrained, PrepareChat
    <3>2. QED
      BY <1>1, <3>1 DEF BeginRestore, grantVars
  <2>3. CASE ~cancelled /\ ~NeedsRestore(current)
    BY <1>0, <1>2, <1>3, <2>3, GrantWaits DEF ChatDrained, PrepareChat
  <2>4. QED
    BY <2>1, <2>2, <2>3
<1>4. CASE ControlsDrained \/ CleanupReturns \/ RestoreValidated \/ RestoreReleased
  <2>1. pc' # "dead"
    BY <1>4 DEF ControlsDrained, CleanupReturns, RestoreValidated, RestoreReleased, RestoreCall, GoTo
  <2>2. UNCHANGED <<ready, current, cancelled>>
    BY <1>4 DEF ControlsDrained, CleanupReturns, RestoreValidated, RestoreReleased, GoTo, grantVars
  <2>3. QED
    BY <1>1, <2>1, <2>2
<1>5. ASSUME NEW p, Restored(p) PROVE WaitsInv'
  BY <1>0, <1>2, <1>5, GrantWaits DEF Restored
<1>6. CASE RestoreObserved \/ RestoreAcquired
  <2>1. (GoTo("acquire") /\ UNCHANGED grantVars) => WaitsInv'
    BY <1>1 DEF GoTo, grantVars
  <2>2. QED
    BY <1>5, <1>6, <2>1 DEF RestoreObserved, RestoreAcquired
<1>7. CASE RestoreFails
  <2>1. ready' = Settle(ready, {current}, "error") /\ pc' = "next"
    BY <1>7 DEF RestoreFails, NextWork
  <2>2. "error" \in Futures \ {"pending"}
    BY DEF Futures
  <2>3. ASSUME NEW w \in Work, Waits(w)' PROVE Waits(w) /\ w # current
    BY <1>0, <1>2, <2>1, <2>2, <2>3, ChatAnswered, OrphanParts
  <2>4. QED
    BY <1>0, <2>1, <2>3, LetGo, OrphanParts
<1>8. QED
  BY <1>3, <1>4, <1>6, <1>7 DEF RestoreStep

\* Answering an image makes nobody wait.
LEMMA ImageAnswered ==
  ASSUME OrphanInv, UNCHANGED <<chat, ready, image>>,
         NEW v \in Futures \ {"pending"}, NEW u \in Futures \ {"pending"},
         submitted' = submitted \/ submitted' = Settle(submitted, {current}, v),
         completion' = completion \/ completion' = Settle(completion, {current}, u)
  PROVE  \A w \in Work : Waits(w)' => Waits(w)
<1> SUFFICES ASSUME NEW w \in Work, Waits(w)' PROVE Waits(w)
  OBVIOUS
<1>1. CASE w \in Chats
  BY <1>1, OrphanParts DEF Waits
<1>2. CASE w \in Images
  <2>1. submitted'[w] = "pending" => submitted[w] = "pending"
    BY <1>2, OrphanParts, Settled
  <2>2. completion'[w] = "pending" => completion[w] = "pending"
    BY <1>2, OrphanParts, Settled
  <2>3. QED
    BY <1>2, <2>1, <2>2, OrphanParts DEF Waits
<1>3. QED
  BY <1>1, <1>2, OrphanParts

\* The dispatcher ends with an image whose two answers are out.
LEMMA ImageLetGo ==
  ASSUME OrphanInv, UNCHANGED <<queue, chat, ready, image>>, pc' = "dead" => queue = <<>>,
         current \in Images,
         NEW v \in Futures \ {"pending"}, NEW u \in Futures \ {"pending"},
         \/ submitted' = submitted /\ submitted[current] # "pending"
         \/ submitted' = Settle(submitted, {current}, v),
         completion' = Settle(completion, {current}, u)
  PROVE  WaitsInv'
<1>1. \A w \in Work : Waits(w)' => Waits(w)
  BY ImageAnswered
<1>2. submitted'[current] # "pending" /\ completion'[current] # "pending"
  BY OrphanParts, Settled
<1>3. \A w \in Work : Waits(w)' => w # current
  BY <1>2, OrphanParts DEF Waits
<1>4. QED
  BY <1>1, <1>3, LetGo, OrphanParts

LEMMA TakeImageWaits ==
  ASSUME OrphanInv, TakeImage
  PROVE  WaitsInv'
<1>1. /\ pc = "next" /\ queue # <<>> /\ queue' = Tail(queue)
      /\ UNCHANGED <<chat, ready, image, submitted, completion, cancelled>>
      /\ current' = Head(queue) /\ pc' # "dead"
  BY DEF TakeImage, Awake, At, PopFrame, futureVars, grantVars
<1>2. QED
  BY <1>1, Taken DEF Waits

LEMMA ServeImageWaits ==
  ASSUME OrphanInv, ServeImageStep
  PROVE  WaitsInv'
<1>0. /\ UNCHANGED <<queue, chat, ready, image>>
      /\ current \in Images
      /\ "ok" \in Futures \ {"pending"} /\ "error" \in Futures \ {"pending"}
  <2>1. UNCHANGED <<queue, chat, ready, image>>
    BY DEF ServeImageStep, ImageFrame, PopFrame, grantVars
  <2>2. pc \in {"imageDrain", "imageValidate", "imageAcquire", "imageObserve", "release", "submit",
                 "prompt"}
    BY DEF ServeImageStep, ImageDrained, ImageValidated, ImageAcquired, ImageObserved,
           ImageReleased, SubmitAccepted, PromptSucceeds, ImageFails, ActivationFails, SubmitFails,
           PromptFails, Awake, At
  <2>3. current \in Images
    BY <2>2, OrphanParts DEF TypeOK, DispatcherTypeOK, ImagePCs, ActivateCalls
  <2>4. QED
    BY <2>1, <2>3 DEF Futures
<1>1. ASSUME UNCHANGED <<current, cancelled, submitted, completion>>, pc' # "dead" PROVE WaitsInv'
  BY <1>0, <1>1, HandsFrame, OrphanParts DEF Waits
<1>2. ASSUME BeginRelease, UNCHANGED <<submitted, completion>> PROVE WaitsInv'
  BY <1>1, <1>2 DEF BeginRelease, GoTo
<1>3. ASSUME ResolveImageError, pc' = "next" PROVE WaitsInv'
  BY <1>0, <1>3, ImageLetGo DEF ResolveImageError
<1>4. CASE StartImage
  BY <1>1, <1>3, <1>4 DEF StartImage, EndImage, NextWork, GoTo, futureVars
<1>5. CASE ImageDrained
  BY <1>1, <1>2, <1>3, <1>4, <1>5 DEF ImageDrained, EndImage, NextWork, GoTo, futureVars
<1>6. CASE ImageValidated
  <2>1. UNCHANGED <<current, cancelled, submitted, completion>>
    BY <1>6 DEF ImageValidated, BeginRelease, GoTo, futureVars
  <2>2. pc' # "dead"
    BY <1>6 DEF ImageValidated, BeginRelease, GoTo
  <2>3. QED
    BY <1>1, <2>1, <2>2
<1>7. CASE ImageAcquired
  BY <1>2, <1>7 DEF ImageAcquired, futureVars
<1>8. CASE ImageObserved
  BY <1>2, <1>4, <1>8 DEF ImageObserved, futureVars
<1>9. CASE ImageReleased
  BY <1>4, <1>9 DEF ImageReleased
<1>10. CASE SubmitAccepted
  <2>1. /\ submitted' = Settle(submitted, {current}, "ok") /\ completion' = completion
        /\ pc' = "prompt" /\ UNCHANGED <<current, cancelled>>
    BY <1>10 DEF SubmitAccepted, GoTo
  <2>2. \A w \in Work : Waits(w)' => Waits(w)
    BY <1>0, <2>1, ImageAnswered
  <2>3. QED
    BY <1>0, <2>1, <2>2, HandsFrame, OrphanParts
<1>11. CASE PromptSucceeds
  <2>1. /\ submitted' = submitted /\ completion' = Settle(completion, {current}, "ok")
        /\ pc' = "next" /\ pc = "prompt"
    BY <1>11 DEF PromptSucceeds, EndImage, NextWork, At
  <2>2. submitted[current] # "pending"
    BY <2>1, OrphanParts DEF StopInv
  <2>3. QED
    BY <1>0, <2>1, <2>2, ImageLetGo
<1>12. CASE ImageFails
  <2>1. completion' = Settle(completion, {current}, "error") /\ pc' = "next"
    BY <1>12 DEF ImageFails, EndImage, NextWork
  <2>2. \/ submitted' = Settle(submitted, {current}, "ok")
        \/ submitted' = Settle(submitted, {current}, "error")
        \/ submitted' = submitted /\ pc = "prompt"
    BY <1>12 DEF ImageFails, ActivationFails, SubmitFails, PromptFails, At
  <2>3. pc = "prompt" => submitted[current] # "pending"
    BY OrphanParts DEF StopInv
  <2>4. QED
    BY <1>0, <2>1, <2>2, <2>3, ImageLetGo
<1>13. QED
  BY <1>5, <1>6, <1>7, <1>8, <1>9, <1>10, <1>11, <1>12 DEF ServeImageStep

\* close() answers what is queued, ...
LEMMA CloseWaits ==
  ASSUME OrphanInv, Close
  PROVE  WaitsInv'
<1>1. /\ UNCHANGED <<pc, current, cancelled, chat, image>>
      /\ ready' = Settle(ready, QueuedIn(Chats), "error")
      /\ submitted' = Settle(submitted, QueuedIn(Images), "error")
      /\ completion' = Settle(completion, QueuedIn(Images), "error")
      /\ "error" \in Futures \ {"pending"}
  BY DEF Close, Futures
<1>2. ASSUME NEW w \in Work, Waits(w)' PROVE Waits(w) /\ w \notin Elements(queue)
  <2>1. CASE w \in Chats
    <3>1. ready[w] = "pending" /\ w \notin QueuedIn(Chats)
      BY <1>1, <1>2, <2>1, OrphanParts, Settled DEF Waits
    <3>2. QED
      BY <1>1, <1>2, <2>1, <3>1, OrphanParts DEF Waits, QueuedIn
  <2>2. CASE w \in Images
    <3>1. submitted'[w] = "pending" => submitted[w] = "pending" /\ w \notin QueuedIn(Images)
      BY <1>1, <2>2, OrphanParts, Settled
    <3>2. completion'[w] = "pending" => completion[w] = "pending" /\ w \notin QueuedIn(Images)
      BY <1>1, <2>2, OrphanParts, Settled
    <3>3. QED
      BY <1>1, <1>2, <2>2, <3>1, <3>2, OrphanParts DEF Waits, QueuedIn
  <2>3. QED
    BY <2>1, <2>2, OrphanParts
<1>3. QED
  BY <1>1, <1>2, OrphanParts DEF WaitsInv, InHands

\* ... and the cancelled dispatcher what is in its hands.
LEMMA ShutdownWaits ==
  ASSUME OrphanInv, Shutdown
  PROVE  WaitsInv'
<1>0. UNCHANGED <<queue, chat, image>>
  BY DEF Shutdown, StopFrame, queueVars
<1>1. ASSUME StopDispatcher, queue = <<>> PROVE WaitsInv'
  <2>1. /\ ready' = Settle(ready, {current}, "error")
        /\ submitted' = Settle(submitted, {current}, "error")
        /\ completion' = Settle(completion, {current}, "error")
        /\ "error" \in Futures \ {"pending"}
    BY <1>1 DEF StopDispatcher, ResolveImageError, Futures
  <2>2. ASSUME NEW w \in Work, Waits(w)' PROVE Waits(w) /\ w # current
    <3>1. CASE w \in Chats
      <4>1. ready[w] = "pending" /\ w \notin {current}
        BY <2>1, <2>2, <3>1, OrphanParts, Settled DEF Waits
      <4>2. QED
        BY <1>0, <2>2, <3>1, <4>1, OrphanParts DEF Waits
    <3>2. CASE w \in Images
      <4>1. submitted'[w] = "pending" => submitted[w] = "pending" /\ w \notin {current}
        BY <2>1, <3>2, OrphanParts, Settled
      <4>2. completion'[w] = "pending" => completion[w] = "pending" /\ w \notin {current}
        BY <2>1, <3>2, OrphanParts, Settled
      <4>3. QED
        BY <1>0, <2>2, <3>2, <4>1, <4>2, OrphanParts DEF Waits
    <3>3. QED
      BY <3>1, <3>2, OrphanParts
  <2>3. QED
    BY <1>0, <1>1, <2>2, LetGo, OrphanParts
<1>2. CASE DispatcherCancelled
  BY <1>1, <1>2, OrphanParts DEF DispatcherCancelled, StopInv
<1>3. CASE InterruptReturns
  BY <1>1, <1>3, OrphanParts DEF InterruptReturns, StopInv
<1>4. CASE PromptCancelled
  <2>1. UNCHANGED <<ready, submitted, completion, current, cancelled>> /\ pc' = "interrupt"
    BY <1>4 DEF PromptCancelled, GoTo, futureVars
  <2>2. QED
    BY <1>0, <2>1, HandsFrame, OrphanParts DEF Waits
<1>5. QED
  BY <1>2, <1>3, <1>4 DEF Shutdown

\* Initialization, side requests and the world outside make nobody wait.
LEMMA OtherWaits ==
  ASSUME OrphanInv, Initialize \/ SideStep \/ DispatcherWaits \/ Environment \/ UNCHANGED vars
  PROVE  WaitsInv'
<1>1. UNCHANGED <<queue, current, cancelled, chat, ready, image, submitted, completion>>
  BY DEF Initialize, BootFrame, SideStep, SideFrame, DispatcherWaits, Environment, vars,
         dispatcherVars, queueVars, grantVars, futureVars
<1>2. \A w \in Work : Waits(w)' => Waits(w)
  BY <1>1 DEF Waits
<1>3. CASE Initialize
  <2>1. current = None /\ queue = <<>>
    BY <1>3, OrphanParts DEF Initialize, BootInv, TypeOK, DispatcherTypeOK, ChatPCs, ImagePCs,
                             RestoreCalls, ActivateCalls, IdlePCs
  <2>2. QED
    BY <1>1, <1>2, <2>1, LetGo, OrphanParts
<1>4. CASE ~Initialize
  <2>1. pc' = pc
    BY <1>4 DEF SideStep, SideFrame, DispatcherWaits, Environment, vars, dispatcherVars
  <2>2. QED
    BY <1>1, <1>2, <2>1, HandsFrame, OrphanParts
<1>5. QED
  BY <1>3, <1>4

\* Once the coordinator refuses requests its FIFO stays empty.
LEMMA StopKept ==
  ASSUME OrphanInv, TypeOK', [Next]_vars
  PROVE  StopInv'
<1>0. /\ StopInv /\ TypeOK /\ BootInv
      /\ submitted \in [Images -> Futures] /\ None \notin Images
  BY OrphanParts DEF Work
<1>1. ASSUME UNCHANGED <<closing, fatal, pc, current>>, closing \/ fatal => queue' = <<>>,
             pc \in {"prompt", "interrupt"} =>
               (submitted'[current] = "pending" => submitted[current] = "pending")
      PROVE  StopInv'
  BY <1>0, <1>1 DEF StopInv
<1>2. ASSUME UNCHANGED <<closing, fatal, queue>>, pc' \notin {"dead", "prompt", "interrupt"}
      PROVE  StopInv'
  BY <1>0, <1>2 DEF StopInv
<1>3. CASE UNCHANGED vars \/ SideStep \/ DispatcherWaits \/ Environment
  BY <1>0, <1>1, <1>3 DEF vars, SideStep, SideFrame, DispatcherWaits, Environment, dispatcherVars,
                          queueVars, lifeVars, futureVars, StopInv
<1>4. CASE \E c \in Chats : ChatStep(c)
  <2>1. UNCHANGED <<closing, fatal, pc, current, submitted>>
    BY <1>4 DEF ChatStep, ChatFrame, lifeVars, futureVars
  <2>2. closing \/ fatal => queue' = <<>>
    <3>1. ASSUME NEW c, RemoveQueued({c}), queue = <<>> PROVE queue' = <<>>
      BY <3>1 DEF RemoveQueued, QueuedIn, Elements
    <3>2. QED
      BY <1>0, <1>4, <3>1
         DEF ChatStep, ChatEnqueue, ChatEnter, ChatAbandon, ChatExit, ChatFails, Accepting, StopInv
  <2>3. QED
    BY <1>1, <2>1, <2>2
<1>5. CASE ImageStep
  <2>1. UNCHANGED <<closing, fatal, pc, current>>
    BY <1>5 DEF ImageStep, RequestFrame, lifeVars
  <2>2. closing \/ fatal => queue' = <<>>
    <3>1. ASSUME NEW S, CancelImages(S), queue = <<>> PROVE queue' = <<>>
      BY <3>1 DEF CancelImages, RemoveQueued, QueuedIn, Elements
    <3>2. ASSUME NEW s, NEW status, ImageEnqueue(s, status) PROVE ~closing /\ ~fatal
      BY <3>2 DEF ImageEnqueue, Accepting
    <3>3. QED
      BY <1>0, <1>5, <3>1, <3>2
         DEF ImageStep, ImageReply, ImageFinish, ImageAbandon, BatchLeave, StopInv
  <2>3. ASSUME pc \in {"prompt", "interrupt"}, submitted'[current] = "pending"
        PROVE  submitted[current] = "pending"
    <3>1. current \in Images
      BY <1>0, <2>3 DEF TypeOK, DispatcherTypeOK, ImagePCs
    <3>2. ASSUME NEW s, NEW status, ImageEnqueue(s, status) PROVE submitted[current] = "pending"
      <4>1. current \notin Elements(s)
        BY <3>2 DEF ImageEnqueue
      <4>2. submitted'[current] = submitted[current]
        BY <1>0, <3>1, <3>2, <4>1, Assigned DEF ImageEnqueue
      <4>3. QED
        BY <2>3, <4>2
    <3>3. ASSUME NEW S, ForgetImages(S) PROVE submitted[current] = "pending"
      <4>1. submitted'[current] = IF current \in S THEN "none" ELSE submitted[current]
        BY <1>0, <3>1, <3>3, Assigned DEF ForgetImages
      <4>2. QED
        BY <2>3, <4>1
    <3>4. ASSUME submitted' = submitted PROVE submitted[current] = "pending"
      BY <2>3, <3>4
    <3>5. QED
      BY <1>5, <3>2, <3>3, <3>4
         DEF ImageStep, ImageReply, ImageFinish, ImageAbandon, BatchLeave, futureVars
  <2>4. QED
    BY <1>1, <2>1, <2>2, <2>3
<1>6. CASE TakeChat \/ TakeImage
  <2>1. ~closing /\ queue # <<>> /\ UNCHANGED <<closing, fatal>>
    BY <1>6 DEF TakeChat, TakeImage, Awake, At, ServeFrame, PopFrame, lifeVars
  <2>2. pc' \notin {"dead", "prompt", "interrupt"}
    BY <1>6 DEF TakeChat, TakeImage, PrepareChat, BeginRestore, Grant, NextWork
  <2>3. QED
    BY <1>0, <2>1, <2>2 DEF StopInv
<1>7. CASE RestoreStep
  <2>1. UNCHANGED <<closing, fatal, queue>>
    BY <1>7 DEF RestoreStep, RestoreFrame, ServeFrame, lifeVars
  <2>2. pc' \notin {"dead", "prompt", "interrupt"}
    BY <1>7
       DEF RestoreStep, ChatDrained, PrepareChat, BeginRestore, ControlsDrained, CleanupReturns,
           RestoreValidated, RestoreCall, RestoreReleased, RestoreObserved, RestoreAcquired,
           RestoreFails, Restored, Grant, NextWork, GoTo
  <2>3. QED
    BY <1>2, <2>1, <2>2
<1>8. CASE ServeImageStep
  <2>1. UNCHANGED <<closing, fatal, queue>>
    BY <1>8 DEF ServeImageStep, ImageFrame, PopFrame, lifeVars
  <2>2. CASE SubmitAccepted
    <3>1. /\ submitted' = Settle(submitted, {current}, "ok")
          /\ pc' = "prompt" /\ current' = current /\ pc = "submit"
      BY <2>2 DEF SubmitAccepted, GoTo, At
    <3>2. current \in Images /\ "ok" \in Futures \ {"pending"}
      BY <1>0, <3>1 DEF TypeOK, DispatcherTypeOK, ImagePCs, Futures
    <3>3. submitted'[current] # "pending"
      BY <1>0, <3>1, <3>2, Settled
    <3>4. QED
      BY <1>0, <2>1, <3>1, <3>3 DEF StopInv
  <2>3. CASE ~SubmitAccepted
    <3>1. pc' \notin {"dead", "prompt", "interrupt"}
      BY <1>8, <2>3
         DEF ServeImageStep, ImageDrained, ImageValidated, ImageAcquired, ImageObserved,
             ImageReleased, PromptSucceeds, ImageFails, StartImage, BeginRelease, EndImage,
             NextWork, GoTo
    <3>2. QED
      BY <1>2, <2>1, <3>1
  <2>4. QED
    BY <2>2, <2>3
<1>9. CASE Initialize
  BY <1>0, <1>9 DEF Initialize, BootFrame, BootInv, queueVars, StopInv
<1>10. CASE Close
  <2>1. /\ closing' = TRUE /\ queue' = <<>> /\ UNCHANGED <<pc, current>>
        /\ submitted' = Settle(submitted, QueuedIn(Images), "error")
        /\ ~closing
    BY <1>10 DEF Close
  <2>2. pc = "prompt" => submitted'[current] # "pending"
    <3>1. pc = "prompt" => current \in Images /\ submitted[current] # "pending"
      BY <1>0 DEF TypeOK, DispatcherTypeOK, ImagePCs, StopInv
    <3>2. "error" \in Futures \ {"pending"}
      BY DEF Futures
    <3>3. QED
      BY <1>0, <2>1, <3>1, <3>2, Settled
  <2>3. pc # "interrupt"
    BY <1>0, <2>1 DEF StopInv
  <2>4. QED
    BY <2>1, <2>2, <2>3 DEF StopInv
<1>11. CASE Shutdown
  <2>1. UNCHANGED <<closing, fatal, queue>> /\ closing
    BY <1>0, <1>11
       DEF Shutdown, StopFrame, queueVars, lifeVars, DispatcherCancelled, PromptCancelled,
           InterruptReturns, StopInv
  <2>2. \/ pc' = "dead"
        \/ pc' = "interrupt" /\ pc = "prompt" /\ UNCHANGED <<current, submitted>>
    BY <1>11 DEF Shutdown, DispatcherCancelled, PromptCancelled, InterruptReturns, StopDispatcher,
                 GoTo, futureVars
  <2>3. QED
    BY <1>0, <2>1, <2>2 DEF StopInv
<1>12. QED
  BY <1>3, <1>4, <1>5, <1>6, <1>7, <1>8, <1>9, <1>10, <1>11 DEF Next, Dispatcher, Stopped

\* Nobody waits for an answer that will never come: every unset future that is
\* still read belongs to work that a live dispatcher has queued or in its hands,
\* through cancellation, failures and shutdown.
THEOREM NobodyOrphaned == Spec => []NoOrphan
<1>1. Init => WaitsInv /\ StopInv
  BY DEF Init, WaitsInv, StopInv, Waits
<1>2. Init => HandsInv
  BY DEF Init, HandsInv
<1>3. TypeOK /\ HandsInv /\ [Next]_vars => HandsInv'
  BY HandsKept
<1>4. OrphanInv /\ TypeOK' /\ [Next]_vars => WaitsInv' /\ StopInv'
  <2> SUFFICES ASSUME OrphanInv, TypeOK', [Next]_vars PROVE WaitsInv'
    BY StopKept
  <2>1. CASE Dispatcher
    BY <2>1, OtherWaits, TakeChatWaits, RestoreWaits, TakeImageWaits, ServeImageWaits, ShutdownWaits
       DEF Dispatcher
  <2>2. QED
    BY <2>1, OtherWaits, ChatWaits, ImageWaits, CloseWaits DEF Next, Stopped
<1>5. WaitsInv => NoOrphan
  BY WorkAssumption DEF WaitsInv, Waits, NoOrphan, Work
<1>6. QED
  BY <1>1, <1>2, <1>3, <1>4, <1>5, TypeCorrect, InductiveInvariant, PTL DEF Spec, OrphanInv

-----------------------------------------------------------------------------
(* Nothing starts for work that was withdrawn.                             *)

\* Where the dispatcher has an image that ComfyUI does not have yet.
BeforePrompt == {"imageDrain", "submit"} \cup ActivateCalls

\* The image in its hands is wanted until it is cancelled.
HeldInv == pc \in BeforePrompt /\ ~cancelled => ImageWanted(current)

\* Clients and batches that leave say so to the dispatcher.
LEMMA ImageHeld ==
  ASSUME IInv, HeldInv, ImageStep
  PROVE  HeldInv'
<1>0. /\ UNCHANGED <<pc, current>> /\ TypeOK
      /\ DOMAIN image = Images /\ DOMAIN submitted = Images /\ DOMAIN completion = Images
  BY DEF ImageStep, RequestFrame, IInv, TypeOK, ImageTypeOK
<1> SUFFICES ASSUME pc \in BeforePrompt, ~cancelled' PROVE ImageWanted(current)'
  BY <1>0, Zenon DEF HeldInv
<1>1. current \in Images
  BY <1>0 DEF BeforePrompt, TypeOK, DispatcherTypeOK, ImagePCs
<1>2. ASSUME ~cancelled, NEW S, current \notin S,
             \/ UNCHANGED image
             \/ \E v : image' = Assign(image, S, v)
             \/ \E i : i # current /\ image' = [image EXCEPT ![i] = "generating"],
             \/ UNCHANGED futureVars
             \/ \E u : submitted' = Assign(submitted, S, u) /\ completion' = Assign(completion, S, u)
      PROVE  ImageWanted(current)'
  <2>1. ImageWanted(current)
    BY <1>2, Zenon DEF HeldInv
  <2>2. image'[current] = image[current]
    BY <1>0, <1>1, <1>2 DEF Assign
  <2>3. submitted'[current] = submitted[current] /\ completion'[current] = completion[current]
    BY <1>0, <1>1, <1>2 DEF Assign, futureVars
  <2>4. QED
    BY <1>0, <2>1, <2>2, <2>3 DEF ImageWanted
<1>3. ASSUME NEW S, CancelImages(S), NEW T, ForgetImages(T),
             current \in T => current \in S \/ ~ImageWanted(current)
      PROVE  ImageWanted(current)'
  <2>1. cancelled' = (cancelled \/ current \in S)
    BY <1>3, Zenon DEF CancelImages
  <2>2. ~cancelled /\ current \notin S
    BY <2>1, Zenon
  <2>3. current \notin T
    BY <1>3, <2>2, Zenon DEF HeldInv
  <2>4. QED
    BY <1>2, <1>3, <2>2, <2>3 DEF ForgetImages
<1>4. ASSUME UNCHANGED cancelled PROVE ~cancelled /\ ImageWanted(current)
  BY <1>4, Zenon DEF HeldInv
<1>5. ASSUME NEW s, NEW status, ImageEnqueue(s, status) PROVE ImageWanted(current)'
  <2>1. ~cancelled
    BY <1>4, <1>5 DEF ImageEnqueue
  <2>2. current \notin Elements(s)
    BY <1>5 DEF ImageEnqueue
  <2>3. QED
    BY <1>2, <1>5, <2>1, <2>2 DEF ImageEnqueue
<1>6. ASSUME NEW i \in Images, ImageReply(i) PROVE ImageWanted(current)'
  <2>1. UNCHANGED <<cancelled, futureVars>> /\ image' = [image EXCEPT ![i] = "generating"]
        /\ submitted[i] = "ok"
    BY <1>6 DEF ImageReply
  <2>2. ~cancelled /\ i # current
    BY <1>4, <2>1 DEF ImageWanted
  <2>3. current \notin {}
    OBVIOUS
  <2>4. QED
    BY <1>2, <2>1, <2>2, <2>3
<1>7. ASSUME NEW i \in Images, ImageFinish(i) PROVE ImageWanted(current)'
  <2>1. UNCHANGED cancelled /\ image[i] = "generating" /\ ForgetImages({i})
    BY <1>7 DEF ImageFinish
  <2>2. ~cancelled /\ current \notin {i}
    BY <1>4, <2>1 DEF ImageWanted
  <2>3. QED
    BY <1>2, <2>1, <2>2 DEF ForgetImages
<1>8. ASSUME NEW i \in Images, ImageAbandon(i) PROVE ImageWanted(current)'
  BY <1>3, <1>8 DEF ImageAbandon
<1>9. ASSUME NEW b \in Batches, BatchLeave(b) PROVE ImageWanted(current)'
  <2>1. /\ CancelImages({i \in Elements(b) : completion[i] = "pending"})
        /\ ForgetImages(Elements(b))
    BY <1>9 DEF BatchLeave
  <2>2. current \in Elements(b) =>
          \/ current \in {i \in Elements(b) : completion[i] = "pending"}
          \/ ~ImageWanted(current)
    BY DEF ImageWanted
  <2>3. QED
    BY <1>3, <2>1, <2>2
<1>10. QED
  BY <1>5, <1>6, <1>7, <1>8, <1>9 DEF ImageStep

\* The first work in the FIFO is wanted.
LEMMA FrontWanted ==
  ASSUME IInv, queue # <<>>
  PROVE  /\ Head(queue) \in Images => ImageWanted(Head(queue))
         /\ Head(queue) \in Chats => chat[Head(queue)] = "waiting"
<1>1. Head(queue) \in Elements(queue) /\ FifoInv
  BY DEF IInv, TypeOK, QueueTypeOK, RequestInv, Elements
<1>2. QED
  BY <1>1 DEF FifoInv, QueuedIn, WaitsForGrant, ImageWanted

\* What the dispatcher does.
LEMMA ServeHeld ==
  ASSUME IInv, HandsInv, HeldInv, TakeImage \/ ServeImageStep
  PROVE  HeldInv' /\ (pc' = "submit" /\ pc # "submit" => ImageWanted(current'))
<1>0. UNCHANGED image /\ TypeOK
  BY DEF TakeImage, ServeImageStep, ImageFrame, PopFrame, IInv
<1>1. CASE TakeImage
  <2>1. pc = "next" /\ queue # <<>> /\ Head(queue) \in Images /\ current' = Head(queue)
        /\ UNCHANGED <<submitted, completion>>
    BY <1>1 DEF TakeImage, Awake, At, futureVars
  <2>2. ImageWanted(current') /\ ImageWanted(current)'
    BY <1>0, <2>1, FrontWanted DEF ImageWanted
  <2>3. QED
    BY <2>2 DEF HeldInv
<1>2. ASSUME UNCHANGED <<current, cancelled, submitted, completion>>, pc \in BeforePrompt,
             pc' = "submit" => ~cancelled
      PROVE  HeldInv' /\ (pc' = "submit" /\ pc # "submit" => ImageWanted(current'))
  <2>1. ~cancelled => ImageWanted(current) /\ ImageWanted(current') /\ ImageWanted(current)'
    BY <1>0, <1>2, Zenon DEF HeldInv, ImageWanted
  <2>2. QED
    BY <1>2, <2>1, Zenon DEF HeldInv
<1>3. ASSUME pc' \in {"next", "prompt"}
      PROVE  HeldInv' /\ (pc' = "submit" /\ pc # "submit" => ImageWanted(current'))
  BY <1>3 DEF HeldInv, BeforePrompt, ActivateCalls
<1>4. ASSUME StartImage, pc \in BeforePrompt
      PROVE  HeldInv' /\ (pc' = "submit" /\ pc # "submit" => ImageWanted(current'))
  BY <1>2, <1>3, <1>4 DEF StartImage, EndImage, NextWork, GoTo, futureVars
<1>5. ASSUME NEW p \in {"imageValidate", "imageAcquire", "imageObserve"}, GoTo(p) \/ BeginRelease,
             UNCHANGED futureVars, pc \in BeforePrompt
      PROVE  HeldInv' /\ (pc' = "submit" /\ pc # "submit" => ImageWanted(current'))
  <2>1. UNCHANGED <<current, cancelled, submitted, completion>> /\ pc' # "submit"
    BY <1>5 DEF GoTo, BeginRelease, futureVars
  <2>2. QED
    BY <1>2, <1>5, <2>1
<1>6. CASE ImageDrained \/ ImageValidated \/ ImageAcquired \/ ImageObserved \/ ImageReleased
  <2>1. pc \in BeforePrompt
    BY <1>6 DEF ImageDrained, ImageValidated, ImageAcquired, ImageObserved, ImageReleased, Awake, At,
                BeforePrompt, ActivateCalls
  <2>2. \/ StartImage \/ EndImage
        \/ /\ UNCHANGED futureVars
           /\ BeginRelease \/ GoTo("imageValidate") \/ GoTo("imageAcquire") \/ GoTo("imageObserve")
    BY <1>6, Zenon DEF ImageDrained, ImageValidated, ImageAcquired, ImageObserved, ImageReleased
  <2>3. QED
    BY <1>3, <1>4, <1>5, <2>1, <2>2 DEF EndImage, NextWork
<1>7. CASE SubmitAccepted \/ PromptSucceeds \/ ImageFails
  BY <1>3, <1>7 DEF SubmitAccepted, PromptSucceeds, ImageFails, EndImage, NextWork, GoTo
<1>8. QED
  BY <1>1, <1>6, <1>7 DEF ServeImageStep

\* So does every other step.
LEMMA HeldKept ==
  ASSUME IInv, HandsInv, HeldInv, [Next]_vars
  PROVE  HeldInv' /\ (pc' = "submit" /\ pc # "submit" => ImageWanted(current'))
<1>1. ASSUME UNCHANGED <<pc, current, image, submitted, completion>>, cancelled => cancelled'
      PROVE  HeldInv' /\ (pc' = "submit" /\ pc # "submit" => ImageWanted(current'))
  <2>1. ImageWanted(current) => ImageWanted(current)'
    BY <1>1 DEF ImageWanted
  <2>2. QED
    BY <1>1, <2>1, Zenon DEF HeldInv
<1>2. ASSUME pc' \notin BeforePrompt
      PROVE  HeldInv' /\ (pc' = "submit" /\ pc # "submit" => ImageWanted(current'))
  BY <1>2, Zenon DEF HeldInv, BeforePrompt
<1>3. CASE UNCHANGED vars \/ SideStep \/ DispatcherWaits \/ Environment
  BY <1>1, <1>3 DEF vars, dispatcherVars, futureVars, SideStep, SideFrame, DispatcherWaits, Environment
<1>4. ASSUME NEW c \in Chats, ChatStep(c)
      PROVE  HeldInv' /\ (pc' = "submit" /\ pc # "submit" => ImageWanted(current'))
  <2>1. UNCHANGED <<pc, current, image, submitted, completion>>
    BY <1>4 DEF ChatStep, ChatFrame, futureVars
  <2>2. cancelled => cancelled'
    BY <1>4, Zenon DEF ChatStep, ChatEnqueue, ChatEnter, ChatAbandon, ChatExit, ChatFails
  <2>3. QED
    BY <1>1, <2>1, <2>2
<1>5. CASE ImageStep
  <2>1. UNCHANGED pc
    BY <1>5 DEF ImageStep, RequestFrame
  <2>2. QED
    BY <1>5, <2>1, ImageHeld
<1>6. CASE Initialize \/ TakeChat \/ RestoreStep \/ Shutdown
  <2>1. pc' \notin BeforePrompt
    <3>1. pc' \in {"next", "dead", "interrupt"} \cup ChatPCs
      BY <1>6 DEF Initialize, TakeChat, PrepareChat, BeginRestore, Grant, NextWork, Shutdown,
                  DispatcherCancelled, PromptCancelled, InterruptReturns, StopDispatcher, GoTo,
                  RestoreStep, ChatDrained, ControlsDrained, CleanupReturns, RestoreValidated,
                  RestoreReleased, RestoreObserved, RestoreAcquired, RestoreFails, Restored,
                  RestoreCall, ChatPCs, RestoreCalls
    <3>2. QED
      BY <3>1 DEF BeforePrompt, ActivateCalls, ChatPCs, RestoreCalls
  <2>2. QED
    BY <1>2, <2>1
<1>7. CASE Close
  <2>1. /\ UNCHANGED <<pc, current, cancelled, image>>
        /\ submitted' = Settle(submitted, QueuedIn(Images), "error")
        /\ completion' = Settle(completion, QueuedIn(Images), "error")
    BY <1>7 DEF Close
  <2>2. current \notin QueuedIn(Images)
    BY DEF IInv, RequestInv, FifoInv, QueuedIn
  <2>3. pc \in BeforePrompt => current \in Images
    BY DEF BeforePrompt, IInv, TypeOK, DispatcherTypeOK, ImagePCs
  <2>4. current \in Images /\ ImageWanted(current) => ImageWanted(current)'
    BY <2>1, <2>2 DEF Settle, ImageWanted, IInv, TypeOK, ImageTypeOK
  <2>5. QED
    BY <2>1, <2>3, <2>4, Zenon DEF HeldInv
<1>8. CASE TakeImage \/ ServeImageStep
  BY <1>8, ServeHeld
<1>9. QED
  BY <1>3, <1>4, <1>5, <1>6, <1>7, <1>8 DEF Next, Dispatcher, Stopped

\* A lease is granted to the chat in the dispatcher's hands, if it has not
\* left, or to the one it takes off the FIFO.
LEMMA GrantsWanted ==
  ASSUME IInv, [Next]_vars, NEW c \in Chats, granted'[c], ~granted[c]
  PROVE  chat[c] = "waiting"
<1>0. granted \in [Chats -> BOOLEAN]
  BY DEF IInv, TypeOK, GrantTypeOK
<1>1. ASSUME NEW d, NEW before, Grant(d, before) PROVE c = d /\ ~cancelled
  <2>1. CASE cancelled
    BY <1>1, <2>1 DEF Grant, grantVars
  <2>2. CASE ~cancelled
    BY <1>0, <1>1, <2>2 DEF Grant
  <2>3. QED
    BY <2>1, <2>2
<1>2. ASSUME c = current, ~cancelled PROVE chat[c] = "waiting"
  BY <1>2, Zenon DEF IInv, RequestInv, CurrentInv, WaitsForGrant
<1>3. CASE TakeChat
  <2>1. granted' = granted \/ \E before : Grant(Head(queue), before)
    BY <1>3 DEF TakeChat, PrepareChat, BeginRestore, grantVars
  <2>2. c = Head(queue)
    BY <1>1, <2>1
  <2>3. QED
    BY <1>3, <2>2, FrontWanted DEF TakeChat
<1>4. CASE RestoreStep
  <2>1. granted' = granted \/ \E before : Grant(current, before)
    BY <1>4 DEF RestoreStep, ChatDrained, PrepareChat, BeginRestore, ControlsDrained, CleanupReturns,
                RestoreValidated, RestoreReleased, RestoreObserved, RestoreAcquired, RestoreFails,
                Restored, grantVars
  <2>2. c = current /\ ~cancelled
    BY <1>1, <2>1, Zenon
  <2>3. QED
    BY <1>2, <2>2
<1>5. ASSUME NEW d \in Chats, ChatStep(d) PROVE granted'[c] => granted[c]
  BY <1>0, <1>5 DEF ChatStep, ChatEnqueue, ChatEnter, ChatAbandon, ChatExit, ChatFails, LeaveLease, grantVars
<1>6. ASSUME UNCHANGED granted PROVE FALSE
  BY <1>6
<1>7. CASE Initialize \/ ImageStep \/ SideStep \/ DispatcherWaits \/ TakeImage \/ ServeImageStep
           \/ Shutdown \/ Close \/ Environment \/ UNCHANGED vars
  BY <1>6, <1>7
     DEF Initialize, BootFrame, ImageStep, RequestFrame, SideStep, SideFrame, DispatcherWaits,
         TakeImage, ServeImageStep, ImageFrame, PopFrame, Shutdown, StopFrame, Close, Environment,
         vars, grantVars
<1>8. QED
  BY <1>3, <1>4, <1>5, <1>7 DEF Next, Dispatcher, Stopped

\* Only work that is wanted starts, for any clients, batches and backend: no
\* workflow is submitted whose client or batch gave up during the handoff, and
\* no chat is granted a lease that left.
THEOREM StartsWanted == Spec => WorkStartsWanted
<1>1. Init => HandsInv /\ HeldInv
  BY DEF Init, HandsInv, HeldInv, BeforePrompt, ActivateCalls
<1>2. IInv /\ HandsInv /\ HeldInv /\ [Next]_vars => HandsInv' /\ HeldInv'
  BY HandsKept, HeldKept DEF IInv
<1> DEFINE Wanted ==
      /\ pc' = "submit" /\ pc # "submit" => ImageWanted(current')
      /\ \A c \in Chats : granted'[c] /\ ~granted[c] => chat[c] = "waiting"
<1>3. IInv /\ HandsInv /\ HeldInv /\ [Next]_vars => [Wanted]_vars
  BY HeldKept, GrantsWanted
<1>4. QED
  BY <1>1, <1>2, <1>3, InductiveInvariant, PTL DEF Spec, WorkStartsWanted

-----------------------------------------------------------------------------
(* How many bytes some images have.  Bytes folds over the set in an order   *)
(* of its own; it is a cardinality, whatever the order.                    *)

\* The bytes of some images, one by one.
Units(S) == UNION {{i} \X (1 .. Size[i]) : i \in S}

\* What those are.
LEMMA UnitsOf ==
  ASSUME NEW S, NEW u
  PROVE  u \in Units(S) <=> \E i \in S : \E n \in 1 .. Size[i] : u = <<i, n>>
BY DEF Units

\* They can be counted, ...
LEMMA UnitsFinite ==
  ASSUME NEW S, S \subseteq Images
  PROVE  IsFiniteSet(Units(S)) /\ Cardinality(Units(S)) \in Nat
<1> DEFINE T == {{i} \X (1 .. Size[i]) : i \in S}
           f == [i \in S |-> {i} \X (1 .. Size[i])]
<1>1. IsFiniteSet(S)
  BY WorkAssumption, FS_Subset
<1>2. f \in Surjection(S, T)
  BY DEF Surjection
<1>3. IsFiniteSet(T)
  BY <1>1, <1>2, FS_Surjection
<1>4. ASSUME NEW i \in S PROVE IsFiniteSet({i} \X (1 .. Size[i]))
  <2>1. Size[i] \in Nat
    BY SizeAssumption
  <2>2. IsFiniteSet(1 .. Size[i])
    BY <2>1, FS_Interval
  <2>3. QED
    BY <2>2, FS_Singleton, FS_Product
<1>5. IsFiniteSet(UNION T)
  BY <1>3, <1>4, FS_UNION
<1>6. QED
  BY <1>5, FS_CardinalityType DEF Units

\* ... one image has as many as its size says, ...
LEMMA UnitsOfOne ==
  ASSUME NEW i \in Images
  PROVE  Cardinality(Units({i})) = Size[i]
<1>1. Size[i] \in Nat
  BY SizeAssumption
<1>2. /\ IsFiniteSet(1 .. Size[i])
      /\ Cardinality(1 .. Size[i]) = Size[i]
  <2>1. /\ IsFiniteSet(1 .. Size[i])
        /\ Cardinality(1 .. Size[i]) = IF 1 > Size[i] THEN 0 ELSE Size[i] - 1 + 1
    BY <1>1, FS_Interval
  <2>2. QED
    BY <1>1, <2>1
<1> DEFINE f == [n \in 1 .. Size[i] |-> <<i, n>>]
<1>3. f \in Bijection(1 .. Size[i], Units({i}))
  <2>1. \A u : u \in Units({i}) <=> \E n \in 1 .. Size[i] : u = <<i, n>>
    BY UnitsOf
  <2>2. QED
    BY <2>1 DEF Bijection, Injection, Surjection, IsInjective
<1>4. QED
  BY <1>2, <1>3, FS_Bijection DEF ExistsBijection

\* ... and different images have different ones.
LEMMA UnitsJoin ==
  ASSUME NEW A, NEW B, A \subseteq Images, B \subseteq Images, A \cap B = {}
  PROVE  Cardinality(Units(A \cup B)) = Cardinality(Units(A)) + Cardinality(Units(B))
<1>1. Units(A \cup B) = Units(A) \cup Units(B)
  BY DEF Units
<1>2. Units(A) \cap Units(B) = {}
  <2> SUFFICES ASSUME NEW u \in Units(A), u \in Units(B) PROVE FALSE
    OBVIOUS
  <2>1. PICK i \in A : \E n \in 1 .. Size[i] : u = <<i, n>>
    BY UnitsOf
  <2>2. PICK j \in B : \E n \in 1 .. Size[j] : u = <<j, n>>
    BY UnitsOf
  <2>3. i = j
    BY <2>1, <2>2
  <2>4. QED
    BY <2>3
<1>3. /\ IsFiniteSet(Units(A)) /\ Cardinality(Units(A)) \in Nat
      /\ IsFiniteSet(Units(B)) /\ Cardinality(Units(B)) \in Nat
  BY UnitsFinite
<1>4. Cardinality(Units(A \cup B)) = Cardinality(Units(A)) + Cardinality(Units(B)) - Cardinality({})
  <2>1. Cardinality(Units(A) \cup Units(B))
          = Cardinality(Units(A)) + Cardinality(Units(B)) - Cardinality(Units(A) \cap Units(B))
    BY <1>3, FS_Union
  <2>2. QED
    BY <1>1, <1>2, <2>1
<1>5. Cardinality({}) = 0
  BY FS_EmptySet
<1>6. QED
  BY <1>3, <1>4, <1>5

\* The recursive function behind Bytes.
IsTotal(f, S) ==
  f = [s \in SUBSET S |->
         IF s = {} THEN 0
         ELSE LET i == CHOOSE i \in s : TRUE IN Size[i] + f[s \ {i}]]

\* There is one such function on the subsets of a finite set: at a smallest
\* subset where two of them differed, they would agree.
LEMMA TotalUnique ==
  ASSUME NEW S, IsFiniteSet(S), NEW f, NEW g, IsTotal(f, S), IsTotal(g, S)
  PROVE  f = g
<1> DEFINE T == {s \in SUBSET S : f[s] # g[s]}
<1>0. ASSUME NEW s \in SUBSET S, s # {}
      PROVE  \E i \in s : f[s] = Size[i] + f[s \ {i}] /\ g[s] = Size[i] + g[s \ {i}]
  <2> DEFINE i == CHOOSE i \in s : TRUE
  <2>1. i \in s
    BY <1>0
  <2>2. f[s] = Size[i] + f[s \ {i}]
    BY <1>0, Zenon DEF IsTotal
  <2>3. g[s] = Size[i] + g[s \ {i}]
    BY <1>0, Zenon DEF IsTotal
  <2> HIDE DEF i
  <2>4. QED
    BY <2>1, <2>2, <2>3
<1>1. f[{}] = 0 /\ g[{}] = 0
  BY Zenon DEF IsTotal
<1>2. T = {}
  <2> SUFFICES ASSUME T # {} PROVE FALSE
    OBVIOUS
  <2>1. IsWellFoundedOn(StrictSubsetOrdering(S), SUBSET S)
    BY FS_StrictSubsetOrderingWellFounded, FS_FiniteSubsetsOfFinite
  <2>2. PICK s \in T : \A t \in T : ~(<<t, s>> \in StrictSubsetOrdering(S))
    BY <2>1, WFMin
  <2>3. s \in SUBSET S /\ f[s] # g[s]
    BY <2>2
  <2>4. s # {}
    BY <2>3, <1>1
  <2>5. PICK i \in s : f[s] = Size[i] + f[s \ {i}] /\ g[s] = Size[i] + g[s \ {i}]
    BY <1>0, <2>3, <2>4
  <2>6. s \ {i} \in T
    BY <2>3, <2>5
  <2>7. <<s \ {i}, s>> \in StrictSubsetOrdering(S)
    BY <2>3 DEF StrictSubsetOrdering
  <2>8. QED
    BY <2>2, <2>6, <2>7
<1>3. f = [s \in SUBSET S |-> f[s]] /\ g = [s \in SUBSET S |-> g[s]]
  BY Zenon DEF IsTotal
<1>4. \A s \in SUBSET S : f[s] = g[s]
  BY <1>2
<1>5. QED
  BY <1>3, <1>4, Zenon

\* Counting the bytes is such a function.
LEMMA TotalExists ==
  ASSUME NEW S, S \subseteq Images
  PROVE  IsTotal([s \in SUBSET S |-> Cardinality(Units(s))], S)
<1> DEFINE f == [s \in SUBSET S |-> Cardinality(Units(s))]
<1>1. ASSUME NEW s \in SUBSET S, NEW i \in s
      PROVE  Cardinality(Units(s)) = Size[i] + f[s \ {i}]
  <2>1. s = {i} \cup (s \ {i})
    OBVIOUS
  <2>2. Cardinality(Units(s)) = Cardinality(Units({i})) + Cardinality(Units(s \ {i}))
    BY <2>1, UnitsJoin
  <2>3. f[s \ {i}] = Cardinality(Units(s \ {i}))
    OBVIOUS
  <2>4. QED
    BY <2>2, <2>3, UnitsOfOne
<1>2. Units({}) = {}
  BY DEF Units
<1>3. ASSUME NEW s \in SUBSET S
      PROVE  f[s] = IF s = {} THEN 0
                    ELSE LET i == CHOOSE i \in s : TRUE IN Size[i] + f[s \ {i}]
  <2>1. CASE s = {}
    BY <1>2, <2>1, FS_EmptySet
  <2>2. CASE s # {}
    <3> DEFINE i == CHOOSE i \in s : TRUE
    <3>1. i \in s
      BY <2>2
    <3>2. f[s] = Size[i] + f[s \ {i}]
      BY <1>1, <3>1
    <3>3. QED
      BY <2>2, <3>2
  <2>3. QED
    BY <2>1, <2>2
<1> HIDE DEF f
<1>4. f = [s \in SUBSET S |-> f[s]]
  BY DEF f
<1>5. QED
  BY <1>3, <1>4, Zenon DEF IsTotal, f

\* What the fold computes, whatever order it takes the images in.
LEMMA BytesAreUnits ==
  ASSUME NEW S, S \subseteq Images
  PROVE  Bytes(S) = Cardinality(Units(S))
<1> DEFINE total == CHOOSE f : IsTotal(f, S)
           units == [s \in SUBSET S |-> Cardinality(Units(s))]
<1>1. Bytes(S) = total[S]
  BY DEF Bytes, MapThenSumSet, MapThenFoldSet, IsTotal
<1>2. IsTotal(units, S)
  BY TotalExists
<1>3. IsTotal(total, S)
  BY <1>2
<1>4. IsFiniteSet(S)
  BY WorkAssumption, FS_Subset
<1>5. total = units
  <2> HIDE DEF total, units
  <2>1. QED
    BY <1>2, <1>3, <1>4, TotalUnique
<1>6. units[S] = Cardinality(Units(S))
  OBVIOUS
<1> HIDE DEF total, units
<1>7. QED
  BY <1>1, <1>5, <1>6

\* So the sizes of images add up to a number, ...
LEMMA BytesType ==
  ASSUME NEW S, S \subseteq Images
  PROVE  Bytes(S) \in Nat
BY BytesAreUnits, UnitsFinite

\* ... nothing has none, ...
LEMMA BytesOfNone == Bytes({}) = 0
BY BytesAreUnits, FS_EmptySet DEF Units

\* ... one image has its own, ...
LEMMA BytesOfOne ==
  ASSUME NEW i \in Images
  PROVE  Bytes({i}) = Size[i]
BY BytesAreUnits, UnitsOfOne

\* ... and images that come or go take theirs along.
LEMMA BytesJoin ==
  ASSUME NEW A, NEW B, A \subseteq Images, B \subseteq Images, A \cap B = {}
  PROVE  Bytes(A \cup B) = Bytes(A) + Bytes(B)
<1>1. A \cup B \subseteq Images
  OBVIOUS
<1>2. QED
  BY <1>1, BytesAreUnits, UnitsJoin

LEMMA BytesLess ==
  ASSUME NEW A, NEW S, A \subseteq Images
  PROVE  Bytes(A \ S) = Bytes(A) - Bytes(A \cap S)
<1>1. A = (A \ S) \cup (A \cap S)
  OBVIOUS
<1>2. Bytes(A) = Bytes(A \ S) + Bytes(A \cap S)
  BY <1>1, BytesJoin
<1>3. Bytes(A \ S) \in Nat /\ Bytes(A \cap S) \in Nat
  BY BytesType
<1>4. QED
  BY <1>2, <1>3

-----------------------------------------------------------------------------
(* The counters.                                                           *)

\* The counters, and the limits that _check_image_capacity keeps.
Counted ==
  /\ waitingChats = Cardinality(QueuedIn(Chats))
  /\ waitingImages = Cardinality(QueuedIn(Images))
  /\ queuedBytes = Bytes(QueuedIn(Images))
  /\ waitingImages <= MaxQueuedImages /\ queuedBytes <= MaxQueuedBytes

\* What is queued can be counted.
LEMMA QueuedFinite ==
  ASSUME NEW S
  PROVE  /\ IsFiniteSet(QueuedIn(S \cap Chats)) /\ Cardinality(QueuedIn(S \cap Chats)) \in Nat
         /\ IsFiniteSet(QueuedIn(S \cap Images)) /\ Cardinality(QueuedIn(S \cap Images)) \in Nat
         /\ QueuedIn(S \cap Images) \subseteq Images
<1>1. QueuedIn(S \cap Chats) \subseteq Chats /\ QueuedIn(S \cap Images) \subseteq Images
  BY DEF QueuedIn
<1>2. QED
  BY <1>1, WorkAssumption, FS_Subset, FS_CardinalityType

\* Whatever leaves the FIFO is taken off the counters.
LEMMA CountedLess ==
  ASSUME Counted, NEW S, Elements(queue') = Elements(queue) \ S,
         waitingChats' = waitingChats - Cardinality(QueuedIn(S \cap Chats)),
         waitingImages' = waitingImages - Cardinality(QueuedIn(S \cap Images)),
         queuedBytes' = queuedBytes - Bytes(QueuedIn(S \cap Images))
  PROVE  Counted'
<1> DEFINE A == QueuedIn(Chats)
           B == QueuedIn(Images)
<1>1. /\ QueuedIn(Chats)' = A \ S /\ A \cap S = QueuedIn(S \cap Chats)
      /\ QueuedIn(Images)' = B \ S /\ B \cap S = QueuedIn(S \cap Images)
  BY DEF QueuedIn
<1>2. /\ IsFiniteSet(A) /\ Cardinality(A) \in Nat
      /\ IsFiniteSet(B) /\ Cardinality(B) \in Nat /\ B \subseteq Images
  BY WorkAssumption, FS_Subset, FS_CardinalityType DEF QueuedIn
<1>3. /\ Cardinality(A \ S) = Cardinality(A) - Cardinality(A \cap S)
      /\ Cardinality(B \ S) = Cardinality(B) - Cardinality(B \cap S)
  BY <1>2, FS_Difference
<1>4. /\ Bytes(B \ S) = Bytes(B) - Bytes(B \cap S)
      /\ Bytes(B \cap S) \in Nat /\ Bytes(B) \in Nat
  BY <1>2, BytesLess, BytesType
<1>5. Cardinality(B \cap S) \in Nat
  BY <1>1, QueuedFinite
<1>6. /\ waitingChats = Cardinality(A) /\ waitingImages = Cardinality(B) /\ queuedBytes = Bytes(B)
      /\ waitingImages <= MaxQueuedImages /\ queuedBytes <= MaxQueuedBytes
  BY DEF Counted
<1>7. MaxQueuedImages \in Nat /\ MaxQueuedBytes \in Nat
  BY SizeAssumption
<1>a. Cardinality(A \cap S) \in Nat
  BY <1>1, QueuedFinite
<1>b. /\ waitingChats' = Cardinality(A) - Cardinality(A \cap S)
      /\ waitingImages' = Cardinality(B) - Cardinality(B \cap S)
      /\ queuedBytes' = Bytes(B) - Bytes(B \cap S)
  BY <1>1, <1>6
<1> HIDE DEF A, B
<1>8. /\ waitingChats' = Cardinality(A \ S)
      /\ waitingImages' = Cardinality(B \ S)
      /\ queuedBytes' = Bytes(B \ S)
      /\ waitingImages' <= MaxQueuedImages /\ queuedBytes' <= MaxQueuedBytes
  BY <1>a, <1>b, <1>2, <1>3, <1>4, <1>5, <1>6, <1>7
<1>9. Bytes(QueuedIn(Images))' = Bytes(B \ S)
  BY <1>1
<1>10. Cardinality(QueuedIn(Chats))' = Cardinality(A \ S) /\ Cardinality(QueuedIn(Images))' = Cardinality(B \ S)
  BY <1>1
<1>11. QED
  BY <1>8, <1>9, <1>10 DEF Counted

\* A chat that joins the FIFO is counted.
LEMMA CountedChat ==
  ASSUME Counted, NEW c \in Chats, c \notin Elements(queue),
         Elements(queue') = Elements(queue) \cup {c},
         waitingChats' = waitingChats + 1, UNCHANGED <<waitingImages, queuedBytes>>
  PROVE  Counted'
<1>1. QueuedIn(Chats)' = QueuedIn(Chats) \cup {c} /\ c \notin QueuedIn(Chats)
  BY DEF QueuedIn
<1>2. QueuedIn(Images)' = QueuedIn(Images)
  BY WorkAssumption DEF QueuedIn
<1>3. IsFiniteSet(QueuedIn(Chats))
  BY WorkAssumption, FS_Subset DEF QueuedIn
<1>4. Cardinality(QueuedIn(Chats) \cup {c}) = Cardinality(QueuedIn(Chats)) + 1
  BY <1>1, <1>3, FS_AddElement
<1>5. /\ Bytes(QueuedIn(Images))' = Bytes(QueuedIn(Images))
      /\ Cardinality(QueuedIn(Images))' = Cardinality(QueuedIn(Images))
      /\ Cardinality(QueuedIn(Chats))' = Cardinality(QueuedIn(Chats)) + 1
  BY <1>1, <1>2, <1>4
<1>6. QED
  BY <1>5 DEF Counted

\* Images that join it are counted, and fit.
LEMMA CountedImages ==
  ASSUME Counted, NEW S \in SUBSET Images, S \cap Elements(queue) = {},
         Elements(queue') = Elements(queue) \cup S, CapacityOk(S),
         waitingImages' = waitingImages + Cardinality(S),
         queuedBytes' = queuedBytes + Bytes(S), UNCHANGED waitingChats
  PROVE  Counted'
<1> DEFINE B == QueuedIn(Images)
<1>1. QueuedIn(Chats)' = QueuedIn(Chats)
  BY WorkAssumption DEF QueuedIn
<1>2. QueuedIn(Images)' = B \cup S /\ B \cap S = {} /\ B \subseteq Images
  BY DEF QueuedIn
<1>3. /\ IsFiniteSet(B) /\ Cardinality(B) \in Nat
      /\ IsFiniteSet(S) /\ Cardinality(S) \in Nat
  BY <1>2, WorkAssumption, FS_Subset, FS_CardinalityType
<1>4. Cardinality(B \cup S) = Cardinality(B) + Cardinality(S)
  <2>1. Cardinality(B \cup S) = Cardinality(B) + Cardinality(S) - Cardinality({})
    BY <1>2, <1>3, FS_Union
  <2>2. Cardinality({}) = 0
    BY FS_EmptySet
  <2>3. QED
    BY <1>3, <2>1, <2>2
<1>5. Bytes(B \cup S) = Bytes(B) + Bytes(S)
  BY <1>2, BytesJoin
<1>6. /\ Bytes(QueuedIn(Images))' = Bytes(B \cup S)
      /\ Cardinality(QueuedIn(Images))' = Cardinality(B \cup S)
      /\ Cardinality(QueuedIn(Chats))' = Cardinality(QueuedIn(Chats))
  BY <1>1, <1>2
<1>7. /\ waitingImages + Cardinality(S) <= MaxQueuedImages
      /\ queuedBytes + Bytes(S) <= MaxQueuedBytes
  BY DEF CapacityOk
<1>8. QED
  BY <1>4, <1>5, <1>6, <1>7 DEF Counted

-----------------------------------------------------------------------------
(* The batches.                                                            *)

\* The members of B occupy consecutive places of q.
Together(q, B) ==
  \A j, k \in DOMAIN q : {q[j], q[k]} \subseteq B => \A n \in j .. k : q[n] \in B

\* b was submitted as a batch, and image_batch has not left it.
Batched(b) == \E i \in Elements(b) : image[i] = "batch"

\* A batch that has been submitted as one is wholly there or wholly gone, and
\* what of it still queues stands in consecutive places.
BatchInv ==
  \A b \in Batches :
    Batched(b) => /\ \A i \in Elements(b) : image[i] = "batch"
                  /\ Together(queue, Elements(b))

\* Taking the head off leaves them together, ...
LEMMA TailTogether ==
  ASSUME NEW S, NEW q \in Seq(S), q # <<>>, NEW B, Together(q, B)
  PROVE  Together(Tail(q), B)
<1>1. /\ DOMAIN q = 1 .. Len(q) /\ Len(q) \in Nat \ {0}
      /\ DOMAIN Tail(q) = 1 .. Len(q) - 1
      /\ \A k \in 1 .. Len(q) - 1 : Tail(q)[k] = q[k + 1]
  OBVIOUS
<1> SUFFICES ASSUME NEW j \in DOMAIN Tail(q), NEW k \in DOMAIN Tail(q),
                    {Tail(q)[j], Tail(q)[k]} \subseteq B, NEW n \in j .. k
             PROVE  Tail(q)[n] \in B
  BY DEF Together
<1>2. /\ j + 1 \in DOMAIN q /\ k + 1 \in DOMAIN q /\ n + 1 \in j + 1 .. k + 1
      /\ Tail(q)[j] = q[j + 1] /\ Tail(q)[k] = q[k + 1] /\ Tail(q)[n] = q[n + 1]
  BY <1>1
<1>3. q[n + 1] \in B
  BY <1>2, Zenon DEF Together
<1>4. QED
  BY <1>2, <1>3

\* ... and so does cutting a stretch out, ...
LEMMA CutTogether ==
  ASSUME NEW S, NEW q \in Seq(S), NEW lo \in DOMAIN q, NEW hi \in DOMAIN q, lo <= hi,
         NEW B, Together(q, B)
  PROVE  Together(Cut(q, lo, hi), B)
<1> DEFINE r == Cut(q, lo, hi)
           len == hi - lo + 1
           f(k) == IF k < lo THEN k ELSE k + len
<1>1. /\ DOMAIN q = 1 .. Len(q) /\ Len(q) \in Nat
      /\ lo \in 1 .. Len(q) /\ hi \in lo .. Len(q)
  OBVIOUS
<1>2. /\ DOMAIN r = 1 .. Len(q) - len
      /\ \A k \in 1 .. Len(q) - len : r[k] = q[f(k)]
  <2>1. /\ DOMAIN r = 1 .. lo - 1 + (Len(q) - hi)
        /\ \A k \in 1 .. lo - 1 : r[k] = q[k]
        /\ \A k \in lo .. lo - 1 + (Len(q) - hi) : r[k] = q[k + len]
    BY <1>1, CutPlaces
  <2> HIDE DEF r
  <2>2. lo - 1 + (Len(q) - hi) = Len(q) - len
    BY <1>1
  <2>3. ASSUME NEW k \in 1 .. Len(q) - len PROVE r[k] = q[f(k)]
    <3>1. CASE k < lo
      BY <1>1, <2>1, <3>1
    <3>2. CASE ~(k < lo)
      <4>1. k \in lo .. lo - 1 + (Len(q) - hi)
        BY <1>1, <2>2, <3>2
      <4>2. QED
        BY <2>1, <3>2, <4>1
    <3>3. QED
      BY <3>1, <3>2
  <2>4. QED
    BY <2>1, <2>2, <2>3
<1> SUFFICES ASSUME NEW j \in DOMAIN r, NEW k \in DOMAIN r,
                    {r[j], r[k]} \subseteq B, NEW n \in j .. k
             PROVE  r[n] \in B
  BY DEF Together
<1>3. f(j) \in DOMAIN q /\ f(k) \in DOMAIN q /\ f(n) \in f(j) .. f(k) /\ n \in DOMAIN r
  BY <1>1, <1>2
<1> HIDE DEF f, r, len
<1>4. r[j] = q[f(j)] /\ r[k] = q[f(k)] /\ r[n] = q[f(n)]
  BY <1>2, <1>3
<1>5. q[f(n)] \in B
  BY <1>3, <1>4, Zenon DEF Together
<1>6. QED
  BY <1>4, <1>5

\* ... and the removal of cancelled works.
LEMMA RemovedTogether ==
  ASSUME queue \in Seq(Work), NEW S, RemoveQueued(S), NEW B, Together(queue, B)
  PROVE  Together(queue', B)
<1>1. CASE QueuedIn(S) = {}
  BY <1>1 DEF RemoveQueued
<1>2. CASE QueuedIn(S) # {}
  <2>1. PICK lo, hi \in DOMAIN queue : lo <= hi /\ queue' = Cut(queue, lo, hi)
    BY <1>2 DEF RemoveQueued
  <2>2. QED
    BY <2>1, CutTogether
<1>3. QED
  BY <1>1, <1>2

\* Requests that come and go alone leave the batches as they are.
LEMMA BatchKept ==
  ASSUME BatchInv,
         \A b \in Batches : Together(queue, Elements(b)) => Together(queue', Elements(b)),
         \A b \in Batches : \/ \A i \in Elements(b) : image'[i] # "batch"
                            \/ \A i \in Elements(b) : image'[i] = "batch" <=> image[i] = "batch"
  PROVE  BatchInv'
<1> SUFFICES ASSUME NEW b \in Batches, Batched(b)'
             PROVE  /\ \A i \in Elements(b) : image'[i] = "batch"
                    /\ Together(queue', Elements(b))
  BY DEF BatchInv, Elements, Together
<1>1. PICK i \in Elements(b) : image'[i] = "batch"
  BY DEF Batched, Elements
<1>2. \A j \in Elements(b) : image'[j] = "batch" <=> image[j] = "batch"
  BY <1>1
<1>3. Batched(b)
  BY <1>1, <1>2 DEF Batched
<1>4. QED
  BY <1>2, <1>3 DEF BatchInv

\* New images join behind the others, a batch all at once.
LEMMA BatchJoined ==
  ASSUME BatchInv, queue \in Seq(Work), ImageTypeOK, RequestInv,
         NEW s \in Seq(Images), NEW v \in {"waiting", "batch"},
         v = "batch" => s \in Batches, v = "waiting" => \E i \in Images : Elements(s) = {i},
         ImageEnqueue(s, v)
  PROVE  BatchInv'
<1> SUFFICES ASSUME NEW b \in Batches, Batched(b)'
             PROVE  /\ \A i \in Elements(b) : image'[i] = "batch"
                    /\ Together(queue', Elements(b))
  BY DEF BatchInv, Elements, Together
<1>1. /\ \A i \in Elements(s) : image[i] = "out"
      /\ queue' = queue \o s
      /\ image' = Assign(image, Elements(s), v)
  BY DEF ImageEnqueue
<1>2. Elements(s) \subseteq Images /\ s \in Seq(Work)
  BY DEF Elements, Work
<1>3. Elements(queue) \cap Elements(s) = {}
  BY <1>1, <1>2 DEF RequestInv, FifoInv, QueuedIn
<1>4. Elements(b) \subseteq Images
  BY BatchAssumption DEF Elements
<1>5. \A i \in Elements(b) : image'[i] = IF i \in Elements(s) THEN v ELSE image[i]
  BY <1>1, <1>4 DEF Assign, ImageTypeOK
<1>6. PICK i \in Elements(b) : image'[i] = "batch"
  BY DEF Batched, Elements
<1>7. /\ DOMAIN queue = 1 .. Len(queue) /\ Len(queue) \in Nat
      /\ DOMAIN s = 1 .. Len(s) /\ Len(s) \in Nat
      /\ DOMAIN (queue \o s) = 1 .. Len(queue) + Len(s)
      /\ \A k \in 1 .. Len(queue) + Len(s) :
           (queue \o s)[k] = IF k <= Len(queue) THEN queue[k] ELSE s[k - Len(queue)]
  BY <1>2, ConcatPlaces
<1>8. CASE v = "batch" /\ s = b
  <2>1. \A k \in Elements(b) : image'[k] = "batch"
    BY <1>5, <1>8
  <2>2. ASSUME NEW j \in DOMAIN (queue \o s), (queue \o s)[j] \in Elements(b) PROVE j > Len(queue)
    <3>1. CASE j <= Len(queue)
      <4>1. j \in DOMAIN queue /\ (queue \o s)[j] = queue[j]
        BY <1>7, <3>1
      <4>2. queue[j] \in Elements(queue)
        BY <4>1 DEF Elements
      <4>3. QED
        BY <1>3, <1>8, <2>2, <4>1, <4>2
    <3>2. QED
      BY <1>7, <3>1
  <2>3. ASSUME NEW j \in DOMAIN (queue \o s), j > Len(queue) PROVE (queue \o s)[j] \in Elements(b)
    <3>1. j - Len(queue) \in DOMAIN s /\ (queue \o s)[j] = s[j - Len(queue)]
      BY <1>7, <2>3
    <3>2. QED
      BY <1>8, <3>1 DEF Elements
  <2>4. ASSUME NEW j \in DOMAIN (queue \o s), NEW k \in DOMAIN (queue \o s),
               {(queue \o s)[j], (queue \o s)[k]} \subseteq Elements(b), NEW n \in j .. k
        PROVE  (queue \o s)[n] \in Elements(b)
    <3>1. j > Len(queue)
      BY <2>2, <2>4
    <3>2. n > Len(queue) /\ n \in DOMAIN (queue \o s)
      BY <1>7, <3>1
    <3>3. QED
      BY <2>3, <3>2
  <2>5. QED
    BY <1>1, <2>1, <2>4 DEF Together
<1>9. CASE ~(v = "batch" /\ s = b)
  <2>1. Elements(b) \cap Elements(s) = {} /\ Batched(b)
    <3>1. CASE v = "batch"
      <4>1. s \in Batches /\ s # b
        BY <1>9, <3>1
      <4>2. Elements(b) \cap Elements(s) = {}
        BY <4>1, BatchAssumption DEF Elements
      <4>3. QED
        BY <1>5, <1>6, <4>2 DEF Batched
    <3>2. CASE v = "waiting"
      <4>1. PICK k \in Images : Elements(s) = {k}
        BY <3>2
      <4>2. i \notin Elements(s) /\ image[i] = "batch"
        BY <1>5, <1>6, <3>2
      <4>3. Batched(b)
        BY <4>2 DEF Batched
      <4>4. k \notin Elements(b)
        BY <1>1, <4>1, <4>3 DEF BatchInv
      <4>5. QED
        BY <4>1, <4>3, <4>4
    <3>3. QED
      BY <3>1, <3>2
  <2>2. /\ \A k \in Elements(b) : image[k] = "batch"
        /\ Together(queue, Elements(b))
    BY <2>1 DEF BatchInv
  <2>3. \A k \in Elements(b) : image'[k] = "batch"
    BY <1>5, <2>1, <2>2
  <2>4. ASSUME NEW j \in DOMAIN (queue \o s), (queue \o s)[j] \in Elements(b)
        PROVE  j \in DOMAIN queue /\ (queue \o s)[j] = queue[j]
    <3>1. CASE j > Len(queue)
      <4>1. j - Len(queue) \in DOMAIN s /\ (queue \o s)[j] = s[j - Len(queue)]
        BY <1>7, <3>1
      <4>2. QED
        BY <2>1, <2>4, <4>1 DEF Elements
    <3>2. QED
      BY <1>7, <3>1
  <2>5. ASSUME NEW j \in DOMAIN (queue \o s), NEW k \in DOMAIN (queue \o s),
               {(queue \o s)[j], (queue \o s)[k]} \subseteq Elements(b), NEW n \in j .. k
        PROVE  (queue \o s)[n] \in Elements(b)
    <3>1. /\ j \in DOMAIN queue /\ (queue \o s)[j] = queue[j]
          /\ k \in DOMAIN queue /\ (queue \o s)[k] = queue[k]
      BY <2>4, <2>5
    <3>2. queue[n] \in Elements(b)
      BY <2>2, <2>5, <3>1, Zenon DEF Together
    <3>3. n \in DOMAIN queue /\ (queue \o s)[n] = queue[n]
      BY <1>7, <3>1
    <3>4. QED
      BY <3>2, <3>3
  <2>6. QED
    BY <1>1, <2>3, <2>5 DEF Together
<1>10. QED
  BY <1>8, <1>9

-----------------------------------------------------------------------------
(* The steps.                                                              *)

\* A step elsewhere.
LEMMA CountedSame ==
  ASSUME Counted, UNCHANGED queueVars
  PROVE  Counted'
BY DEF Counted, queueVars, QueuedIn, Elements

LEMMA BatchSame ==
  ASSUME BatchInv, UNCHANGED <<queue, image>>
  PROVE  BatchInv'
BY DEF BatchInv, Batched, Together, Elements

\* A single work that may leave the FIFO.
LEMMA QueuedOne ==
  /\ \A c \in Chats : {c} \cap Chats = {c} /\ {c} \cap Images = {}
  /\ \A i \in Images : {i} \cap Images = {i} /\ {i} \cap Chats = {}
  /\ QueuedIn({}) = {} /\ Cardinality(QueuedIn({})) = 0 /\ Bytes(QueuedIn({})) = 0
<1>1. QueuedIn({}) = {}
  BY DEF QueuedIn
<1>2. Cardinality({}) = 0
  BY FS_EmptySet
<1>3. QED
  BY <1>1, <1>2, BytesOfNone, WorkAssumption

\* The counters and the batches through a step of a chat request ...
LEMMA ChatCounted ==
  ASSUME IInv, Counted, BatchInv, NEW c \in Chats, ChatStep(c)
  PROVE  Counted' /\ BatchInv'
<1>0. /\ UNCHANGED <<waitingImages, queuedBytes, image>>
      /\ queue \in Seq(Work) /\ Distinct(queue) /\ QueueTypeOK
  BY DEF ChatStep, ChatFrame, IInv, TypeOK, QueueTypeOK, RequestInv, FifoInv
<1>1. ASSUME NEW t \in Targets, ChatEnqueue(c, t) PROVE Counted' /\ BatchInv'
  <2>1. queue' = Append(queue, c) /\ waitingChats' = waitingChats + 1 /\ chat[c] = "out"
    BY <1>1 DEF ChatEnqueue
  <2>2. c \notin Elements(queue)
    BY <2>1 DEF IInv, RequestInv, FifoInv, QueuedIn, WaitsForGrant
  <2>3. /\ DOMAIN queue = 1 .. Len(queue) /\ Len(queue) \in Nat
        /\ DOMAIN queue' = 1 .. Len(queue) + 1
        /\ \A k \in 1 .. Len(queue) : queue'[k] = queue[k]
        /\ queue'[Len(queue) + 1] = c
    <3>1. c \in Work
      BY DEF Work
    <3>2. QED
      BY <1>0, <2>1, <3>1
  <2>4. Elements(queue') = Elements(queue) \cup {c}
    <3>1. ASSUME NEW w \in Elements(queue') PROVE w \in Elements(queue) \cup {c}
      <4>1. PICK k \in DOMAIN queue' : w = queue'[k]
        BY DEF Elements
      <4>2. CASE k = Len(queue) + 1
        BY <2>3, <4>1, <4>2
      <4>3. CASE k # Len(queue) + 1
        <5>1. k \in DOMAIN queue /\ w = queue[k]
          BY <2>3, <4>1, <4>3
        <5>2. QED
          BY <5>1 DEF Elements
      <4>4. QED
        BY <4>2, <4>3
    <3>2. ASSUME NEW w \in Elements(queue) \cup {c} PROVE w \in Elements(queue')
      <4>1. CASE w = c
        <5>1. Len(queue) + 1 \in DOMAIN queue' /\ queue'[Len(queue) + 1] = w
          BY <2>3, <4>1
        <5>2. QED
          BY <5>1 DEF Elements
      <4>2. CASE w # c
        <5>1. PICK k \in DOMAIN queue : w = queue[k]
          BY <4>2 DEF Elements
        <5>2. k \in DOMAIN queue' /\ queue'[k] = w
          BY <2>3, <5>1
        <5>3. QED
          BY <5>2 DEF Elements
      <4>3. QED
        BY <4>1, <4>2
    <3>3. QED
      BY <3>1, <3>2
  <2>5. Counted'
    BY <1>0, <2>1, <2>2, <2>4, CountedChat
  <2>6. ASSUME NEW b \in Batches, Together(queue, Elements(b)) PROVE Together(queue', Elements(b))
    <3> SUFFICES ASSUME NEW j \in DOMAIN queue', NEW k \in DOMAIN queue',
                        {queue'[j], queue'[k]} \subseteq Elements(b), NEW n \in j .. k
                 PROVE  queue'[n] \in Elements(b)
      BY DEF Together
    <3>1. c \notin Elements(b)
      BY BatchAssumption, WorkAssumption DEF Elements
    <3>2. j # Len(queue) + 1 /\ k # Len(queue) + 1
      BY <2>3, <3>1
    <3>3. /\ j \in DOMAIN queue /\ k \in DOMAIN queue /\ n \in DOMAIN queue
          /\ queue'[j] = queue[j] /\ queue'[k] = queue[k] /\ queue'[n] = queue[n]
      BY <2>3, <3>2
    <3>4. QED
      BY <2>6, <3>3, Zenon DEF Together
  <2>7. QED
    BY <1>0, <2>5, <2>6, BatchKept
<1>2. CASE ChatAbandon(c)
  <2>1. RemoveQueued({c}) /\ waitingChats' = waitingChats - Cardinality(QueuedIn({c}))
    BY <1>2 DEF ChatAbandon
  <2>2. Elements(queue') = Elements(queue) \ {c}
    BY <1>0, <2>1, RemoveQueuedElements
  <2>3. Counted'
    <3>1. /\ waitingImages' = waitingImages - Cardinality(QueuedIn({c} \cap Images))
          /\ queuedBytes' = queuedBytes - Bytes(QueuedIn({c} \cap Images))
      <4>1. waitingImages \in Int /\ queuedBytes \in Int
        BY <1>0, BytesType DEF Counted, QueueTypeOK, QueuedIn
      <4>2. Cardinality(QueuedIn({c} \cap Images)) = 0 /\ Bytes(QueuedIn({c} \cap Images)) = 0
        BY QueuedOne
      <4>3. QED
        BY <1>0, <4>1, <4>2
    <3>2. waitingChats' = waitingChats - Cardinality(QueuedIn({c} \cap Chats))
      BY <2>1, QueuedOne
    <3>3. QED
      BY <2>2, <3>1, <3>2, CountedLess
  <2>4. BatchInv'
    BY <1>0, <2>1, RemovedTogether, BatchKept
  <2>5. QED
    BY <2>3, <2>4
<1>3. CASE ChatEnter(c) \/ ChatExit(c) \/ ChatFails(c)
  <2>1. UNCHANGED queueVars /\ UNCHANGED <<queue, image>>
    BY <1>0, <1>3 DEF ChatEnter, ChatExit, ChatFails, queueVars
  <2>2. QED
    BY <2>1, CountedSame, BatchSame
<1>4. QED
  BY <1>1, <1>2, <1>3 DEF ChatStep

\* ... of image requests that are given up, ...
LEMMA CancelCounted ==
  ASSUME IInv, Counted, NEW S \in SUBSET Images, CancelImages(S), UNCHANGED waitingChats
  PROVE  /\ Counted'
         /\ \A B : Together(queue, B) => Together(queue', B)
<1>0. queue \in Seq(Work) /\ Distinct(queue) /\ QueueTypeOK
  BY DEF IInv, TypeOK, QueueTypeOK, RequestInv, FifoInv
<1>1. /\ RemoveQueued(S)
      /\ waitingImages' = waitingImages - Cardinality(QueuedIn(S))
      /\ queuedBytes' = queuedBytes - Bytes(QueuedIn(S))
  BY DEF CancelImages
<1>2. Elements(queue') = Elements(queue) \ S
  BY <1>0, <1>1, RemoveQueuedElements
<1>3. S \cap Images = S /\ S \cap Chats = {}
  BY WorkAssumption
<1>4. waitingChats' = waitingChats - Cardinality(QueuedIn(S \cap Chats))
  <2>1. Cardinality(QueuedIn(S \cap Chats)) = 0
    BY <1>3, QueuedOne
  <2>2. QED
    BY <1>0, <2>1 DEF QueueTypeOK
<1>5. Counted'
  BY <1>1, <1>2, <1>3, <1>4, CountedLess
<1>6. QED
  BY <1>0, <1>1, <1>5, RemovedTogether

\* ... and of any image request.
LEMMA ImageCounted ==
  ASSUME IInv, Counted, BatchInv, ImageStep
  PROVE  Counted' /\ BatchInv'
<1>0. /\ UNCHANGED waitingChats
      /\ queue \in Seq(Work) /\ Distinct(queue) /\ ImageTypeOK /\ RequestInv
  BY DEF ImageStep, RequestFrame, IInv, TypeOK, QueueTypeOK, RequestInv, FifoInv
<1>b. \A b \in Batches : b \in Seq(Images) /\ Distinct(b) /\ Elements(b) \subseteq Images
  BY BatchAssumption DEF Distinct, Elements
<1>1. ASSUME NEW s \in Seq(Images), NEW v \in {"waiting", "batch"}, Distinct(s), ImageEnqueue(s, v)
      PROVE  Counted'
  <2>1. /\ \A i \in Elements(s) : image[i] = "out"
        /\ queue' = queue \o s
        /\ CapacityOk(Elements(s))
        /\ waitingImages' = waitingImages + Cardinality(Elements(s))
        /\ queuedBytes' = queuedBytes + Bytes(Elements(s))
    BY <1>1 DEF ImageEnqueue
  <2>2. Elements(s) \subseteq Images /\ s \in Seq(Work)
    BY DEF Elements, Work
  <2>3. Elements(s) \cap Elements(queue) = {}
    BY <1>0, <2>1, <2>2 DEF RequestInv, FifoInv, QueuedIn
  <2>4. Elements(queue') = Elements(queue) \cup Elements(s)
    BY <1>0, <1>1, <2>1, <2>2, <2>3, ConcatElements
  <2>5. QED
    BY <1>0, <2>1, <2>2, <2>3, <2>4, CountedImages
<1>2. ASSUME NEW i \in Images, ImageEnqueue(<<i>>, "waiting") PROVE Counted' /\ BatchInv'
  <2>1. <<i>> \in Seq(Images)
    OBVIOUS
  <2>2. Distinct(<<i>>) /\ Elements(<<i>>) = {i}
    BY DEF Distinct, Elements
  <2>3. Counted'
    BY <1>1, <1>2, <2>1, <2>2
  <2>4. BatchInv'
    BY <1>0, <1>2, <2>1, <2>2, BatchJoined
  <2>5. QED
    BY <2>3, <2>4
<1>3. ASSUME NEW b \in Batches, ImageEnqueue(b, "batch") PROVE Counted' /\ BatchInv'
  <2>1. Counted'
    BY <1>1, <1>3, <1>b
  <2>2. BatchInv'
    BY <1>0, <1>3, <1>b, BatchJoined
  <2>3. QED
    BY <2>1, <2>2
<1>4. ASSUME NEW i \in Images, ImageReply(i) \/ ImageFinish(i) PROVE Counted' /\ BatchInv'
  <2>1. UNCHANGED queueVars /\ UNCHANGED queue
    BY <1>0, <1>4 DEF ImageReply, ImageFinish, queueVars
  <2>2. \A j \in Images : image'[j] = "batch" <=> image[j] = "batch"
    BY <1>0, <1>4 DEF ImageReply, ImageFinish, ForgetImages, Assign, ImageTypeOK
  <2>3. BatchInv'
    BY <1>b, <2>1, <2>2, BatchKept
  <2>4. QED
    BY <2>1, <2>3, CountedSame
<1>5. ASSUME NEW i \in Images, ImageAbandon(i) PROVE Counted' /\ BatchInv'
  <2>1. Counted' /\ \A B : Together(queue, B) => Together(queue', B)
    BY <1>0, <1>5, CancelCounted DEF ImageAbandon
  <2>2. \A j \in Images : image'[j] = "batch" <=> image[j] = "batch"
    BY <1>0, <1>5 DEF ImageAbandon, ForgetImages, Assign, ImageTypeOK
  <2>3. BatchInv'
    BY <1>b, <2>1, <2>2, BatchKept
  <2>4. QED
    BY <2>1, <2>3
<1>6. ASSUME NEW b \in Batches, BatchLeave(b) PROVE Counted' /\ BatchInv'
  <2> DEFINE S == {i \in Elements(b) : completion[i] = "pending"}
  <2>1. S \in SUBSET Images /\ CancelImages(S) /\ ForgetImages(Elements(b))
    BY <1>6, <1>b DEF BatchLeave
  <2>2. Counted' /\ \A B : Together(queue, B) => Together(queue', B)
    BY <1>0, <2>1, CancelCounted
  <2>3. \A j \in Images : image'[j] = IF j \in Elements(b) THEN "out" ELSE image[j]
    BY <1>0, <2>1 DEF ForgetImages, Assign, ImageTypeOK
  <2>4. ASSUME NEW d \in Batches
        PROVE  \/ \A i \in Elements(d) : image'[i] # "batch"
               \/ \A i \in Elements(d) : image'[i] = "batch" <=> image[i] = "batch"
    <3>1. d = b \/ Elements(d) \cap Elements(b) = {}
      BY BatchAssumption DEF Elements
    <3>2. QED
      BY <1>b, <2>3, <3>1
  <2>5. BatchInv'
    BY <2>2, <2>4, BatchKept
  <2>6. QED
    BY <2>2, <2>5
<1>7. QED
  BY <1>2, <1>3, <1>4, <1>5, <1>6 DEF ImageStep

\* The work the dispatcher takes leaves the FIFO and the counters together.
LEMMA TakeCounted ==
  ASSUME IInv, Counted, BatchInv, TakeChat \/ TakeImage
  PROVE  Counted' /\ BatchInv'
<1>0. /\ queue \in Seq(Work) /\ Distinct(queue) /\ QueueTypeOK
      /\ queue # <<>> /\ queue' = Tail(queue) /\ UNCHANGED image
  BY DEF TakeChat, ServeFrame, TakeImage, PopFrame, IInv, TypeOK, QueueTypeOK, RequestInv, FifoInv
<1>1. Elements(queue') = Elements(queue) \ {Head(queue)}
  BY <1>0, TailElements
<1>2. Head(queue) \in Elements(queue)
  <2>1. 1 \in DOMAIN queue /\ Head(queue) = queue[1]
    BY <1>0
  <2>2. QED
    BY <2>1 DEF Elements
<1>h. PICK h : h = Head(queue)
  OBVIOUS
<1>i. Elements(queue') = Elements(queue) \ {h}
  BY <1>1, <1>h
<1>3. QueuedIn({h}) = {h} /\ Cardinality({h}) = 1
  BY <1>2, <1>h, FS_Singleton DEF QueuedIn
<1>4. waitingChats \in Int /\ waitingImages \in Int /\ queuedBytes \in Int
  BY <1>0, BytesType DEF Counted, QueueTypeOK, QueuedIn
<1>5. ASSUME TakeChat PROVE Counted'
  <2>1. /\ h \in Chats /\ waitingChats' = waitingChats - 1
        /\ waitingImages' = waitingImages /\ queuedBytes' = queuedBytes
    BY <1>5, <1>h DEF TakeChat, ServeFrame
  <2>2. {h} \cap Chats = {h} /\ {h} \cap Images = {}
    BY <2>1, QueuedOne
  <2>3. /\ waitingChats' = waitingChats - Cardinality(QueuedIn({h} \cap Chats))
        /\ waitingImages' = waitingImages - Cardinality(QueuedIn({h} \cap Images))
        /\ queuedBytes' = queuedBytes - Bytes(QueuedIn({h} \cap Images))
    BY <1>3, <1>4, <2>1, <2>2, QueuedOne
  <2>4. QED
    BY <1>i, <2>3, CountedLess
<1>6. ASSUME TakeImage PROVE Counted'
  <2>1. /\ h \in Images /\ waitingImages' = waitingImages - 1
        /\ queuedBytes' = queuedBytes - Size[h] /\ waitingChats' = waitingChats
    BY <1>6, <1>h DEF TakeImage, PopFrame
  <2>2. {h} \cap Images = {h} /\ {h} \cap Chats = {} /\ Bytes({h}) = Size[h]
    BY <2>1, QueuedOne, BytesOfOne
  <2>3. /\ waitingChats' = waitingChats - Cardinality(QueuedIn({h} \cap Chats))
        /\ waitingImages' = waitingImages - Cardinality(QueuedIn({h} \cap Images))
        /\ queuedBytes' = queuedBytes - Bytes(QueuedIn({h} \cap Images))
    BY <1>3, <1>4, <2>1, <2>2, QueuedOne
  <2>4. QED
    BY <1>i, <2>3, CountedLess
<1>7. BatchInv'
  <2>1. \A b \in Batches : Together(queue, Elements(b)) => Together(queue', Elements(b))
    BY <1>0, TailTogether
  <2>2. QED
    BY <1>0, <2>1, BatchKept
<1>8. QED
  BY <1>5, <1>6, <1>7

\* Shutdown takes everything off the FIFO and off the counters.
LEMMA CloseCounted ==
  ASSUME IInv, Counted, BatchInv, Close
  PROVE  Counted' /\ BatchInv'
<1>1. /\ queue' = <<>>
      /\ waitingChats' = waitingChats - Cardinality(QueuedIn(Chats))
      /\ waitingImages' = waitingImages - Cardinality(QueuedIn(Images))
      /\ queuedBytes' = queuedBytes - Bytes(QueuedIn(Images))
  BY DEF Close
<1>2. Work \cap Chats = Chats /\ Work \cap Images = Images
  BY DEF Work
<1>3. Elements(queue) \subseteq Work
  BY DEF IInv, TypeOK, QueueTypeOK, Elements
<1>4. Elements(queue') = Elements(queue) \ Work
  BY <1>1, <1>3 DEF Elements
<1>5. Counted'
  BY <1>1, <1>2, <1>4, CountedLess
<1>6. BatchInv'
  <2>1. \A B : Together(queue', B)
    BY <1>1 DEF Together
  <2>2. \A b \in Batches : \A i \in Elements(b) : image'[i] = image[i]
    BY DEF Close
  <2>3. QED
    BY <2>1, <2>2, BatchKept
<1>7. QED
  BY <1>5, <1>6

\* Nothing else touches the FIFO, its counters or the requests for images.
LEMMA AccountsKept ==
  ASSUME IInv, Counted, BatchInv, [Next]_vars
  PROVE  Counted' /\ BatchInv'
<1>1. ASSUME UNCHANGED <<queueVars, image>> PROVE Counted' /\ BatchInv'
  <2>1. UNCHANGED queueVars /\ UNCHANGED <<queue, image>>
    BY <1>1 DEF queueVars
  <2>2. QED
    BY <2>1, CountedSame, BatchSame
<1>2. CASE Initialize \/ SideStep \/ Environment \/ UNCHANGED vars
  BY <1>1, <1>2 DEF Initialize, BootFrame, SideStep, SideFrame, Environment, vars
<1>3. CASE DispatcherWaits \/ RestoreStep \/ ServeImageStep \/ Shutdown
  BY <1>1, <1>3 DEF DispatcherWaits, RestoreStep, RestoreFrame, ServeFrame, ServeImageStep,
     ImageFrame, PopFrame, Shutdown, StopFrame, queueVars
<1>4. QED
  BY <1>2, <1>3, ChatCounted, ImageCounted, TakeCounted, CloseCounted DEF Next, Stopped, Dispatcher

\* What the counters and the batches make of the FIFO.
LEMMA AccountsAdd ==
  ASSUME IInv, Counted, BatchInv
  PROVE  Accounting
<1>0. /\ queue \in Seq(Work) /\ Distinct(queue) /\ current \notin Elements(queue)
      /\ activeChats = Cardinality(Granted)
  BY DEF IInv, TypeOK, QueueTypeOK, RequestInv, FifoInv, GrantInv
<1>1. Len(queue) = waitingChats + waitingImages
  <2> DEFINE A == QueuedIn(Chats)
             B == QueuedIn(Images)
  <2>1. /\ Elements(queue) = A \cup B /\ A \cap B = {}
        /\ A \subseteq Chats /\ B \subseteq Images
    BY <1>0, WorkAssumption DEF QueuedIn, Elements, Work
  <2>2. IsFiniteSet(A) /\ IsFiniteSet(B) /\ Cardinality(A) \in Nat /\ Cardinality(B) \in Nat
    BY <2>1, WorkAssumption, FS_Subset, FS_CardinalityType
  <2>3. Cardinality(A \cup B) = Cardinality(A) + Cardinality(B)
    <3>1. Cardinality(A \cup B) = Cardinality(A) + Cardinality(B) - Cardinality(A \cap B)
      BY <2>2, FS_Union
    <3>2. Cardinality(A \cap B) = 0
      BY <2>1, FS_EmptySet
    <3> HIDE DEF A, B
    <3>3. QED
      BY <2>2, <3>1, <3>2
  <2>4. Len(queue) \in Nat /\ DOMAIN queue = 1 .. Len(queue)
    BY <1>0
  <2>5. queue \in Bijection(1 .. Len(queue), Elements(queue))
    <3>1. queue \in [1 .. Len(queue) -> Elements(queue)]
      BY <1>0, <2>4 DEF Elements
    <3>2. QED
      BY <1>0, <2>4, <3>1 DEF Elements, Distinct, Bijection, Injection, Surjection, IsInjective
  <2>6. /\ IsFiniteSet(1 .. Len(queue))
        /\ Cardinality(1 .. Len(queue)) = Len(queue)
    <3>1. /\ IsFiniteSet(1 .. Len(queue))
          /\ Cardinality(1 .. Len(queue)) = IF 1 > Len(queue) THEN 0 ELSE Len(queue) - 1 + 1
      BY <2>4, FS_Interval
    <3>2. QED
      BY <2>4, <3>1
  <2>7. Cardinality(Elements(queue)) = Len(queue)
    BY <2>5, <2>6, FS_Bijection DEF ExistsBijection
  <2>8. QED
    BY <2>1, <2>3, <2>7 DEF Counted
<1>2. ASSUME NEW b \in Batches, NEW j \in DOMAIN queue, NEW k \in DOMAIN queue,
             {queue[j], queue[k]} \subseteq Elements(b), image[queue[j]] = "batch"
      PROVE  \A n \in j .. k : queue[n] \in Elements(b)
  <2>1. Together(queue, Elements(b))
    BY <1>2 DEF BatchInv, Batched
  <2>2. QED
    BY <1>2, <2>1 DEF Together
<1>3. QED
  BY <1>0, <1>1, <1>2 DEF Accounting, Counted

\* The counters that admission and the drains read say what is queued and
\* leased, through every order of enqueueing, cancellation, dispatch and
\* shutdown; the limits hold; and a batch stays together in the FIFO.
THEOREM AccountsBalance == Spec => []Accounting
<1>1. Init => Counted /\ BatchInv
  <2> SUFFICES ASSUME Init PROVE Counted /\ BatchInv
    OBVIOUS
  <2>1. QueuedIn(Chats) = {} /\ QueuedIn(Images) = {}
    BY DEF Init, QueuedIn, Elements
  <2>2. Counted
    BY <2>1, FS_EmptySet, BytesOfNone, SizeAssumption DEF Init, Counted
  <2>3. BatchInv
    <3>1. \A b \in Batches : Elements(b) \subseteq Images
      BY BatchAssumption DEF Elements
    <3>2. \A i \in Images : image[i] # "batch"
      BY DEF Init
    <3>3. QED
      BY <3>1, <3>2 DEF BatchInv, Batched
  <2>4. QED
    BY <2>2, <2>3
<1>2. IInv /\ Counted /\ BatchInv /\ [Next]_vars => Counted' /\ BatchInv'
  BY AccountsKept
<1>3. IInv /\ Counted /\ BatchInv => Accounting
  BY AccountsAdd
<1>4. QED
  BY <1>1, <1>2, <1>3, InductiveInvariant, PTL DEF Spec
=============================================================================
