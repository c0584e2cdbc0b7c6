-------------------------- MODULE MediaJobsProofs ---------------------------
(* What holds of the media jobs for every value of the constants.          *)
EXTENDS MediaJobsProps, FiniteSetTheorems, TLAPS

-----------------------------------------------------------------------------
(* The inductive invariant, in named parts.                                *)

Owned(u) == Known(u[1]) /\ u[2] <= request[u[1]].count

\* Tasks exist for the images of jobs that have begun.
TaskInv ==
  /\ \A j \in JobIds : batchTask[j] # "none" <=> Known(j) /\ request[j].batch
  /\ \A u \in Units :
       /\ itemTask[u] # "none" => Owned(u)
       /\ Owned(u) /\ Alone(u) => itemTask[u] # "none"
       /\ Owned(u) /\ ~Alone(u) =>
            /\ batchTask[u[1]] = "new" => itemTask[u] = "none"
            /\ batchTask[u[1]] \in {"first", "gather", "unwind"} => itemTask[u] # "none"
            /\ batchTask[u[1]] = "done" => itemTask[u] \in {"none", "done"}

\* A thread is at work, and files are staged, only while their task waits for
\* it, which publishes nothing but a complete directory.
FilesOf(u) ==
  /\ published[u] \in {0, Images}
  /\ itemTask[u] \notin DiskOps => disk[u] = {} /\ staged[u] = 0 /\ ~failing[u]
  /\ itemTask[u] \in DiskOps => disk[u] \subseteq {itemTask[u]}
  /\ itemTask[u] = "write" /\ disk[u] # {} => staged[u] < Images /\ ~failing[u]
  /\ itemTask[u] = "publish" /\ disk[u] # {} => staged[u] = Images /\ ~failing[u]
  /\ itemTask[u] = "publish" /\ disk[u] = {} /\ ~failing[u] => published[u] = Images
  /\ itemTask[u] = "dropFinal" => failing[u]
  /\ itemTask[u] = "dropStaging" /\ ~failing[u] => published[u] = Images
  /\ itemTask[u] = "dropStaging" /\ disk[u] = {} => staged[u] = 0

FileInv == \A u \in Units : FilesOf(u)

\* Verdicts belong to tasks that have ended.
StatusInv ==
  \A u \in Units :
    /\ itemTask[u] = "done" => itemStatus[u] \in Final
    /\ itemStatus[u] = "succeeded" => itemTask[u] = "done" /\ published[u] = Images

\* The images of a batch that has not begun have the status they were made with.
FreshInv ==
  \A u \in Units : Known(u[1]) => Alone(u) \/ batchTask[u[1]] # "new" \/ itemStatus[u] = "preparing"

UnknownInv == \A u \in Units : ~Known(u[1]) => itemStatus[u] = "preparing"

\* A batch that has ended has its verdict, and so have its images if it began.
EndInv ==
  \A j \in JobIds : Known(j) /\ request[j].batch /\ batchTask[j] = "done" =>
    /\ status[j] \in Final \cup {"partial"}
    /\ (\A u \in Items(j) : itemStatus[u] \in Final) \/ NeverBegan(j)

\* What VerdictHolds says of a batch.
VerdictOf(j) ==
  /\ status[j] = "succeeded" => \A u \in Items(j) : itemStatus[u] = "succeeded"
  /\ status[j] = "partial" => /\ \E u \in Items(j) : itemStatus[u] = "succeeded"
                             /\ \E u \in Items(j) : itemStatus[u] # "succeeded"
  /\ status[j] = "failed" => Closing \/ \A u \in Items(j) : itemStatus[u] # "succeeded"

VerdictInv ==
  \A j \in JobIds : Known(j) /\ request[j].batch /\ batchTask[j] = "done" => VerdictOf(j)

\* Tasks are only cancelled by close(), while they wait for something.
CancelInv ==
  /\ \A u \in Units : u \in cancelled => itemTask[u] \notin {"none", "new", "done"}
  /\ \A j \in JobIds : j \in cancelled => batchTask[j] \in {"first", "gather"}
  /\ cancelled # {} => stop \in {"cancelling", "closed"}
  /\ \A j \in JobIds : batchTask[j] = "unwind" => stop \in {"cancelling", "closed"}

\* An image gets its place in the FIFO when its task starts.
TicketInv ==
  \A u \in Units :
    /\ ticket[u] # "none" => Owned(u)
    /\ Owned(u) /\ Alone(u) /\ itemTask[u] = "new" => ticket[u] = "none"
    /\ Owned(u) /\ ~Alone(u) /\ batchTask[u[1]] = "new" => ticket[u] = "none"

\* No task begins after close() has looked for them, and none gets anywhere
\* without a dispatcher.
StopInv ==
  /\ stop \in {"cancelling", "closed"} =>
       /\ Live \subseteq awaited
       /\ stop = "closed" => Live = {}
       /\ \A j \in JobIds : batchTask[j] # "new"
       /\ \A u \in Units : itemTask[u] # "new"
  /\ stop = "unattended" =>
       /\ \A j \in JobIds : batchTask[j] \in {"none", "new", "done"}
       /\ \A u \in Units : itemTask[u] \in {"none", "new", "done"}

JobsInv ==
  /\ TypeOK /\ TaskInv /\ FileInv /\ StatusInv /\ FreshInv /\ UnknownInv
  /\ EndInv /\ VerdictInv /\ CancelInv /\ TicketInv /\ StopInv

-----------------------------------------------------------------------------
(* Types.                                                                  *)

\* A request of a known job, and the units of its images.
LEMMA JobUnits ==
  ASSUME TypeOK, NEW j \in JobIds, Known(j)
  PROVE  /\ request[j] \in Requests
         /\ request[j].batch \in BOOLEAN /\ request[j].count \in 1 .. MaxItems
         /\ ~request[j].batch => request[j].count = 1
         /\ <<j, 1>> \in Items(j) /\ <<j, 1>> \in Units
         /\ Items(j) \subseteq Units
         /\ \A u \in Units : u \in Items(j) <=> u[1] = j /\ u[2] <= request[j].count
<1>1. request[j] \in Requests
  BY DEF TypeOK, Known
<1>2. /\ request[j].batch \in BOOLEAN /\ request[j].count \in 1 .. MaxItems
      /\ ~request[j].batch => request[j].count = 1
  BY <1>1 DEF Requests
<1>3. \A u \in Units : u = <<u[1], u[2]>> /\ u[1] \in JobIds /\ u[2] \in 1 .. MaxItems
  BY DEF Units
<1>4. Items(j) \subseteq Units
  BY <1>2, MediaAssumption DEF Items, Units
<1>5. <<j, 1>> \in Items(j)
  BY <1>2 DEF Items
<1>6. ASSUME NEW u \in Units PROVE u \in Items(j) <=> u[1] = j /\ u[2] <= request[j].count
  BY <1>2, <1>3 DEF Items
<1>7. QED
  BY <1>1, <1>2, <1>4, <1>5, <1>6

\* Every variable keeps its type: no directory gets more files than the
\* workflow has images.
LEMMA TypesKept ==
  ASSUME TypeOK, TaskInv, FileInv, [Next]_vars
  PROVE  TypeOK'
<1> USE DEF jobVars, itemVars, fileVars, stopVars, vars
<1> USE DEF TypeOK, Statuses, Final, DiskOps
<1>1. CASE UNCHANGED vars \/ Stopped
  BY <1>1 DEF Stopped
<1>2. ASSUME NEW c \in Clients, ClientStep(c) PROVE TypeOK'
  <2>1. CASE \E j \in JobIds, r \in Requests : Generate(c, j, r)
    BY <1>2, <2>1 DEF Generate, Calls
  <2>2. CASE \E j \in JobIds : Attach(c, j)
    BY <1>2, <2>2 DEF Attach, Calls
  <2>3. CASE Create(c)
    <3> DEFINE j == call[c].job
               r == call[c].request
    <3>1. call[c] \in Calls /\ call[c].op = "resolving"
      BY <1>2, <2>3 DEF Create
    <3>2. j \in JobIds /\ r \in Requests
      BY <3>1 DEF Calls
    <3>3. <<j, 1>> \in Units
      BY <3>2, MediaAssumption DEF Units
    <3>4. request' = [request EXCEPT ![j] = r]
      BY <2>3 DEF Create
    <3>5. \/ batchTask' = [batchTask EXCEPT ![j] = "new"] /\ itemTask' = itemTask
          \/ batchTask' = batchTask /\ itemTask' = [itemTask EXCEPT ![<<j, 1>>] = "new"]
      BY <2>3 DEF Create
    <3>6. call' = [call EXCEPT ![c] = [op |-> "waiting", job |-> j]]
      BY <2>3 DEF Create
    <3>7. [op |-> "waiting", job |-> j] \in Calls
      BY <3>2 DEF Calls
    <3>8. UNCHANGED <<status, itemStatus, failing, cancelled, fileVars, ticket, stopVars>>
      BY <2>3 DEF Create
    <3> HIDE DEF j, r
    <3>9. QED
      BY <1>2, <3>2, <3>3, <3>4, <3>5, <3>6, <3>7, <3>8
  <2>4. CASE GiveUp(c) \/ Answer(c)
    BY <1>2, <2>4 DEF GiveUp, Answer
  <2>5. QED
    BY <1>2, <2>1, <2>2, <2>3, <2>4 DEF ClientStep
<1>3. CASE CoordinatorStep
  BY <1>3 DEF CoordinatorStep, TicketRuns, TicketEnds
<1>4. ASSUME NEW u \in Units, ItemStep(u) PROVE TypeOK'
  <2>1. CASE Submit(u) \/ Submitted(u) \/ Generated(u)
    BY <1>4, <2>1 DEF Submit, Submitted, Generated, GoTo, Disk
  <2>2. CASE Interrupted(u)
    BY <1>4, <2>2 DEF Interrupted, GoTo, Withdrawn
  <2>3. CASE Saves(u)
    BY <1>4, <2>3 DEF Saves, Disk
  <2>4. CASE Unwinds(u)
    BY <1>4, <2>4 DEF Unwinds, Disk
  <2>5. CASE Saved(u)
    BY <1>4, <2>5 DEF Saved, GoTo
  <2>6. QED
    BY <1>4, <2>1, <2>2, <2>3, <2>4, <2>5 DEF ItemStep
<1>5. ASSUME NEW u \in Units, NEW op \in DiskOps, ThreadEnds(u, op) PROVE TypeOK'
  <2>1. /\ UNCHANGED <<jobVars, itemStatus, itemTask, cancelled, ticket, call, stopVars>>
        /\ disk' = [disk EXCEPT ![u] = @ \ {op}]
        /\ failing' = failing \/ failing' = [failing EXCEPT ![u] = TRUE]
    BY <1>5 DEF ThreadEnds
  <2>2. disk' \in [Units -> SUBSET DiskOps] /\ failing' \in [Units -> BOOLEAN]
    BY <1>5, <2>1
  <2>3. op = "write" => staged[u] < Images
    BY <1>5 DEF ThreadEnds, FileInv, FilesOf
  <2>4. staged[u] \in 0 .. Images /\ published[u] \in 0 .. Images
    BY <1>5
  <2>5. staged' \in [Units -> 0 .. Images]
    BY <1>5, <2>3, <2>4, MediaAssumption DEF ThreadEnds
  <2>6. published' \in [Units -> 0 .. Images]
    BY <1>5, <2>4, MediaAssumption DEF ThreadEnds
  <2>7. QED
    BY <2>1, <2>2, <2>5, <2>6
<1>6. ASSUME NEW j \in JobIds, BatchStep(j) PROVE TypeOK'
  <2>1. itemStatus' = itemStatus \/ \E s : EndBatch(j, s)
    BY <1>6 DEF BatchStep, BatchStarts, BatchSubmitted, BatchGathered, BatchInterrupted, BatchUnwound
  <2>2. itemStatus' \in [Units -> Statuses]
    BY <2>1 DEF EndBatch
  <2>3. CASE BatchStarts(j)
    BY <1>6, <2>2, <2>3 DEF BatchStarts, EndBatch
  <2>4. CASE BatchSubmitted(j)
    BY <1>6, <2>4 DEF BatchSubmitted
  <2>5. CASE BatchGathered(j)
    BY <1>6, <2>2, <2>5 DEF BatchGathered, EndBatch, Withdrawn, Verdict
  <2>6. CASE BatchInterrupted(j)
    <3>0. Known(j)
      BY <1>6, <2>6 DEF BatchInterrupted, TaskInv
    <3>1. Items(j) \subseteq Units
      BY <1>6, <3>0, JobUnits
    <3>2. QED
      BY <1>6, <2>6, <3>1 DEF BatchInterrupted, Withdrawn
  <2>7. CASE BatchUnwound(j)
    BY <1>6, <2>2, <2>7 DEF BatchUnwound, EndBatch
  <2>8. QED
    BY <1>6, <2>3, <2>4, <2>5, <2>6, <2>7 DEF BatchStep
<1>7. CASE Stop
  <2>1. CASE StopAccepting \/ CoordinatorCloses \/ JobsClosed
    BY <2>1 DEF StopAccepting, CoordinatorCloses, JobsClosed, Withdrawn
  <2>2. ASSUME MarkJobs
        PROVE  /\ status' \in [JobIds -> Statuses \cup {"partial"}]
               /\ itemStatus' \in [Units -> Statuses] /\ awaited' \subseteq JobIds
    BY <2>2 DEF MarkJobs, Live
  <2>3. CASE CancelJobs
    BY <2>2, <2>3 DEF CancelJobs, Live
  <2>4. CASE CancelUnbegun
    BY <2>2, <2>4 DEF CancelUnbegun
  <2>5. QED
    BY <1>7, <2>1, <2>3, <2>4 DEF Stop
<1>8. QED
  BY <1>1, <1>2, <1>3, <1>4, <1>5, <1>6, <1>7 DEF Next

-----------------------------------------------------------------------------
(* What the steps have in common.                                          *)

\* A client changes nothing but what it waits for, unless it creates a job.
LEMMA ClientMoves ==
  ASSUME NEW c \in Clients, ClientStep(c), TypeOK
  PROVE  \/ UNCHANGED <<request, status, batchTask, itemStatus, itemTask, cancelled, failing, disk,
                        staged, published, ticket, awaited, stop>>
         \/ \E j \in JobIds, r \in Requests :
              /\ UNCHANGED <<status, itemStatus, cancelled, failing, disk, staged, published, ticket,
                             awaited, stop>>
              /\ ~Closing /\ ~Known(j) /\ Admits(r)
              /\ request' = [request EXCEPT ![j] = r]
              /\ IF r.batch THEN /\ batchTask' = [batchTask EXCEPT ![j] = "new"]
                                 /\ itemTask' = itemTask
                            ELSE /\ itemTask' = [itemTask EXCEPT ![<<j, 1>>] = "new"]
                                 /\ batchTask' = batchTask
<1>1. CASE Create(c)
  <2> DEFINE j == call[c].job
             r == call[c].request
  <2>1. call[c] \in Calls /\ call[c].op = "resolving"
    BY <1>1 DEF Create, TypeOK
  <2>2. j \in JobIds /\ r \in Requests
    BY <2>1 DEF Calls
  <2>3. QED
    BY <1>1, <2>2 DEF Create, Accepts, fileVars, stopVars
<1>2. CASE ~Create(c)
  BY <1>2 DEF ClientStep, Generate, Attach, GiveUp, Answer, jobVars, itemVars, fileVars, stopVars
<1>3. QED
  BY <1>1, <1>2

\* The task of an image moves on, and changes no other.
LEMMA ItemMoves ==
  ASSUME TypeOK, NEW u \in Units, ItemStep(u)
  PROVE  /\ UNCHANGED <<request, status, batchTask, published, call, awaited, stop>>
         /\ itemTask[u] \notin {"none", "done"}
         /\ \E x \in DiskOps \cup {"submit", "generate", "done"} :
              itemTask' = [itemTask EXCEPT ![u] = x]
         /\ itemStatus' = itemStatus \/ \E s \in Statuses : itemStatus' = [itemStatus EXCEPT ![u] = s]
<1> USE DEF jobVars, fileVars, stopVars, GoTo, Disk, Statuses, Final, DiskOps
<1>1. CASE Submit(u) \/ Submitted(u) \/ Generated(u) \/ Interrupted(u)
  BY <1>1 DEF Submit, Submitted, Generated, Interrupted
<1>2. CASE Saves(u) \/ Unwinds(u)
  BY <1>2 DEF Saves, Unwinds
<1>3. CASE Saved(u)
  BY <1>3 DEF Saved
<1>4. QED
  BY <1>1, <1>2, <1>3 DEF ItemStep

\* So does the task of a batch.
LEMMA BatchMoves ==
  ASSUME NEW j \in JobIds, BatchStep(j)
  PROVE  /\ UNCHANGED <<request, disk, staged, published, failing, call, awaited, stop>>
         /\ batchTask[j] \in {"new", "first", "gather", "unwind"}
         /\ \/ /\ batchTask[j] = "new" /\ batchTask' = [batchTask EXCEPT ![j] = "first"]
               /\ itemTask' = [u \in Units |-> IF u \in Items(j) THEN "new" ELSE itemTask[u]]
               /\ Attended
            \/ /\ itemTask' = itemTask
               /\ \E x \in {"gather", "unwind", "done"} :
                    /\ batchTask' = [batchTask EXCEPT ![j] = x]
                    /\ batchTask[j] = "new" => x = "done"
                    /\ x = "done" => batchTask[j] = "new" \/ ItemsDone(j)
<1> USE DEF itemVars, fileVars, stopVars, EndBatch
<1>1. CASE BatchStarts(j) \/ BatchSubmitted(j)
  BY <1>1 DEF BatchStarts, BatchSubmitted
<1>2. CASE BatchGathered(j) \/ BatchInterrupted(j) \/ BatchUnwound(j)
  BY <1>2 DEF BatchGathered, BatchInterrupted, BatchUnwound
<1>3. QED
  BY <1>1, <1>2 DEF BatchStep

\* Stop changes no task that has begun, but what cancellations and verdicts say of it.
LEMMA StopMoves ==
  ASSUME Stop \/ Stopped \/ CoordinatorStep \/ UNCHANGED vars, ~CancelUnbegun
  PROVE  UNCHANGED <<request, batchTask, itemTask, failing, disk, staged, published>>
BY DEF Stop, StopAccepting, CoordinatorCloses, CancelJobs, JobsClosed, Stopped, CoordinatorStep, vars,
       jobVars, itemVars, fileVars, stopVars

\* Tasks that have not begun end where they are.
LEMMA UnbegunMoves ==
  ASSUME TypeOK, CancelUnbegun
  PROVE  /\ UNCHANGED <<request, cancelled, failing, disk, staged, published, ticket, call>>
         /\ stop = "unattended" /\ stop' = "cancelling" /\ awaited' = Live
         /\ \A j \in JobIds : batchTask'[j] = IF batchTask[j] = "new" THEN "done" ELSE batchTask[j]
         /\ \A u \in Units : itemTask'[u] = IF itemTask[u] = "new" THEN "done" ELSE itemTask[u]
BY DEF CancelUnbegun, MarkJobs, TypeOK, fileVars

-----------------------------------------------------------------------------
(* The invariant is kept, part by part.                                    *)

LEMMA TasksKept ==
  ASSUME TypeOK, TaskInv, [Next]_vars
  PROVE  TaskInv'
<1> USE DEF Known, Alone, Owned
<1>0. \A u \in Units : u = <<u[1], u[2]>> /\ u[1] \in JobIds /\ u[2] \in 1 .. MaxItems
  BY DEF Units
<1>1. ASSUME UNCHANGED <<request, batchTask, itemTask>> PROVE TaskInv'
  BY <1>1 DEF TaskInv
<1>2. ASSUME NEW c \in Clients, ClientStep(c) PROVE TaskInv'
  <2>1. SUFFICES ASSUME NEW j \in JobIds, NEW r \in Requests,
                        ~Known(j), request' = [request EXCEPT ![j] = r],
                        IF r.batch THEN /\ batchTask' = [batchTask EXCEPT ![j] = "new"]
                                        /\ itemTask' = itemTask
                                   ELSE /\ itemTask' = [itemTask EXCEPT ![<<j, 1>>] = "new"]
                                        /\ batchTask' = batchTask
                 PROVE  TaskInv'
    BY <1>1, <1>2, ClientMoves
  <2>2. /\ r # None /\ r.batch \in BOOLEAN /\ r.count \in 1 .. MaxItems
        /\ ~r.batch => r.count = 1
    BY MediaAssumption DEF Requests
  <2>3. /\ request'[j] = r /\ \A k \in JobIds \ {j} : request'[k] = request[k]
        /\ batchTask[j] = "none"
        /\ <<j, 1>> \in Units
    BY <2>1, MediaAssumption DEF TypeOK, TaskInv, Units
  <2>4. \A u \in Units : u[1] = j => itemTask[u] = "none"
    BY <2>1 DEF TaskInv
  <2>5. CASE r.batch
    <3>1. \A k \in JobIds : batchTask'[k] # "none" <=> request'[k] # None /\ request'[k].batch
      BY <2>1, <2>2, <2>3, <2>5 DEF TypeOK, TaskInv
    <3>2. ASSUME NEW u \in Units
          PROVE  /\ itemTask'[u] # "none" => Owned(u)'
                 /\ Owned(u)' /\ Alone(u)' => itemTask'[u] # "none"
                 /\ Owned(u)' /\ ~Alone(u)' =>
                      /\ batchTask'[u[1]] = "new" => itemTask'[u] = "none"
                      /\ batchTask'[u[1]] \in {"first", "gather", "unwind"} => itemTask'[u] # "none"
                      /\ batchTask'[u[1]] = "done" => itemTask'[u] \in {"none", "done"}
      <4>1. CASE u[1] = j
        BY <2>1, <2>2, <2>3, <2>4, <2>5, <4>1 DEF TypeOK
      <4>2. CASE u[1] # j
        BY <1>0, <2>1, <2>3, <2>5, <4>2 DEF TypeOK, TaskInv
      <4>3. QED
        BY <4>1, <4>2
    <3>3. QED
      BY <3>1, <3>2 DEF TaskInv
  <2>6. CASE ~r.batch
    <3>1. \A k \in JobIds : batchTask'[k] # "none" <=> request'[k] # None /\ request'[k].batch
      BY <2>1, <2>2, <2>3, <2>6 DEF TypeOK, TaskInv
    <3>2. ASSUME NEW u \in Units
          PROVE  /\ itemTask'[u] # "none" => Owned(u)'
                 /\ Owned(u)' /\ Alone(u)' => itemTask'[u] # "none"
                 /\ Owned(u)' /\ ~Alone(u)' =>
                      /\ batchTask'[u[1]] = "new" => itemTask'[u] = "none"
                      /\ batchTask'[u[1]] \in {"first", "gather", "unwind"} => itemTask'[u] # "none"
                      /\ batchTask'[u[1]] = "done" => itemTask'[u] \in {"none", "done"}
      <4>0. itemTask'[u] = IF u = <<j, 1>> THEN "new" ELSE itemTask[u]
        BY <2>1, <2>3, <2>6 DEF TypeOK
      <4>1. CASE u[1] = j
        <5>1. u[2] \in 1 .. MaxItems /\ u = <<j, u[2]>>
          BY <1>0, <4>1
        <5>2. (u[2] <= 1) <=> (u = <<j, 1>>)
          BY <5>1, MediaAssumption
        <5>3. r.count = 1 /\ Owned(u)' <=> u = <<j, 1>>
          BY <2>2, <2>3, <2>6, <4>1, <5>2
        <5>4. Alone(u)'
          BY <2>3, <2>6, <4>1
        <5>5. itemTask[u] = "none"
          BY <2>4, <4>1
        <5>6. QED
          BY <2>2, <2>6, <4>0, <5>3, <5>4, <5>5
      <4>2. CASE u[1] # j
        BY <1>0, <2>1, <2>3, <2>6, <4>0, <4>2 DEF TaskInv
      <4>3. QED
        BY <4>1, <4>2
    <3>3. QED
      BY <3>1, <3>2 DEF TaskInv
  <2>7. QED
    BY <2>2, <2>5, <2>6
<1>3. ASSUME NEW u \in Units, ItemStep(u) PROVE TaskInv'
  <2>1. PICK x \in DiskOps \cup {"submit", "generate", "done"} : itemTask' = [itemTask EXCEPT ![u] = x]
    BY <1>3, ItemMoves
  <2>2. UNCHANGED <<request, batchTask>> /\ itemTask[u] \notin {"none", "done"}
    BY <1>3, ItemMoves
  <2>3. x # "none"
    BY DEF DiskOps
  <2>4. QED
    BY <1>0, <2>1, <2>2, <2>3 DEF TaskInv, TypeOK
<1>4. ASSUME NEW j \in JobIds, BatchStep(j) PROVE TaskInv'
  <2>0. Known(j) /\ request[j].batch
    BY <1>4, BatchMoves DEF TaskInv
  <2>1. /\ request' = request
        /\ batchTask[j] \in {"new", "first", "gather", "unwind"}
    BY <1>4, BatchMoves
  <2>3. \A u \in Units : u \in Items(j) <=> u[1] = j /\ u[2] <= request[j].count
    BY <2>0, JobUnits
  <2>4. CASE /\ batchTask[j] = "new" /\ batchTask' = [batchTask EXCEPT ![j] = "first"]
              /\ itemTask' = [u \in Units |-> IF u \in Items(j) THEN "new" ELSE itemTask[u]]
    BY <1>0, <2>0, <2>1, <2>3, <2>4 DEF TypeOK, TaskInv
  <2>5. ASSUME NEW x \in {"gather", "unwind", "done"}, itemTask' = itemTask,
               batchTask' = [batchTask EXCEPT ![j] = x],
               batchTask[j] = "new" => x = "done",
               x = "done" => batchTask[j] = "new" \/ ItemsDone(j)
        PROVE  TaskInv'
    <3>1. x = "done" => \A u \in Units : u[1] = j /\ Owned(u) => itemTask[u] \in {"none", "done"}
      BY <2>0, <2>3, <2>5 DEF TaskInv, ItemsDone
    <3>2. QED
      BY <1>0, <2>0, <2>1, <2>5, <3>1 DEF TypeOK, TaskInv
  <2>6. QED
    BY <1>4, <2>4, <2>5, BatchMoves
<1>5. ASSUME NEW u \in Units, NEW op \in DiskOps, ThreadEnds(u, op) PROVE TaskInv'
  BY <1>1, <1>5 DEF ThreadEnds, jobVars
<1>6. CASE (Stop \/ Stopped \/ CoordinatorStep \/ UNCHANGED vars) /\ ~CancelUnbegun
  BY <1>1, <1>6, StopMoves
<1>7. CASE CancelUnbegun
  BY <1>0, <1>7, UnbegunMoves DEF TaskInv
<1>8. QED
  BY <1>2, <1>3, <1>4, <1>5, <1>6, <1>7 DEF Next, Stop

LEMMA FilesKept ==
  ASSUME TypeOK, TaskInv, FileInv, [Next]_vars
  PROVE  FileInv'
<1> USE DEF FileInv, FilesOf
<1>1. ASSUME UNCHANGED <<itemTask, failing, disk, staged, published>> PROVE FileInv'
  BY <1>1
<1>2. ASSUME NEW c \in Clients, ClientStep(c) PROVE FileInv'
  <2>1. UNCHANGED <<failing, disk, staged, published>>
    BY <1>2, ClientMoves
  <2>2. ASSUME NEW u \in Units, itemTask'[u] # itemTask[u]
        PROVE  itemTask[u] = "none" /\ itemTask'[u] = "new"
    <3>1. PICK j \in JobIds : ~Known(j) /\ itemTask' = [itemTask EXCEPT ![<<j, 1>>] = "new"]
      BY <1>2, <2>2, ClientMoves
    <3>2. u = <<j, 1>> /\ u[1] = j /\ itemTask'[u] = "new"
      BY <2>2, <3>1 DEF TypeOK
    <3>3. QED
      BY <3>1, <3>2 DEF TaskInv, Owned
  <2>3. QED
    BY <2>1, <2>2 DEF DiskOps
<1>3. ASSUME NEW u \in Units, ItemStep(u) PROVE FileInv'
  <2>0. /\ failing[u] \in BOOLEAN /\ disk[u] \subseteq DiskOps
        /\ staged[u] \in 0 .. Images /\ published[u] \in 0 .. Images
        /\ Images \in Nat \ {0}
    BY MediaAssumption DEF TypeOK
  <2>1. published' = published /\ itemTask[u] \notin {"none", "done"}
    BY <1>3, ItemMoves
  <2>2. SUFFICES /\ FilesOf(u)'
                 /\ \A v \in Units \ {u} : UNCHANGED <<itemTask[v], failing[v], disk[v], staged[v]>>
    BY <2>1
  <2>a. ASSUME NEW x, itemTask' = [itemTask EXCEPT ![u] = x],
               disk' = [disk EXCEPT ![u] = @ \cup {x}], disk[u] = {}
        PROVE  /\ itemTask'[u] = x /\ disk'[u] = {x}
               /\ \A v \in Units \ {u} : UNCHANGED <<itemTask[v], disk[v]>>
    BY <2>a DEF TypeOK
  <2> USE DEF TypeOK, GoTo, Disk, fileVars
  <2>3. CASE Submit(u) \/ Submitted(u) \/ Interrupted(u)
    <3>1. UNCHANGED <<failing, disk, staged>> /\ itemTask[u] \in {"new", "submit", "generate"}
      BY <2>3 DEF Submit, Submitted, Interrupted
    <3>2. \E x \in {"submit", "generate", "done"} : itemTask' = [itemTask EXCEPT ![u] = x]
      BY <2>3 DEF Submit, Submitted, Interrupted
    <3>3. QED
      BY <2>1, <3>1, <3>2 DEF DiskOps
  <2>4. CASE Generated(u)
    <3>1. UNCHANGED <<failing, staged>> /\ itemTask[u] = "generate"
      BY <2>4 DEF Generated
    <3>2. \/ itemTask' = [itemTask EXCEPT ![u] = "write"] /\ disk' = [disk EXCEPT ![u] = @ \cup {"write"}]
          \/ itemTask' = [itemTask EXCEPT ![u] = "done"] /\ disk' = disk
      BY <2>4 DEF Generated
    <3>3. QED
      BY <2>0, <2>1, <3>1, <3>2 DEF DiskOps
  <2>5. CASE Saves(u)
    <3>1. UNCHANGED <<failing, staged>> /\ ~failing[u] /\ itemTask[u] \notin disk[u]
      BY <2>5 DEF Saves, DiskReturns, Fails
    <3>2. \/ /\ itemTask[u] = "write" /\ staged[u] # Images
             /\ itemTask' = [itemTask EXCEPT ![u] = "write"]
             /\ disk' = [disk EXCEPT ![u] = @ \cup {"write"}]
          \/ /\ itemTask[u] = "write" /\ staged[u] = Images
             /\ itemTask' = [itemTask EXCEPT ![u] = "publish"]
             /\ disk' = [disk EXCEPT ![u] = @ \cup {"publish"}]
          \/ /\ itemTask[u] = "publish"
             /\ itemTask' = [itemTask EXCEPT ![u] = "dropStaging"]
             /\ disk' = [disk EXCEPT ![u] = @ \cup {"dropStaging"}]
      BY <2>5 DEF Saves, Complete
    <3>3. disk[u] = {}
      BY <2>0, <3>1, <3>2 DEF DiskOps
    <3>4. \/ /\ itemTask[u] = "write" /\ staged[u] # Images
             /\ itemTask'[u] = "write" /\ disk'[u] = {"write"}
          \/ /\ itemTask[u] = "write" /\ staged[u] = Images
             /\ itemTask'[u] = "publish" /\ disk'[u] = {"publish"}
          \/ /\ itemTask[u] = "publish"
             /\ itemTask'[u] = "dropStaging" /\ disk'[u] = {"dropStaging"}
      BY <2>a, <3>2, <3>3
    <3>5. \A v \in Units \ {u} : UNCHANGED <<itemTask[v], disk[v]>>
      BY <2>a, <3>2, <3>3
    <3>6. CASE itemTask[u] = "write"
      BY <2>0, <2>1, <3>1, <3>3, <3>4, <3>5, <3>6 DEF DiskOps
    <3>7. CASE itemTask[u] = "publish"
      BY <2>0, <2>1, <3>1, <3>3, <3>4, <3>5, <3>7 DEF DiskOps
    <3>8. QED
      BY <3>4, <3>6, <3>7
  <2>6. CASE Unwinds(u)
    <3>1. /\ staged' = staged /\ failing' = [failing EXCEPT ![u] = TRUE]
          /\ itemTask[u] \notin disk[u]
      BY <2>6 DEF Unwinds, DiskReturns
    <3>2. \/ /\ itemTask[u] \in {"write", "publish"}
             /\ itemTask' = [itemTask EXCEPT ![u] = "dropFinal"]
             /\ disk' = [disk EXCEPT ![u] = @ \cup {"dropFinal"}]
          \/ /\ itemTask[u] = "dropFinal"
             /\ itemTask' = [itemTask EXCEPT ![u] = "dropStaging"]
             /\ disk' = [disk EXCEPT ![u] = @ \cup {"dropStaging"}]
      BY <2>6 DEF Unwinds
    <3>3. disk[u] = {}
      BY <2>0, <3>1, <3>2 DEF DiskOps
    <3>4. \/ itemTask'[u] = "dropFinal" /\ disk'[u] = {"dropFinal"}
          \/ itemTask'[u] = "dropStaging" /\ disk'[u] = {"dropStaging"}
      BY <2>a, <3>2, <3>3
    <3>5. \A v \in Units \ {u} : UNCHANGED <<itemTask[v], disk[v], failing[v], staged[v]>>
      BY <2>a, <3>1, <3>2, <3>3
    <3>6. failing'[u] = TRUE
      BY <3>1
    <3>7. FilesOf(u)'
      BY <2>0, <2>1, <3>1, <3>3, <3>4, <3>6 DEF DiskOps
    <3>8. QED
      BY <3>5, <3>7
  <2>7. CASE Saved(u)
    <3>1. /\ UNCHANGED <<disk, staged>> /\ failing' = [failing EXCEPT ![u] = FALSE]
          /\ itemTask[u] = "dropStaging" /\ itemTask[u] \notin disk[u]
          /\ itemTask' = [itemTask EXCEPT ![u] = "done"]
      BY <2>7 DEF Saved, DiskReturns
    <3>2. disk[u] = {}
      BY <2>0, <3>1 DEF DiskOps
    <3>3. QED
      BY <2>0, <2>1, <3>1, <3>2 DEF DiskOps
  <2>8. QED
    BY <1>3, <2>3, <2>4, <2>5, <2>6, <2>7 DEF ItemStep
<1>4. ASSUME NEW j \in JobIds, BatchStep(j) PROVE FileInv'
  <2>1. UNCHANGED <<failing, disk, staged, published>>
    BY <1>4, BatchMoves
  <2>2. ASSUME NEW u \in Units, itemTask'[u] # itemTask[u]
        PROVE  itemTask[u] = "none" /\ itemTask'[u] = "new"
    <3>1. /\ batchTask[j] = "new"
          /\ itemTask' = [v \in Units |-> IF v \in Items(j) THEN "new" ELSE itemTask[v]]
      BY <1>4, <2>2, BatchMoves
    <3>2. Known(j) /\ request[j].batch
      BY <3>1 DEF TaskInv
    <3>3. u \in Items(j) /\ u[1] = j /\ u[2] <= request[j].count
      BY <2>2, <3>1, <3>2, JobUnits
    <3>4. QED
      BY <3>1, <3>2, <3>3 DEF TaskInv, Owned, Alone
  <2>3. QED
    BY <2>1, <2>2 DEF DiskOps
<1>5. ASSUME NEW u \in Units, NEW op \in DiskOps, ThreadEnds(u, op) PROVE FileInv'
  <2>0. /\ failing[u] \in BOOLEAN /\ disk[u] \subseteq DiskOps
        /\ staged[u] \in 0 .. Images /\ published[u] \in 0 .. Images
        /\ Images \in Nat \ {0}
    BY <1>5, MediaAssumption DEF TypeOK
  <2>1. itemTask' = itemTask /\ op \in disk[u] /\ disk' = [disk EXCEPT ![u] = @ \ {op}]
    BY <1>5 DEF ThreadEnds
  <2>2. itemTask[u] = op /\ disk[u] = {op} /\ disk'[u] = {}
    BY <1>5, <2>0, <2>1 DEF TypeOK
  <2>3. \A v \in Units \ {u} : UNCHANGED <<failing[v], disk[v], staged[v], published[v]>>
    BY <1>5, <2>1 DEF ThreadEnds, TypeOK
  <2>4. \/ /\ op = "write" /\ staged'[u] = staged[u] + 1 /\ published'[u] = published[u]
        \/ /\ op = "publish" /\ published'[u] = staged[u] /\ staged'[u] = 0 
        \/ /\ op \in {"write", "publish"} /\ failing'[u] = TRUE /\ UNCHANGED <<staged[u], published[u]>>
        \/ /\ op = "dropFinal" /\ published'[u] = 0 /\ UNCHANGED <<staged[u], failing[u]>>
        \/ /\ op = "dropStaging" /\ staged'[u] = 0 /\ UNCHANGED <<published[u], failing[u]>>
    BY <1>5 DEF ThreadEnds, TypeOK
  <2>5. FilesOf(u)'
    BY <2>0, <2>1, <2>2, <2>4, <1>5 DEF DiskOps
  <2>6. QED
    BY <2>1, <2>3, <2>5
<1>6. CASE (Stop \/ Stopped \/ CoordinatorStep \/ UNCHANGED vars) /\ ~CancelUnbegun
  BY <1>1, <1>6, StopMoves
<1>7. CASE CancelUnbegun
  BY <1>7, UnbegunMoves DEF DiskOps
<1>8. QED
  BY <1>2, <1>3, <1>4, <1>5, <1>6, <1>7 DEF Next, Stop

\* A job that is not known yet, or is a batch, is not the job of a lone image;
\* a single job has one image.
LEMMA LoneUnit ==
  ASSUME TypeOK, TaskInv, NEW u \in Units, Owned(u), Alone(u)
  PROVE  u = <<u[1], 1>> /\ u[1] \in JobIds /\ Known(u[1]) /\ ~request[u[1]].batch
<1>1. u = <<u[1], u[2]>> /\ u[1] \in JobIds /\ u[2] \in 1 .. MaxItems /\ Known(u[1])
  BY DEF Units, Owned
<1>2. ~request[u[1]].batch
  BY DEF Alone
<1>3. request[u[1]].count = 1
  BY <1>1, <1>2, JobUnits
<1>4. u[2] = 1
  BY <1>1, <1>3, MediaAssumption DEF Owned
<1>5. QED
  BY <1>1, <1>2, <1>4

LEMMA StatusesKept ==
  ASSUME TypeOK, TaskInv, FileInv, StatusInv, StopInv, [Next]_vars
  PROVE  StatusInv'
<1> USE DEF StatusInv, Final
<1>1. ASSUME UNCHANGED <<itemTask, itemStatus, published>> PROVE StatusInv'
  BY <1>1
<1>2. ASSUME NEW c \in Clients, ClientStep(c) PROVE StatusInv'
  <2>1. UNCHANGED <<itemStatus, published>>
    BY <1>2, ClientMoves
  <2>2. ASSUME NEW u \in Units, itemTask'[u] # itemTask[u]
        PROVE  itemTask[u] = "none" /\ itemTask'[u] = "new"
    <3>1. PICK j \in JobIds : ~Known(j) /\ itemTask' = [itemTask EXCEPT ![<<j, 1>>] = "new"]
      BY <1>2, <2>2, ClientMoves
    <3>2. u = <<j, 1>> /\ u[1] = j /\ itemTask'[u] = "new"
      BY <2>2, <3>1 DEF TypeOK
    <3>3. QED
      BY <3>1, <3>2 DEF TaskInv, Owned
  <2>3. QED
    BY <2>1, <2>2
<1>3. ASSUME NEW u \in Units, ItemStep(u) PROVE StatusInv'
  <2>1. published' = published /\ itemTask[u] \notin {"none", "done"}
    BY <1>3, ItemMoves
  <2>2. \A v \in Units \ {u} : UNCHANGED <<itemTask[v], itemStatus[v]>>
    BY <1>3, ItemMoves DEF TypeOK
  <2>3. ASSUME NEW x, NEW s, GoTo(u, x, s) PROVE itemTask'[u] = x /\ itemStatus'[u] = s
    BY <2>3 DEF GoTo, TypeOK
  <2>4. CASE Submit(u) \/ Submitted(u) \/ Interrupted(u)
    <3>1. \/ itemTask'[u] \in {"submit", "generate"} /\ itemStatus'[u] \in {"queued", "generating"}
          \/ itemTask'[u] = "done" /\ itemStatus'[u] = "failed"
      BY <2>3, <2>4 DEF Submit, Submitted, Interrupted
    <3>2. QED
      BY <2>1, <2>2, <3>1
  <2>5. CASE Generated(u)
    <3>1. \/ itemTask'[u] = "write" /\ itemStatus'[u] = "saving"
          \/ itemTask'[u] = "done" /\ itemStatus'[u] = "failed"
      BY <2>3, <2>5 DEF Generated, Disk, TypeOK
    <3>2. QED
      BY <2>1, <2>2, <3>1
  <2>6. CASE Saves(u) \/ Unwinds(u)
    <3>1. itemStatus' = itemStatus /\ itemTask'[u] \in DiskOps
      BY <2>6 DEF Saves, Unwinds, Disk, TypeOK, DiskOps
    <3>2. QED
      BY <2>1, <2>2, <3>1 DEF DiskOps
  <2>7. CASE Saved(u)
    <3>1. /\ itemTask'[u] = "done"
          /\ itemStatus'[u] = IF Fails(u) THEN "failed" ELSE "succeeded"
          /\ itemTask[u] = "dropStaging"
      BY <2>3, <2>7 DEF Saved
    <3>2. ~Fails(u) => published[u] = Images
      BY <3>1 DEF Fails, FileInv, FilesOf
    <3>3. QED
      BY <2>1, <2>2, <3>1, <3>2
  <2>8. QED
    BY <1>3, <2>4, <2>5, <2>6, <2>7 DEF ItemStep
<1>4. ASSUME NEW j \in JobIds, BatchStep(j) PROVE StatusInv'
  <2>1. published' = published
    BY <1>4, BatchMoves
  <2>2. ASSUME NEW u \in Units, itemTask'[u] # itemTask[u]
        PROVE  itemTask[u] = "none" /\ itemTask'[u] = "new"
    <3>1. /\ batchTask[j] = "new"
          /\ itemTask' = [v \in Units |-> IF v \in Items(j) THEN "new" ELSE itemTask[v]]
      BY <1>4, <2>2, BatchMoves
    <3>2. Known(j) /\ request[j].batch
      BY <3>1 DEF TaskInv
    <3>3. u \in Items(j) /\ u[1] = j /\ u[2] <= request[j].count
      BY <2>2, <3>1, <3>2, JobUnits
    <3>4. QED
      BY <3>1, <3>2, <3>3 DEF TaskInv, Owned, Alone
  <2>3. ASSUME NEW u \in Units, itemStatus'[u] # itemStatus[u]
        PROVE  itemStatus'[u] = "failed" /\ itemStatus[u] \notin Final
    BY <1>4, <2>3 DEF BatchStep, BatchStarts, BatchSubmitted, BatchGathered, BatchInterrupted, BatchUnwound,
                EndBatch, itemVars
  <2>4. QED
    BY <2>1, <2>2, <2>3
<1>5. ASSUME NEW u \in Units, NEW op \in DiskOps, ThreadEnds(u, op) PROVE StatusInv'
  <2>1. UNCHANGED <<itemTask, itemStatus>> /\ itemTask[u] \in DiskOps
    BY <1>5 DEF ThreadEnds, FileInv, FilesOf
  <2>2. \A v \in Units \ {u} : published'[v] = published[v]
    BY <1>5 DEF ThreadEnds, TypeOK
  <2>3. QED
    BY <2>1, <2>2 DEF DiskOps
<1>6. CASE CancelJobs
  <2>1. UNCHANGED <<itemTask, published>>
    BY <1>6 DEF CancelJobs, fileVars
  <2>2. \A u \in Units : itemStatus'[u] \in {itemStatus[u], "failed"}
    BY <1>6 DEF CancelJobs, MarkJobs
  <2>3. QED
    BY <2>1, <2>2
<1>7. CASE CancelUnbegun
  <2>1. \A u \in Units : itemStatus'[u] \in {itemStatus[u], "failed"}
    BY <1>7 DEF CancelUnbegun, MarkJobs
  <2>2. ASSUME NEW u \in Units, itemTask[u] = "new" PROVE itemStatus'[u] = "failed"
    <3>1. Owned(u) /\ u[1] \in JobIds
      BY <2>2 DEF TaskInv, Units
    <3>2. Alone(u)
      <4>1. batchTask[u[1]] \in {"none", "new", "done"}
        BY <1>7, <3>1, UnbegunMoves DEF StopInv
      <4>2. ~Alone(u) => batchTask[u[1]] # "none"
        BY <3>1 DEF TaskInv, Owned, Alone
      <4>3. QED
        BY <2>2, <3>1, <4>1, <4>2 DEF TaskInv
    <3>3. u[1] \in Live
      BY <2>2, <3>1, <3>2, LoneUnit DEF Live, TaskDone
    <3>4. QED
      BY <1>7, <3>2, <3>3 DEF CancelUnbegun, MarkJobs, Marked
  <2>3. QED
    BY <1>7, <2>1, <2>2, UnbegunMoves
<1>8. CASE StopAccepting \/ CoordinatorCloses \/ JobsClosed \/ Stopped \/ CoordinatorStep \/ UNCHANGED vars
  BY <1>1, <1>8 DEF StopAccepting, CoordinatorCloses, JobsClosed, Stopped, CoordinatorStep, vars,
                    itemVars, fileVars
<1>9. QED
  BY <1>2, <1>3, <1>4, <1>5, <1>6, <1>7, <1>8 DEF Next, Stop

LEMMA FreshKept ==
  ASSUME TypeOK, TaskInv, FreshInv, UnknownInv, [Next]_vars
  PROVE  FreshInv' /\ UnknownInv'
<1> USE DEF FreshInv, UnknownInv, Known, Alone
<1>0. \A u \in Units : u[1] \in JobIds
  BY DEF Units
<1>1. ASSUME request' = request,
             \A j \in JobIds : batchTask'[j] = "new" => batchTask[j] = "new",
             \A u \in Units : itemStatus'[u] # itemStatus[u] =>
               Known(u[1]) /\ (Alone(u) \/ batchTask'[u[1]] # "new")
      PROVE  FreshInv' /\ UnknownInv'
  BY <1>0, <1>1
<1>2. ASSUME NEW c \in Clients, ClientStep(c) PROVE FreshInv' /\ UnknownInv'
  <2>1. CASE UNCHANGED <<request, batchTask, itemStatus>>
    BY <1>1, <2>1
  <2>2. ASSUME NEW j \in JobIds, NEW r \in Requests, ~Known(j), itemStatus' = itemStatus,
               request' = [request EXCEPT ![j] = r],
               batchTask' = batchTask \/ batchTask' = [batchTask EXCEPT ![j] = "new"]
        PROVE  FreshInv' /\ UnknownInv'
    <3>1. ASSUME NEW u \in Units, u[1] = j PROVE itemStatus'[u] = "preparing"
      BY <2>2, <3>1
    <3>2. ASSUME NEW u \in Units, u[1] # j
          PROVE  request'[u[1]] = request[u[1]] /\ batchTask'[u[1]] = batchTask[u[1]]
      BY <1>0, <2>2, <3>2 DEF TypeOK
    <3>3. QED
      BY <2>2, <3>1, <3>2
  <2>3. QED
    BY <1>2, <2>1, <2>2, ClientMoves
<1>3. ASSUME NEW u \in Units, ItemStep(u) PROVE FreshInv' /\ UnknownInv'
  <2>1. UNCHANGED <<request, batchTask>> /\ itemTask[u] \notin {"none", "done"}
    BY <1>3, ItemMoves
  <2>2. \A v \in Units \ {u} : itemStatus'[v] = itemStatus[v]
    BY <1>3, ItemMoves DEF TypeOK
  <2>3. Known(u[1]) /\ (Alone(u) \/ batchTask[u[1]] # "new")
    BY <2>1 DEF TaskInv, Owned
  <2>4. QED
    BY <1>1, <2>1, <2>2, <2>3
<1>4. ASSUME NEW j \in JobIds, BatchStep(j) PROVE FreshInv' /\ UnknownInv'
  <2>1. /\ request' = request /\ Known(j) /\ request[j].batch
        /\ \A k \in JobIds : batchTask'[k] = "new" => batchTask[k] = "new" /\ k # j
    BY <1>4, BatchMoves DEF TypeOK, TaskInv
  <2>2. \A u \in Units : u \in Items(j) <=> u[1] = j /\ u[2] <= request[j].count
    BY <2>1, JobUnits
  <2>3. \A u \in Units : itemStatus'[u] # itemStatus[u] => u \in Items(j)
    BY <1>4 DEF BatchStep, BatchStarts, BatchSubmitted, BatchGathered, BatchInterrupted,
                BatchUnwound, EndBatch, itemVars
  <2>4. QED
    BY <1>1, <2>1, <2>2, <2>3
<1>5. CASE CancelJobs \/ CancelUnbegun
  <2>1. request' = request /\ \A j \in JobIds : batchTask'[j] = "new" => batchTask[j] = "new"
    BY <1>5 DEF CancelJobs, CancelUnbegun
  <2>2. \A u \in Units : itemStatus'[u] # itemStatus[u] => Known(u[1]) /\ Alone(u)
    BY <1>5 DEF CancelJobs, CancelUnbegun, MarkJobs, Marked, Live
  <2>3. QED
    BY <1>1, <2>1, <2>2
<1>6. ASSUME NEW u \in Units, NEW op \in DiskOps, ThreadEnds(u, op) PROVE FreshInv' /\ UnknownInv'
  BY <1>1, <1>6 DEF ThreadEnds, jobVars
<1>7. CASE StopAccepting \/ CoordinatorCloses \/ JobsClosed \/ Stopped \/ CoordinatorStep \/ UNCHANGED vars
  BY <1>1, <1>7 DEF StopAccepting, CoordinatorCloses, JobsClosed, Stopped, CoordinatorStep, vars,
                    itemVars, jobVars
<1>8. QED
  BY <1>2, <1>3, <1>4, <1>5, <1>6, <1>7 DEF Next, Stop

LEMMA CancelsKept ==
  ASSUME TypeOK, TaskInv, CancelInv, StopInv, [Next]_vars
  PROVE  CancelInv'
<1> USE DEF CancelInv
<1>0. JobIds \cap Units = {}
  BY MediaAssumption DEF Units
<1>1. ASSUME UNCHANGED <<cancelled, batchTask, itemTask>>, stop \in {"cancelling", "closed"} => stop' \in {"cancelling", "closed"}
      PROVE  CancelInv'
  BY <1>1
<1>2. ASSUME NEW c \in Clients, ClientStep(c) PROVE CancelInv'
  <2>1. CASE UNCHANGED <<cancelled, batchTask, itemTask, stop>>
    BY <1>1, <2>1
  <2>2. CASE ~Closing /\ UNCHANGED <<cancelled, stop>>
    <3>1. cancelled = {} /\ cancelled' = {} /\ \A j \in JobIds : batchTask[j] # "unwind"
      BY <2>2 DEF Closing
    <3>2. \A j \in JobIds : batchTask'[j] # "unwind"
      <4>1. CASE batchTask' = batchTask
        BY <3>1, <4>1
      <4>2. CASE \E j \in JobIds : batchTask' = [batchTask EXCEPT ![j] = "new"]
        BY <3>1, <4>2 DEF TypeOK
      <4>3. QED
        BY <1>2, <4>1, <4>2, ClientMoves
    <3>3. QED
      BY <2>2, <3>1, <3>2
  <2>3. QED
    BY <1>2, <2>1, <2>2, ClientMoves
<1>3. ASSUME NEW u \in Units, ItemStep(u) PROVE CancelInv'
  <2>1. UNCHANGED <<batchTask, stop>>
    BY <1>3, ItemMoves
  <2>2. \A v \in Units \ {u} : itemTask'[v] = itemTask[v]
    BY <1>3, ItemMoves DEF TypeOK
  <2>3. \/ cancelled' = cancelled \/ cancelled' = cancelled \ {u}
    BY <1>3 DEF ItemStep, Submit, Submitted, Generated, Interrupted, Saves, Unwinds, Saved
  <2>4. u \in cancelled' => itemTask'[u] \notin {"none", "new", "done"}
    <3>1. CASE Submit(u)
      BY <3>1 DEF Submit
    <3>2. CASE Submitted(u)
      BY <3>2 DEF Submitted
    <3>3. CASE Generated(u)
      BY <3>3 DEF Generated
    <3>4. CASE Interrupted(u) \/ Unwinds(u) \/ Saved(u)
      BY <3>4 DEF Interrupted, Unwinds, Saved
    <3>5. CASE Saves(u)
      BY <3>5 DEF Saves, Fails
    <3>6. QED
      BY <1>3, <3>1, <3>2, <3>3, <3>4, <3>5 DEF ItemStep
  <2>5. QED
    BY <1>0, <2>1, <2>2, <2>3, <2>4
<1>4. ASSUME NEW j \in JobIds, BatchStep(j) PROVE CancelInv'
  <2>0. /\ stop' = stop
        /\ \A k \in JobIds \ {j} : batchTask'[k] = batchTask[k]
        /\ Known(j) /\ request[j].batch
    BY <1>4, BatchMoves DEF TypeOK, TaskInv
  <2>1. \A u \in Units : u \in Items(j) <=> u[1] = j /\ u[2] <= request[j].count
    BY <2>0, JobUnits
  <2>2. CASE BatchStarts(j)
    <3>1. cancelled' = cancelled /\ batchTask[j] = "new" /\ batchTask'[j] \in {"first", "done"}
      BY <2>2 DEF BatchStarts, EndBatch, TypeOK
    <3>2. itemTask' = itemTask \/ Attended
      BY <2>2 DEF BatchStarts
    <3>3. Attended => cancelled = {}
      BY DEF Attended
    <3>4. j \notin cancelled
      BY <3>1
    <3>5. QED
      BY <1>0, <2>0, <3>1, <3>2, <3>3, <3>4
  <2>3. CASE BatchSubmitted(j)
    BY <2>0, <2>3 DEF BatchSubmitted, TypeOK, itemVars
  <2>4. CASE BatchGathered(j)
    <3>1. cancelled' = cancelled \ {j} /\ itemTask' = itemTask /\ batchTask'[j] = "done"
      BY <2>4 DEF BatchGathered, EndBatch, TypeOK
    <3>2. QED
      BY <1>0, <2>0, <3>1
  <2>5. CASE BatchInterrupted(j)
    <3>1. /\ cancelled' = (cancelled \ {j}) \cup {u \in Items(j) : itemTask[u] # "done"}
          /\ itemTask' = itemTask /\ batchTask'[j] = "unwind" /\ j \in cancelled
          /\ batchTask[j] = "first"
      BY <2>5 DEF BatchInterrupted, TypeOK, itemVars
    <3>2. stop \in {"cancelling", "closed"} /\ \A u \in Units : itemTask[u] # "new"
      BY <3>1 DEF StopInv
    <3>3. Items(j) \subseteq Units
      BY <2>0, JobUnits
    <3>4. \A u \in Items(j) : itemTask[u] # "none"
      BY <2>0, <2>1, <3>1, <3>3 DEF TaskInv, Owned, Alone
    <3>5. QED
      BY <1>0, <2>0, <3>1, <3>2, <3>3, <3>4
  <2>6. CASE BatchUnwound(j)
    <3>1. UNCHANGED <<cancelled, itemTask>> /\ batchTask'[j] = "done" /\ batchTask[j] = "unwind"
      BY <2>6 DEF BatchUnwound, EndBatch, TypeOK
    <3>2. QED
      BY <2>0, <3>1
  <2>7. QED
    BY <1>4, <2>2, <2>3, <2>4, <2>5, <2>6 DEF BatchStep
<1>5. ASSUME NEW u \in Units, NEW op \in DiskOps, ThreadEnds(u, op) PROVE CancelInv'
  BY <1>1, <1>5 DEF ThreadEnds, jobVars, stopVars
<1>6. CASE CancelJobs
  <2>1. /\ UNCHANGED <<batchTask, itemTask>> /\ stop' = "cancelling" /\ stop = "drained"
        /\ \A j \in JobIds : batchTask[j] # "new"
        /\ \A u \in Units : itemTask[u] # "new"
    BY <1>6 DEF CancelJobs
  <2>2. cancelled = {} /\ \A j \in JobIds : batchTask[j] # "unwind"
    BY <2>1
  <2>3. \A u \in Units : u \in cancelled' => itemTask[u] \notin {"none", "done"}
    BY <1>0, <1>6, <2>2 DEF CancelJobs, Live
  <2>4. \A j \in JobIds : j \in cancelled' => batchTask[j] \notin {"none", "done"}
    <3>1. ASSUME NEW j \in JobIds, j \in cancelled' PROVE j \in Live /\ request[j].batch
      BY <1>0, <1>6, <2>2, <3>1 DEF CancelJobs
    <3>2. QED
      BY <3>1 DEF Live, TaskDone, TaskInv
  <2>5. \A j \in JobIds : batchTask[j] \in {"none", "new", "first", "gather", "unwind", "done"}
    BY DEF TypeOK
  <2>6. QED
    BY <2>1, <2>2, <2>3, <2>4, <2>5
<1>7. CASE StopAccepting \/ CoordinatorCloses \/ JobsClosed \/ Stopped \/ CoordinatorStep \/ UNCHANGED vars
  BY <1>1, <1>7 DEF StopAccepting, CoordinatorCloses, JobsClosed, Stopped, CoordinatorStep, vars,
                    itemVars, jobVars, stopVars, Attended
<1>8. CASE CancelUnbegun
  <2>1. cancelled' = {} /\ \A j \in JobIds : batchTask'[j] # "unwind"
    BY <1>8, UnbegunMoves
  <2>2. QED
    BY <2>1
<1>9. QED
  BY <1>2, <1>3, <1>4, <1>5, <1>6, <1>7, <1>8 DEF Next, Stop

LEMMA TicketsKept ==
  ASSUME TypeOK, TaskInv, TicketInv, [Next]_vars
  PROVE  TicketInv'
<1> USE DEF TicketInv, Owned, Known, Alone
<1>0. \A u \in Units : u = <<u[1], u[2]>> /\ u[1] \in JobIds /\ u[2] \in 1 .. MaxItems
  BY DEF Units
<1>1. ASSUME request' = request,
             \A u \in Units : ticket[u] = "none" => ticket'[u] = "none",
             \A u \in Units : itemTask'[u] = "new" => itemTask[u] = "new" \/ ~Alone(u),
             \A j \in JobIds : batchTask'[j] = "new" => batchTask[j] = "new"
      PROVE  TicketInv'
  BY <1>0, <1>1
<1>2. ASSUME NEW c \in Clients, ClientStep(c) PROVE TicketInv'
  <2>1. SUFFICES ASSUME NEW j \in JobIds, NEW r \in Requests,
                        ~Known(j), request' = [request EXCEPT ![j] = r], ticket' = ticket,
                        IF r.batch THEN /\ batchTask' = [batchTask EXCEPT ![j] = "new"]
                                        /\ itemTask' = itemTask
                                   ELSE /\ itemTask' = [itemTask EXCEPT ![<<j, 1>>] = "new"]
                                        /\ batchTask' = batchTask
                 PROVE  TicketInv'
    BY <1>1, <1>2, ClientMoves
  <2>2. ASSUME NEW u \in Units
        PROVE  /\ ticket'[u] # "none" => Owned(u)'
               /\ Owned(u)' /\ Alone(u)' /\ itemTask'[u] = "new" => ticket'[u] = "none"
               /\ Owned(u)' /\ ~Alone(u)' /\ batchTask'[u[1]] = "new" => ticket'[u] = "none"
    <3>1. CASE u[1] = j
      BY <2>1, <3>1
    <3>2. CASE u[1] # j
      <4>1. /\ request'[u[1]] = request[u[1]] /\ itemTask'[u] = itemTask[u]
            /\ batchTask'[u[1]] = batchTask[u[1]]
        BY <1>0, <2>1, <3>2 DEF TypeOK
      <4>2. QED
        BY <2>1, <4>1
    <3>3. QED
      BY <3>1, <3>2
  <2>3. QED
    BY <2>2
<1>3. ASSUME NEW u \in Units, ItemStep(u) PROVE TicketInv'
  <2>1. UNCHANGED <<request, batchTask>> /\ itemTask[u] \notin {"none", "done"}
    BY <1>3, ItemMoves
  <2>2. /\ itemTask'[u] # "new"
        /\ \A v \in Units \ {u} : itemTask'[v] = itemTask[v]
    <3>1. PICK x \in DiskOps \cup {"submit", "generate", "done"} :
            itemTask' = [itemTask EXCEPT ![u] = x]
      BY <1>3, ItemMoves
    <3>2. QED
      BY <3>1 DEF TypeOK, DiskOps
  <2>3. \A v \in Units \ {u} : ticket[v] = "none" => ticket'[v] = "none"
    BY <1>3 DEF ItemStep, Submit, Submitted, Generated, Interrupted, Saves, Unwinds, Saved, Withdrawn,
                TypeOK
  <2>4. CASE Submit(u) /\ Alone(u)
    <3>1. itemTask[u] = "new" /\ Owned(u)
      BY <2>4 DEF Submit, TaskInv
    <3>2. QED
      BY <1>0, <2>1, <2>2, <2>3, <2>4, <3>1
  <2>5. CASE ~(Submit(u) /\ Alone(u))
    <3>1. ticket[u] = "none" => ticket'[u] = "none"
      BY <1>3, <2>5
         DEF ItemStep, Submit, Submitted, Generated, Interrupted, Saves, Unwinds, Saved, Withdrawn
    <3>2. QED
      BY <1>1, <2>1, <2>2, <2>3, <3>1
  <2>6. QED
    BY <2>4, <2>5
<1>4. ASSUME NEW j \in JobIds, BatchStep(j) PROVE TicketInv'
  <2>0. /\ request' = request /\ Known(j) /\ request[j].batch
        /\ \A k \in JobIds : batchTask'[k] = "new" => batchTask[k] = "new" /\ k # j
    BY <1>4, BatchMoves DEF TypeOK, TaskInv
  <2>1. \A u \in Units : u \in Items(j) <=> u[1] = j /\ u[2] <= request[j].count
    BY <2>0, JobUnits
  <2>2. \A u \in Units : itemTask'[u] = "new" => itemTask[u] = "new" \/ u[1] = j
    BY <1>4, <2>1, BatchMoves
  <2>3. \A u \in Units : ticket[u] = "none" => ticket'[u] = "none" \/ u \in Items(j)
    BY <1>4 DEF BatchStep, BatchStarts, BatchSubmitted, BatchGathered, BatchInterrupted, BatchUnwound,
                Withdrawn, TypeOK
  <2>4. QED
    BY <1>0, <2>0, <2>1, <2>2, <2>3
<1>5. ASSUME NEW u \in Units, NEW op \in DiskOps, ThreadEnds(u, op) PROVE TicketInv'
  BY <1>1, <1>5 DEF ThreadEnds, jobVars
<1>6. CASE (Stop \/ Stopped \/ CoordinatorStep \/ UNCHANGED vars) /\ ~CancelUnbegun
  <2>1. \A u \in Units : ticket[u] = "none" => ticket'[u] = "none"
    BY <1>6 DEF Stop, StopAccepting, CoordinatorCloses, CancelJobs, JobsClosed, Stopped, Withdrawn,
                CoordinatorStep, TicketRuns, TicketEnds, vars, TypeOK
  <2>2. QED
    BY <1>1, <1>6, <2>1, StopMoves
<1>7. CASE CancelUnbegun
  BY <1>1, <1>7, UnbegunMoves
<1>8. QED
  BY <1>2, <1>3, <1>4, <1>5, <1>6, <1>7 DEF Next, Stop

\* Jobs end for good, and none begins but by a request that is admitted.
LEMMA LiveMoves ==
  ASSUME TypeOK, TaskInv, [Next]_vars
  PROVE  \/ request' = request /\ Live' \subseteq Live
         \/ \E j \in JobIds, r \in Requests :
              /\ ~Closing /\ ~Known(j) /\ Admits(r)
              /\ request' = [request EXCEPT ![j] = r]
              /\ Live' \subseteq Live \cup {j}
              /\ UNCHANGED <<awaited, stop>>
<1> USE DEF Known, TaskDone
<1>1. ASSUME request' = request,
             \A j \in JobIds : Known(j) /\ TaskDone(j) => TaskDone(j)'
      PROVE  Live' \subseteq Live
  BY <1>1 DEF Live
<1>2. ASSUME UNCHANGED <<request, batchTask, itemTask>> PROVE Live' \subseteq Live
  BY <1>2 DEF Live
<1>3. ASSUME NEW c \in Clients, ClientStep(c),
             ~(\E j \in JobIds, r \in Requests :
                 /\ ~Closing /\ ~Known(j) /\ Admits(r)
                 /\ request' = [request EXCEPT ![j] = r]
                 /\ Live' \subseteq Live \cup {j}
                 /\ UNCHANGED <<awaited, stop>>)
      PROVE  request' = request /\ Live' \subseteq Live
  <2>1. ASSUME NEW j \in JobIds, NEW r \in Requests,
               ~Known(j), request' = [request EXCEPT ![j] = r],
               IF r.batch THEN /\ batchTask' = [batchTask EXCEPT ![j] = "new"]
                               /\ itemTask' = itemTask
                          ELSE /\ itemTask' = [itemTask EXCEPT ![<<j, 1>>] = "new"]
                               /\ batchTask' = batchTask
        PROVE  Live' \subseteq Live \cup {j}
    <3>1. ASSUME NEW k \in JobIds, k # j PROVE k \in Live' => k \in Live
      <4>1. <<k, 1>> \in Units /\ <<j, 1>> \in Units /\ <<k, 1>> # <<j, 1>>
        BY <3>1, MediaAssumption DEF Units
      <4>2. /\ request'[k] = request[k] /\ batchTask'[k] = batchTask[k]
            /\ itemTask'[<<k, 1>>] = itemTask[<<k, 1>>]
        BY <2>1, <3>1, <4>1 DEF TypeOK
      <4>3. QED
        BY <4>2 DEF Live
    <3>2. QED
      BY <3>1 DEF Live
  <2>2. QED
    BY <1>2, <1>3, <2>1, ClientMoves
<1>4. ASSUME NEW u \in Units, ItemStep(u) PROVE request' = request /\ Live' \subseteq Live
  <2>1. UNCHANGED <<request, batchTask>> /\ itemTask[u] # "done"
    BY <1>4, ItemMoves
  <2>2. ASSUME NEW v \in Units, itemTask[v] = "done" PROVE itemTask'[v] = "done"
    BY <1>4, <2>1, <2>2, ItemMoves DEF TypeOK
  <2>3. \A j \in JobIds : Known(j) => <<j, 1>> \in Units
    BY JobUnits
  <2>4. QED
    BY <1>1, <2>1, <2>2, <2>3
<1>5. ASSUME NEW j \in JobIds, BatchStep(j) PROVE request' = request /\ Live' \subseteq Live
  <2>0. /\ request' = request /\ Known(j) /\ request[j].batch
        /\ batchTask[j] # "done" /\ \A k \in JobIds \ {j} : batchTask'[k] = batchTask[k]
    BY <1>5, BatchMoves DEF TypeOK, TaskInv
  <2>1. \A u \in Units : u \in Items(j) <=> u[1] = j /\ u[2] <= request[j].count
    BY <2>0, JobUnits
  <2>2. ASSUME NEW k \in JobIds, Known(k), ~request[k].batch
        PROVE  itemTask'[<<k, 1>>] = itemTask[<<k, 1>>]
    <3>1. k # j /\ <<k, 1>> \in Units /\ <<k, 1>>[1] = k
      BY <2>0, <2>2, JobUnits
    <3>2. <<k, 1>> \notin Items(j)
      BY <2>1, <3>1
    <3>3. QED
      BY <1>5, <3>1, <3>2, BatchMoves
  <2>3. QED
    BY <1>1, <2>0, <2>2
<1>6. ASSUME NEW u \in Units, NEW op \in DiskOps, ThreadEnds(u, op)
      PROVE  request' = request /\ Live' \subseteq Live
  BY <1>2, <1>6 DEF ThreadEnds, jobVars
<1>7. CASE (Stop \/ Stopped \/ CoordinatorStep \/ UNCHANGED vars) /\ ~CancelUnbegun
  BY <1>2, <1>7, StopMoves
<1>8. CASE CancelUnbegun
  <2>1. \A j \in JobIds : Known(j) => <<j, 1>> \in Units
    BY JobUnits
  <2>2. QED
    BY <1>1, <1>8, <2>1, UnbegunMoves
<1>9. QED
  BY <1>3, <1>4, <1>5, <1>6, <1>7, <1>8 DEF Next, Stop

LEMMA StopKept ==
  ASSUME TypeOK, TaskInv, StopInv, [Next]_vars
  PROVE  StopInv'
<1>1. ASSUME Live' \subseteq Live, UNCHANGED <<awaited, stop>>,
             stop # "serving" =>
               /\ \A j \in JobIds : \/ batchTask'[j] = batchTask[j]
                                    \/ batchTask'[j] # "new" /\ stop # "unattended"
                                    \/ batchTask'[j] = "done"
               /\ \A u \in Units : \/ itemTask'[u] = itemTask[u]
                                   \/ itemTask'[u] # "new" /\ stop # "unattended"
                                   \/ itemTask'[u] = "done"
      PROVE  StopInv'
  BY <1>1 DEF StopInv
<1>2. ASSUME NEW c \in Clients, ClientStep(c) PROVE StopInv'
  <2>1. CASE UNCHANGED <<request, batchTask, itemTask, awaited, stop>>
    BY <1>1, <2>1 DEF Live, Known, TaskDone
  <2>2. ASSUME NEW j \in JobIds, ~Closing, stop' = stop,
               batchTask' = batchTask \/ batchTask' = [batchTask EXCEPT ![j] = "new"],
               itemTask' = itemTask \/ itemTask' = [itemTask EXCEPT ![<<j, 1>>] = "new"]
        PROVE  StopInv'
    BY <2>2 DEF Closing, StopInv, TypeOK
  <2>3. QED
    BY <1>2, <2>1, <2>2, ClientMoves
<1>3. ASSUME NEW u \in Units, ItemStep(u) PROVE StopInv'
  <2>1. PICK x \in DiskOps \cup {"submit", "generate", "done"} : itemTask' = [itemTask EXCEPT ![u] = x]
    BY <1>3, ItemMoves
  <2>2. UNCHANGED <<batchTask, awaited, stop, request>>
    BY <1>3, ItemMoves
  <2>3. Live' \subseteq Live
    <3>1. ~(\E j \in JobIds, r \in Requests : ~Known(j) /\ request' = [request EXCEPT ![j] = r])
      BY <2>2, MediaAssumption DEF Known, TypeOK, Requests
    <3>2. QED
      BY <1>3, <3>1, LiveMoves DEF Next
  <2>4. itemTask'[u] = x /\ \A v \in Units \ {u} : itemTask'[v] = itemTask[v]
    BY <2>1 DEF TypeOK
  <2>5. x # "new"
    BY DEF DiskOps
  <2>6. ASSUME stop = "unattended" PROVE x = "done"
    <3>1. itemTask[u] = "new"
      BY <1>3, <2>6, ItemMoves DEF StopInv
    <3>2. Submit(u)
      BY <1>3, <3>1
         DEF ItemStep, Submitted, Generated, Interrupted, Saves, Unwinds, Saved, DiskOps, Fails
    <3>3. Alone(u)
      <4>1. Owned(u) /\ u[1] \in JobIds
        BY <3>1 DEF TaskInv, Units
      <4>2. batchTask[u[1]] \in {"none", "new", "done"}
        BY <2>6, <4>1 DEF StopInv
      <4>3. ~Alone(u) => batchTask[u[1]] # "none"
        BY <4>1 DEF TaskInv, Owned, Alone
      <4>4. QED
        BY <3>1, <4>1, <4>2, <4>3 DEF TaskInv
    <3>4. itemTask' = [itemTask EXCEPT ![u] = "done"]
      BY <2>6, <3>2, <3>3 DEF Submit, GoTo, Attended
    <3>5. QED
      BY <2>1, <3>4 DEF TypeOK
  <2>7. QED
    BY <1>1, <2>2, <2>3, <2>4, <2>5, <2>6
<1>4. ASSUME NEW j \in JobIds, BatchStep(j) PROVE StopInv'
  <2>1. UNCHANGED <<awaited, stop, request>>
    BY <1>4, BatchMoves
  <2>2. Live' \subseteq Live
    <3>1. ~(\E k \in JobIds, r \in Requests : ~Known(k) /\ request' = [request EXCEPT ![k] = r])
      BY <2>1, MediaAssumption DEF Known, TypeOK, Requests
    <3>2. QED
      BY <1>4, <3>1, LiveMoves DEF Next
  <2>3. ASSUME stop # "serving"
        PROVE  /\ itemTask' = itemTask
               /\ \E x \in {"gather", "unwind", "done"} :
                    /\ batchTask' = [batchTask EXCEPT ![j] = x]
                    /\ batchTask[j] = "new" => x = "done"
    BY <1>4, <2>3, BatchMoves DEF Attended
  <2>4. stop = "unattended" => batchTask[j] = "new"
    BY <1>4, BatchMoves DEF StopInv
  <2>5. stop # "serving" => \A k \in JobIds : \/ batchTask'[k] = batchTask[k]
                                              \/ batchTask'[k] # "new" /\ stop # "unattended"
                                              \/ batchTask'[k] = "done"
    BY <2>3, <2>4 DEF TypeOK
  <2>6. QED
    BY <1>1, <2>1, <2>2, <2>3, <2>5
<1>5. ASSUME NEW u \in Units, NEW op \in DiskOps, ThreadEnds(u, op) PROVE StopInv'
  BY <1>5 DEF ThreadEnds, jobVars, stopVars, StopInv, Live, Known, TaskDone
<1>6. CASE Stopped \/ CoordinatorStep \/ UNCHANGED vars
  BY <1>6, StopMoves DEF Stopped, CoordinatorStep, vars, jobVars, itemVars, stopVars, StopInv, Live,
                         Known, TaskDone
<1>7. CASE StopAccepting \/ CoordinatorCloses
  BY <1>7 DEF StopAccepting, CoordinatorCloses, StopInv
<1>a. CASE CancelUnbegun
  <2>1. request' = request
    BY <1>a, UnbegunMoves
  <2>2. Live' \subseteq Live
    <3>1. ~(\E k \in JobIds, r \in Requests : ~Known(k) /\ request' = [request EXCEPT ![k] = r])
      BY <2>1, MediaAssumption DEF Known, TypeOK, Requests
    <3>2. QED
      BY <1>a, <3>1, LiveMoves DEF Next, Stop
  <2>3. QED
    BY <1>a, <2>2, UnbegunMoves DEF StopInv
<1>8. CASE CancelJobs
  <2>1. UNCHANGED <<request, batchTask, itemTask>> /\ awaited' = Live /\ stop' = "cancelling"
    BY <1>8 DEF CancelJobs, MarkJobs
  <2>2. Live' = Live
    BY <2>1 DEF Live, Known, TaskDone
  <2>3. QED
    BY <1>8, <2>1, <2>2 DEF CancelJobs, StopInv
<1>9. CASE JobsClosed
  <2>1. /\ UNCHANGED <<request, batchTask, itemTask, awaited>> /\ stop' = "closed"
        /\ stop = "cancelling" /\ \A j \in awaited : TaskDone(j)
    BY <1>9 DEF JobsClosed, jobVars, itemVars
  <2>2. Live' = Live
    BY <2>1 DEF Live, Known, TaskDone
  <2>3. Live = {}
    BY <2>1 DEF StopInv, Live
  <2>4. QED
    BY <2>1, <2>2, <2>3 DEF StopInv
<1>10. QED
  BY <1>2, <1>3, <1>4, <1>5, <1>6, <1>7, <1>8, <1>9, <1>a DEF Next, Stop

\* A batch that ended, and its images, are not changed.
LEMMA VerdictStays ==
  ASSUME TypeOK, TaskInv, [Next]_vars,
         NEW j \in JobIds, Known(j)', request'[j].batch, batchTask[j] = "done"
  PROVE  /\ request'[j] = request[j] /\ Items(j)' = Items(j) /\ status'[j] = status[j]
         /\ \A u \in Items(j) : itemStatus'[u] = itemStatus[u] /\ itemTask'[u] = itemTask[u]
         /\ Closing => Closing'
<1>0. Known(j) /\ request[j].batch
  BY DEF TaskInv
<1>1. request'[j] = request[j] /\ Items(j)' = Items(j)
  <2>1. request'[j] = request[j]
    BY <1>0, LiveMoves DEF TypeOK
  <2>2. QED
    BY <2>1 DEF Items
<1>2. \A u \in Units : u \in Items(j) <=> u[1] = j /\ u[2] <= request[j].count
  BY <1>0, JobUnits
<1>3. Items(j) \subseteq Units
  BY <1>0, JobUnits
<1>4. ASSUME NEW u \in Items(j) PROVE ~Alone(u) /\ itemTask[u] \in {"none", "done"}
  <2>1. u \in Units /\ u[1] = j /\ Owned(u) /\ ~Alone(u)
    BY <1>0, <1>2, <1>3, <1>4 DEF Owned, Alone
  <2>2. QED
    BY <2>1 DEF TaskInv
<1>5. ASSUME UNCHANGED <<status, itemStatus, itemTask>>, Closing => Closing'
      PROVE  /\ status'[j] = status[j]
             /\ \A u \in Items(j) : itemStatus'[u] = itemStatus[u] /\ itemTask'[u] = itemTask[u]
             /\ Closing => Closing'
  BY <1>5
<1>6. /\ status'[j] = status[j]
      /\ \A u \in Items(j) : itemStatus'[u] = itemStatus[u] /\ itemTask'[u] = itemTask[u]
      /\ Closing => Closing'
  <2>1. ASSUME NEW c \in Clients, ClientStep(c)
        PROVE  /\ UNCHANGED <<status, itemStatus, stop>>
               /\ \A u \in Items(j) : itemTask'[u] = itemTask[u]
    <3>1. UNCHANGED <<status, itemStatus, stop>>
      BY <2>1, ClientMoves
    <3>2. ASSUME NEW u \in Items(j) PROVE itemTask'[u] = itemTask[u]
      <4>1. itemTask' = itemTask \/ \E k \in JobIds : ~Known(k) /\ itemTask' = [itemTask EXCEPT ![<<k, 1>>] = "new"]
        BY <2>1, ClientMoves
      <4>2. u \in Units /\ u[1] = j
        BY <1>2, <1>3, <3>2
      <4>3. \A k \in JobIds : ~Known(k) => <<k, 1>> # u
        BY <1>0, <4>2
      <4>4. QED
        BY <4>1, <4>2, <4>3 DEF TypeOK
    <3>3. QED
      BY <3>1, <3>2
  <2>2. CASE \E u \in Units : ItemStep(u)
    <3>1. PICK u \in Units : ItemStep(u)
      BY <2>2
    <3>2. UNCHANGED <<status, stop>> /\ itemTask[u] \notin {"none", "done"}
      BY <3>1, ItemMoves
    <3>3. u \notin Items(j)
      BY <1>4, <3>2
    <3>4. \A v \in Units \ {u} : itemStatus'[v] = itemStatus[v] /\ itemTask'[v] = itemTask[v]
      BY <3>1, ItemMoves DEF TypeOK
    <3>5. QED
      BY <1>3, <3>2, <3>3, <3>4 DEF Closing
  <2>3. CASE \E k \in JobIds : BatchStep(k)
    <3>1. PICK k \in JobIds : BatchStep(k)
      BY <2>3
    <3>2. stop' = stop /\ k # j /\ Known(k)
      BY <3>1, BatchMoves DEF TaskInv
    <3>3. status'[j] = status[j]
      BY <3>1, <3>2 DEF BatchStep, BatchStarts, BatchSubmitted, BatchGathered, BatchInterrupted,
                        BatchUnwound, EndBatch, TypeOK
    <3>4. ASSUME NEW u \in Items(j) PROVE itemStatus'[u] = itemStatus[u] /\ itemTask'[u] = itemTask[u]
      <4>1. u \in Units /\ u[1] = j
        BY <1>2, <1>3, <3>4
      <4>2. u \notin Items(k)
        BY <3>2, <4>1, JobUnits
      <4>3. itemTask'[u] = itemTask[u]
        BY <3>1, <4>1, <4>2, BatchMoves
      <4>4. itemStatus'[u] = itemStatus[u]
        BY <3>1, <4>1, <4>2 DEF BatchStep, BatchStarts, BatchSubmitted, BatchGathered,
                                BatchInterrupted, BatchUnwound, EndBatch, itemVars
      <4>5. QED
        BY <4>3, <4>4
    <3>5. QED
      BY <3>2, <3>3, <3>4 DEF Closing
  <2>4. CASE \E u \in Units, op \in DiskOps : ThreadEnds(u, op)
    BY <1>5, <2>4 DEF ThreadEnds, jobVars, stopVars, Closing
  <2>5. CASE CancelJobs \/ CancelUnbegun
    <3>1. j \notin Live
      BY <1>0 DEF Live, TaskDone
    <3>2. status'[j] = status[j] /\ Closing'
      BY <2>5, <3>1 DEF CancelJobs, CancelUnbegun, MarkJobs, Marked, Closing
    <3>3. ASSUME NEW u \in Items(j) PROVE itemStatus'[u] = itemStatus[u] /\ itemTask'[u] = itemTask[u]
      BY <1>3, <1>4, <2>5, <3>3 DEF CancelJobs, CancelUnbegun, MarkJobs
    <3>4. QED
      BY <3>2, <3>3
  <2>6. CASE StopAccepting \/ CoordinatorCloses \/ JobsClosed \/ Stopped \/ CoordinatorStep
             \/ UNCHANGED vars
    BY <1>5, <2>6 DEF StopAccepting, CoordinatorCloses, JobsClosed, Stopped, CoordinatorStep, vars,
                      jobVars, itemVars, stopVars, Closing
  <2>7. QED
    BY <2>1, <2>2, <2>3, <2>4, <2>5, <2>6 DEF Next, Stop, Closing
<1>7. QED
  BY <1>1, <1>6

\* A batch ends with a verdict that sums its images up.
LEMMA BatchEnds ==
  ASSUME TypeOK, TaskInv, StatusInv, CancelInv, [Next]_vars, ~CancelUnbegun,
         NEW j \in JobIds, Known(j)', request'[j].batch,
         batchTask[j] # "done", batchTask'[j] = "done"
  PROVE  /\ status'[j] \in Final \cup {"partial"}
         /\ \A u \in Items(j)' : itemStatus'[u] \in Final
         /\ VerdictOf(j)'
<1>1. BatchStep(j)
  <2>1. ASSUME NEW k \in JobIds, BatchStep(k) PROVE k = j
    BY <2>1, BatchMoves DEF TypeOK
  <2>2. ASSUME NEW c \in Clients, ClientStep(c) PROVE FALSE
    <3>1. batchTask' = batchTask \/ \E k \in JobIds : batchTask' = [batchTask EXCEPT ![k] = "new"]
      BY <2>2, ClientMoves
    <3>2. batchTask'[j] \in {batchTask[j], "new"}
      BY <3>1 DEF TypeOK
    <3>3. QED
      BY <3>2
  <2>3. ASSUME NEW u \in Units, ItemStep(u) PROVE FALSE
    BY <2>3, ItemMoves
  <2>4. ASSUME NEW u \in Units, NEW op \in DiskOps, ThreadEnds(u, op) PROVE FALSE
    BY <2>4 DEF ThreadEnds, jobVars
  <2>5. CASE Stop \/ Stopped \/ CoordinatorStep \/ UNCHANGED vars
    BY <2>5, StopMoves
  <2>6. QED
    BY <2>1, <2>2, <2>3, <2>4, <2>5 DEF Next
<1>2. Known(j) /\ request[j].batch /\ request' = request
  BY <1>1, BatchMoves DEF Known
<1>3. Items(j)' = Items(j) /\ Items(j) \subseteq Units
  BY <1>2, JobUnits DEF Items
<1>4. stop' = stop
  BY <1>1, BatchMoves
<1>5. ASSUME NEW s, EndBatch(j, s)
      PROVE  /\ status'[j] = s
             /\ \A u \in Items(j) :
                  itemStatus'[u] = IF itemStatus[u] \notin Final THEN "failed" ELSE itemStatus[u]
  BY <1>3, <1>5 DEF EndBatch, TypeOK
<1>6. ASSUME NEW s \in Final \cup {"partial"}, EndBatch(j, s)
      PROVE  /\ status'[j] \in Final \cup {"partial"}
             /\ \A u \in Items(j) : itemStatus'[u] \in Final
             /\ \A u \in Items(j) : itemStatus'[u] = "succeeded" <=> itemStatus[u] = "succeeded"
  BY <1>5, <1>6 DEF Final
<1>7. ASSUME EndBatch(j, "failed"), Closing \/ \A u \in Items(j) : itemStatus[u] # "succeeded"
      PROVE  /\ status'[j] \in Final \cup {"partial"}
             /\ \A u \in Items(j)' : itemStatus'[u] \in Final
             /\ VerdictOf(j)'
  <2>1. status'[j] = "failed"
    BY <1>5, <1>7
  <2>2. QED
    BY <1>3, <1>4, <1>6, <1>7, <2>1 DEF VerdictOf, Closing, Final
<1>8. CASE BatchStarts(j)
  <2>1. batchTask[j] = "new" /\ EndBatch(j, "failed")
    <3>1. ~(batchTask' = [batchTask EXCEPT ![j] = "first"])
      BY DEF TypeOK
    <3>2. QED
      BY <1>8, <3>1 DEF BatchStarts
  <2>2. ASSUME NEW u \in Items(j) PROVE itemTask[u] = "none"
    <3>1. u \in Units /\ u[1] = j /\ u[2] <= request[j].count
      BY <1>2, <1>3, <2>2, JobUnits
    <3>2. Owned(u) /\ ~Alone(u) /\ batchTask[u[1]] = "new"
      BY <1>2, <2>1, <3>1 DEF Owned, Alone
    <3>3. QED
      BY <3>1, <3>2 DEF TaskInv
  <2>3. QED
    BY <1>3, <1>7, <2>1, <2>2 DEF StatusInv
<1>9. CASE BatchGathered(j)
  <2>1. /\ ItemsDone(j)
        /\ EndBatch(j, IF j \in cancelled \/ Closing THEN "failed" ELSE Verdict(j))
    BY <1>9 DEF BatchGathered
  <2>2. CASE j \in cancelled \/ Closing
    <3>1. Closing
      BY <2>2 DEF CancelInv, Closing
    <3>2. QED
      BY <1>7, <2>1, <2>2, <3>1
  <2>3. CASE ~(j \in cancelled \/ Closing)
    <3>1. EndBatch(j, Verdict(j)) /\ Verdict(j) \in Final \cup {"partial"}
      BY <2>1, <2>3 DEF Verdict, Final
    <3>2. status'[j] = Verdict(j)
      BY <1>5, <3>1
    <3>3. \A u \in Items(j) : itemStatus'[u] = "succeeded" <=> itemStatus[u] = "succeeded"
      BY <1>6, <3>1
    <3>4. VerdictOf(j)'
      BY <1>3, <3>2, <3>3 DEF VerdictOf, Verdict
    <3>5. QED
      BY <1>3, <1>6, <3>1, <3>4
  <2>4. QED
    BY <2>2, <2>3
<1>10. CASE BatchUnwound(j)
  BY <1>7, <1>10 DEF BatchUnwound, CancelInv, Closing
<1>11. CASE BatchSubmitted(j) \/ BatchInterrupted(j)
  BY <1>11 DEF BatchSubmitted, BatchInterrupted, TypeOK
<1>12. QED
  BY <1>1, <1>8, <1>9, <1>10, <1>11 DEF BatchStep

\* A batch that is cancelled before it began ends without touching its images.
LEMMA UnbegunEnds ==
  ASSUME TypeOK, TaskInv, FreshInv, CancelUnbegun,
         NEW j \in JobIds, Known(j), request[j].batch,
         batchTask[j] # "done", batchTask'[j] = "done"
  PROVE  /\ request' = request /\ Items(j)' = Items(j)
         /\ status'[j] = "failed" /\ NeverBegan(j)' /\ VerdictOf(j)'
<1>1. request' = request /\ Items(j)' = Items(j) /\ batchTask[j] = "new" /\ Closing'
  BY UnbegunMoves DEF Items, Closing
<1>2. status'[j] = "failed"
  <2>1. j \in Live
    BY DEF Live, TaskDone
  <2>2. QED
    BY <2>1 DEF CancelUnbegun, MarkJobs, Marked
<1>3. ASSUME NEW u \in Items(j) PROVE itemTask'[u] = "none" /\ itemStatus'[u] = "preparing"
  <2>1. u \in Units /\ u[1] = j /\ Owned(u) /\ ~Alone(u)
    BY <1>3, JobUnits DEF Owned, Alone
  <2>2. itemTask[u] = "none" /\ itemStatus[u] = "preparing"
    BY <1>1, <2>1 DEF TaskInv, FreshInv
  <2>3. QED
    BY <2>1, <2>2, UnbegunMoves DEF CancelUnbegun, MarkJobs
<1>4. NeverBegan(j)'
  BY <1>1, <1>2, <1>3 DEF NeverBegan
<1>5. QED
  BY <1>1, <1>2, <1>4 DEF VerdictOf

LEMMA EndsKept ==
  ASSUME TypeOK, TaskInv, StatusInv, FreshInv, EndInv, VerdictInv, CancelInv, [Next]_vars
  PROVE  EndInv' /\ VerdictInv'
<1> SUFFICES ASSUME NEW j \in JobIds, Known(j)', request'[j].batch, batchTask'[j] = "done"
             PROVE  /\ status'[j] \in Final \cup {"partial"}
                    /\ (\A u \in Items(j)' : itemStatus'[u] \in Final) \/ NeverBegan(j)'
                    /\ VerdictOf(j)'
  BY DEF EndInv, VerdictInv
<1>1. CASE batchTask[j] # "done" /\ ~CancelUnbegun
  BY <1>1, BatchEnds
<1>3. CASE batchTask[j] # "done" /\ CancelUnbegun
  <2>1. Known(j) /\ request[j].batch
    BY <1>3, UnbegunMoves DEF Known
  <2>2. QED
    BY <1>3, <2>1, UnbegunEnds DEF Final
<1>2. CASE batchTask[j] = "done"
  <2>0. Known(j) /\ request[j].batch
    BY <1>2 DEF TaskInv
  <2>1. /\ Items(j)' = Items(j) /\ status'[j] = status[j] /\ (Closing => Closing')
        /\ \A u \in Items(j) : itemStatus'[u] = itemStatus[u] /\ itemTask'[u] = itemTask[u]
    BY <1>2, VerdictStays
  <2>2. /\ status[j] \in Final \cup {"partial"}
        /\ (\A u \in Items(j) : itemStatus[u] \in Final) \/ NeverBegan(j)
    BY <1>2, <2>0 DEF EndInv
  <2>3. NeverBegan(j) => NeverBegan(j)'
    BY <2>1 DEF NeverBegan
  <2>4. VerdictOf(j)
    BY <1>2, <2>0 DEF VerdictInv
  <2>5. VerdictOf(j)'
    BY <2>1, <2>4 DEF VerdictOf
  <2>6. QED
    BY <2>1, <2>2, <2>3, <2>5
<1>4. QED
  BY <1>1, <1>2, <1>3

-----------------------------------------------------------------------------
(* What a step never takes back.                                           *)

\* An image that has, or had, its place in the FIFO gets no other.
LEMMA TicketMoves ==
  ASSUME TypeOK, TaskInv, TicketInv, [Next]_vars, NEW u \in Units, ticket[u] # "none"
  PROVE  ticket'[u] \notin {"none", "queued"} \/ ticket'[u] = ticket[u]
<1>0. Owned(u) /\ u[1] \in JobIds
  BY DEF TicketInv, Units
<1>1. ASSUME NEW us, ticket' = Withdrawn(us)
      PROVE  ticket'[u] \notin {"none", "queued"} \/ ticket'[u] = ticket[u]
  BY <1>1 DEF Withdrawn
<1>2. ASSUME NEW c \in Clients, ClientStep(c) PROVE ticket' = ticket
  BY <1>2, ClientMoves
<1>3. CASE CoordinatorStep
  BY <1>3 DEF CoordinatorStep, TicketRuns, TicketEnds, TypeOK
<1>4. ASSUME NEW v \in Units, ItemStep(v)
      PROVE  ticket'[u] \notin {"none", "queued"} \/ ticket'[u] = ticket[u]
  <2>1. CASE Submit(v)
    <3>1. CASE v = u /\ Alone(u)
      BY <1>0, <2>1, <3>1 DEF Submit, TicketInv
    <3>2. CASE ~(v = u /\ Alone(u))
      BY <2>1, <3>2 DEF Submit, TypeOK
    <3>3. QED
      BY <3>1, <3>2
  <2>2. CASE Interrupted(v)
    BY <1>1, <2>2 DEF Interrupted
  <2>3. CASE Submitted(v) \/ Generated(v) \/ Saves(v) \/ Unwinds(v) \/ Saved(v)
    BY <2>3 DEF Submitted, Generated, Saves, Unwinds, Saved
  <2>4. QED
    BY <1>4, <2>1, <2>2, <2>3 DEF ItemStep
<1>5. ASSUME NEW v \in Units, NEW op \in DiskOps, ThreadEnds(v, op) PROVE ticket' = ticket
  BY <1>5 DEF ThreadEnds
<1>6. ASSUME NEW j \in JobIds, BatchStep(j)
      PROVE  ticket'[u] \notin {"none", "queued"} \/ ticket'[u] = ticket[u]
  <2>1. CASE BatchStarts(j)
    <3>1. CASE u \in Items(j)
      <4>1. Known(j) /\ request[j].batch /\ batchTask[j] = "new"
        BY <1>6, <2>1 DEF BatchStarts, TaskInv
      <4>2. u[1] = j
        BY <3>1, <4>1, JobUnits
      <4>3. QED
        BY <1>0, <4>1, <4>2 DEF TicketInv, Alone
    <3>2. CASE u \notin Items(j)
      BY <2>1, <3>2 DEF BatchStarts
    <3>3. QED
      BY <3>1, <3>2
  <2>2. CASE BatchGathered(j) \/ BatchInterrupted(j)
    BY <1>1, <2>2 DEF BatchGathered, BatchInterrupted
  <2>3. CASE BatchSubmitted(j) \/ BatchUnwound(j)
    BY <2>3 DEF BatchSubmitted, BatchUnwound
  <2>4. QED
    BY <1>6, <2>1, <2>2, <2>3 DEF BatchStep
<1>7. CASE Stop \/ Stopped \/ UNCHANGED vars
  <2>1. CASE StopAccepting
    BY <1>1, <2>1 DEF StopAccepting
  <2>2. CASE CoordinatorCloses
    BY <2>2 DEF CoordinatorCloses
  <2>3. CASE CancelJobs \/ CancelUnbegun \/ JobsClosed \/ Stopped \/ UNCHANGED vars
    BY <2>3 DEF CancelJobs, CancelUnbegun, JobsClosed, Stopped, vars
  <2>4. QED
    BY <1>7, <2>1, <2>2, <2>3 DEF Stop
<1>8. QED
  BY <1>2, <1>3, <1>4, <1>5, <1>6, <1>7 DEF Next

\* An image that succeeded stays so: its task, which is then done, has no step
\* left, batches fail images without a verdict only, and close() marks jobs
\* whose task goes on.
LEMMA SuccessStays ==
  ASSUME TypeOK, TaskInv, StatusInv, [Next]_vars, NEW u \in Units, itemStatus[u] = "succeeded"
  PROVE  itemStatus'[u] = "succeeded"
<1>0. itemTask[u] = "done" /\ Owned(u) /\ u[1] \in JobIds /\ u = <<u[1], u[2]>>
  BY DEF StatusInv, TaskInv, Units
<1>1. ASSUME NEW c \in Clients, ClientStep(c) PROVE itemStatus' = itemStatus
  BY <1>1, ClientMoves
<1>2. ASSUME NEW v \in Units, ItemStep(v) PROVE itemStatus'[u] = itemStatus[u]
  <2>1. v # u
    BY <1>0, <1>2, ItemMoves
  <2>2. QED
    BY <1>2, <2>1, ItemMoves DEF TypeOK
<1>3. ASSUME NEW j \in JobIds, BatchStep(j) PROVE itemStatus'[u] = itemStatus[u]
  <2>1. ASSUME NEW s, EndBatch(j, s) PROVE itemStatus'[u] = itemStatus[u]
    BY <2>1 DEF EndBatch, Final
  <2>2. QED
    BY <1>3, <2>1 DEF BatchStep, BatchStarts, BatchSubmitted, BatchGathered, BatchInterrupted,
                      BatchUnwound, itemVars
<1>4. ASSUME NEW v \in Units, NEW op \in DiskOps, ThreadEnds(v, op) PROVE itemStatus' = itemStatus
  BY <1>4 DEF ThreadEnds
<1>5. CASE CancelJobs \/ CancelUnbegun
  <2>1. CASE Alone(u)
    <3>1. u[1] \notin Live
      BY <1>0, <2>1, LoneUnit DEF Live, TaskDone
    <3>2. QED
      BY <1>5, <3>1 DEF CancelJobs, CancelUnbegun, MarkJobs, Marked
  <2>2. CASE ~Alone(u)
    BY <1>5, <2>2 DEF CancelJobs, CancelUnbegun, MarkJobs
  <2>3. QED
    BY <2>1, <2>2
<1>6. CASE StopAccepting \/ CoordinatorCloses \/ JobsClosed \/ Stopped \/ CoordinatorStep
           \/ UNCHANGED vars
  BY <1>6 DEF StopAccepting, CoordinatorCloses, JobsClosed, Stopped, CoordinatorStep, vars, itemVars
<1>7. QED
  BY <1>1, <1>2, <1>3, <1>4, <1>5, <1>6 DEF Next, Stop

-----------------------------------------------------------------------------
(* Places in the queue.                                                    *)

\* The places that jobs take, which Active counts.
Places == UNION {Items(j) : j \in Live}

\* A request for n images takes n places.
LEMMA PlacesOfOne ==
  ASSUME NEW j, NEW n \in Nat
  PROVE  IsFiniteSet({<<j, i>> : i \in 1 .. n}) /\ Cardinality({<<j, i>> : i \in 1 .. n}) = n
<1> DEFINE S == 1 .. n
           T == {<<j, i>> : i \in S}
           f == [i \in S |-> <<j, i>>]
<1>1. IsFiniteSet(S) /\ Cardinality(S) = n
  BY FS_Interval
<1>2. f \in Bijection(S, T)
  <2>1. f \in [S -> T]
    OBVIOUS
  <2>2. \A a, b \in S : f[a] = f[b] => a = b
    OBVIOUS
  <2>3. \A t \in T : \E a \in S : f[a] = t
    OBVIOUS
  <2>4. QED
    BY <2>1, <2>2, <2>3 DEF Bijection, Injection, Surjection, IsInjective
<1>3. ExistsBijection(S, T)
  BY <1>2 DEF ExistsBijection
<1>4. QED
  BY <1>1, <1>3, FS_Bijection

\* A step takes no place, or those of a request that was admitted.
LEMMA PlacesKept ==
  ASSUME TypeOK, TaskInv, [Next]_vars, IsFiniteSet(Places), WithinCapacity
  PROVE  IsFiniteSet(Places)' /\ WithinCapacity'
<1>0. Active = Cardinality(Places) /\ Active' = Cardinality(Places')
  BY DEF Active, Places
<1>1. CASE request' = request /\ Live' \subseteq Live
  <2>1. Places' \subseteq Places
    BY <1>1 DEF Places, Items
  <2>2. IsFiniteSet(Places') /\ Cardinality(Places') <= Cardinality(Places)
    BY <2>1, FS_Subset
  <2>3. Cardinality(Places) \in Nat /\ Cardinality(Places') \in Nat
    BY <2>2, FS_CardinalityType
  <2>4. QED
    BY <1>0, <2>2, <2>3, MediaAssumption DEF WithinCapacity
<1>2. ASSUME NEW j \in JobIds, NEW r \in Requests, ~Known(j), Admits(r),
             request' = [request EXCEPT ![j] = r], Live' \subseteq Live \cup {j}
      PROVE  IsFiniteSet(Places)' /\ WithinCapacity'
  <2> DEFINE New == {<<j, i>> : i \in 1 .. r.count}
  <2>1. r.count \in Nat
    BY <1>2, MediaAssumption DEF Requests
  <2>2. IsFiniteSet(New) /\ Cardinality(New) = r.count
    BY <2>1, PlacesOfOne
  <2>3. Places' \subseteq Places \cup New
    <3>1. j \notin Live
      BY <1>2 DEF Live
    <3>2. ASSUME NEW k \in Live PROVE Items(k)' = Items(k)
      <4>1. request'[k] = request[k]
        BY <1>2, <3>1, <3>2 DEF TypeOK, Live
      <4>2. QED
        BY <4>1 DEF Items
    <3>3. Items(j)' = New
      <4>1. request'[j] = r
        BY <1>2 DEF TypeOK
      <4>2. QED
        BY <4>1 DEF Items
    <3>4. QED
      BY <1>2, <3>2, <3>3 DEF Places
  <2> HIDE DEF New
  <2>4. /\ IsFiniteSet(Places \cup New)
        /\ Cardinality(Places \cup New)
             = Cardinality(Places) + Cardinality(New) - Cardinality(Places \cap New)
    BY <2>2, FS_Union
  <2>5. IsFiniteSet(Places') /\ Cardinality(Places') <= Cardinality(Places \cup New)
    BY <2>3, <2>4, FS_Subset
  <2>6. IsFiniteSet(Places \cap New)
    BY <2>2, FS_Subset
  <2>7. /\ Cardinality(Places) \in Nat /\ Cardinality(Places') \in Nat
        /\ Cardinality(Places \cap New) \in Nat
        /\ Cardinality(Places \cup New) \in Nat
    BY <2>4, <2>5, <2>6, FS_CardinalityType
  <2>8. Cardinality(Places) + r.count <= Capacity
    BY <1>0, <1>2 DEF Admits
  <2>9. QED
    BY <1>0, <2>1, <2>2, <2>4, <2>5, <2>7, <2>8, MediaAssumption DEF WithinCapacity
<1>3. QED
  BY <1>1, <1>2, LiveMoves

-----------------------------------------------------------------------------
(* The theorems.                                                           *)

\* The invariant holds of every reachable state.
THEOREM JobsInvariant == Spec => []JobsInv
<1>1. Init => JobsInv
  <2> SUFFICES ASSUME Init PROVE JobsInv
    OBVIOUS
  <2>1. Live = {} /\ \A j \in JobIds : ~Known(j)
    BY DEF Init, Live, Known
  <2>2. TypeOK
    BY MediaAssumption DEF Init, TypeOK, Statuses, Final
  <2>3. TaskInv /\ EndInv /\ VerdictInv
    <3>1. \A u \in Units : u[1] \in JobIds
      BY DEF Units
    <3>2. \A u \in Units : itemTask[u] = "none" /\ ~Owned(u)
      BY <2>1, <3>1 DEF Init, Owned
    <3>3. \A j \in JobIds : batchTask[j] = "none"
      BY DEF Init
    <3>4. QED
      BY <2>1, <3>2, <3>3 DEF TaskInv, EndInv, VerdictInv
  <2>6. CancelInv /\ StopInv
    BY DEF Init, CancelInv, StopInv
  <2>4. FileInv /\ StatusInv /\ TicketInv /\ FreshInv /\ UnknownInv
    BY <2>1, MediaAssumption
       DEF Init, FileInv, FilesOf, StatusInv, TicketInv, FreshInv, UnknownInv, DiskOps, Final
  <2>5. QED
    BY <2>2, <2>3, <2>4, <2>6 DEF JobsInv
<1>2. JobsInv /\ [Next]_vars => JobsInv'
  <2> SUFFICES ASSUME JobsInv, [Next]_vars PROVE JobsInv'
    OBVIOUS
  <2> USE DEF JobsInv
  <2>1. TypeOK' /\ TaskInv' /\ FileInv'
    BY TypesKept, TasksKept, FilesKept
  <2>2. StatusInv' /\ FreshInv' /\ UnknownInv' /\ CancelInv' /\ TicketInv' /\ StopInv'
    BY StatusesKept, FreshKept, CancelsKept, TicketsKept, StopKept
  <2>3. EndInv' /\ VerdictInv'
    BY EndsKept
  <2>4. QED
    BY <2>1, <2>2, <2>3
<1>3. QED
  BY <1>1, <1>2, PTL DEF Spec

\* When a task has ended, its verdict is final and nothing of it goes on.
THEOREM EndsAreFinal == Spec => []EndedIsFinal
<1>1. JobsInv => EndedIsFinal
  <2> SUFFICES ASSUME JobsInv PROVE EndedIsFinal
    OBVIOUS
  <2> USE DEF JobsInv
  <2>1. ASSUME NEW u \in Units, Ended(u) PROVE disk[u] = {} /\ staged[u] = 0
    BY <2>1 DEF Ended, FileInv, FilesOf, DiskOps
  <2>2. ASSUME NEW j \in JobIds, Known(j), TaskDone(j)
        PROVE  /\ JobStatus(j) \in Final \cup {"partial"}
               /\ \A u \in Items(j) : itemTask[u] \in {"none", "done"}
               /\ \/ \A u \in Items(j) : itemStatus[u] \in Final
                  \/ request[j].batch /\ NeverBegan(j)
    <3>1. CASE request[j].batch
      <4>1. batchTask[j] = "done"
        BY <2>2, <3>1 DEF TaskDone
      <4>2. /\ JobStatus(j) \in Final \cup {"partial"}
            /\ (\A u \in Items(j) : itemStatus[u] \in Final) \/ NeverBegan(j)
        BY <2>2, <3>1, <4>1 DEF EndInv, JobStatus
      <4>3. ASSUME NEW u \in Items(j) PROVE itemTask[u] \in {"none", "done"}
        <5>1. u \in Units /\ u[1] = j /\ u[2] <= request[j].count
          BY <2>2, <4>3, JobUnits
        <5>2. Owned(u) /\ ~Alone(u)
          BY <2>2, <3>1, <5>1 DEF Owned, Alone
        <5>3. QED
          BY <4>1, <5>1, <5>2 DEF TaskInv
      <4>4. QED
        BY <3>1, <4>2, <4>3
    <3>2. CASE ~request[j].batch
      <4>1. request[j].count = 1 /\ <<j, 1>> \in Units
        BY <2>2, <3>2, JobUnits
      <4>2. Items(j) = {<<j, 1>>}
        BY <4>1 DEF Items
      <4>3. itemTask[<<j, 1>>] = "done"
        BY <2>2, <3>2 DEF TaskDone
      <4>4. QED
        BY <3>2, <4>1, <4>2, <4>3 DEF StatusInv, JobStatus
    <3>3. QED
      BY <3>1, <3>2
  <2>3. QED
    BY <2>1, <2>2 DEF EndedIsFinal
<1>2. QED
  BY <1>1, JobsInvariant, PTL

\* A result directory is complete, and a success has one.
THEOREM WholeOrNothing == Spec => []PublishedWhole
<1>1. JobsInv => PublishedWhole
  BY DEF JobsInv, FileInv, FilesOf, StatusInv, PublishedWhole
<1>2. QED
  BY <1>1, JobsInvariant, PTL

\* Once the broker has stopped, no task of a job runs.
THEOREM NothingOutlivesStop == Spec => []NoTaskSurvives
<1>1. JobsInv => NoTaskSurvives
  BY DEF JobsInv, StopInv, NoTaskSurvives
<1>2. QED
  BY <1>1, JobsInvariant, PTL

\* The verdict of a batch sums its images up.
THEOREM VerdictsHold == Spec => []VerdictHolds
<1>1. JobsInv => VerdictHolds
  <2> SUFFICES ASSUME JobsInv, NEW j \in JobIds,
                      Known(j), request[j].batch, batchTask[j] = "done"
               PROVE  LET won == {u \in Items(j) : itemStatus[u] = "succeeded"} IN
                      /\ status[j] = "succeeded" => won = Items(j)
                      /\ status[j] = "partial" => won # {} /\ won # Items(j)
                      /\ status[j] = "failed" => won = {} \/ Closing
    BY DEF VerdictHolds
  <2>1. VerdictOf(j)
    BY DEF JobsInv, VerdictInv
  <2>2. QED
    BY <2>1 DEF VerdictOf
<1>2. QED
  BY <1>1, JobsInvariant, PTL

\* A job id keeps its request, an image enters the FIFO once, and a success
\* is never taken back.
THEOREM NothingRegenerated == Spec => NoRegeneration
<1> DEFINE Stays == /\ \A j \in JobIds : Known(j) => request'[j] = request[j]
                    /\ \A u \in Units :
                         /\ ticket[u] # "none" => (ticket'[u] \notin {"none", "queued"}
                                                   \/ ticket'[u] = ticket[u])
                         /\ itemStatus[u] = "succeeded" => itemStatus'[u] = "succeeded"
<1>1. JobsInv /\ [Next]_vars => Stays
  <2> SUFFICES ASSUME JobsInv, [Next]_vars PROVE Stays
    OBVIOUS
  <2> USE DEF JobsInv
  <2>1. ASSUME NEW j \in JobIds, Known(j) PROVE request'[j] = request[j]
    BY <2>1, LiveMoves DEF TypeOK
  <2>2. ASSUME NEW u \in Units, ticket[u] # "none"
        PROVE  ticket'[u] \notin {"none", "queued"} \/ ticket'[u] = ticket[u]
    BY <2>2, TicketMoves
  <2>3. ASSUME NEW u \in Units, itemStatus[u] = "succeeded" PROVE itemStatus'[u] = "succeeded"
    BY <2>3, SuccessStays
  <2>4. QED
    BY <2>1, <2>2, <2>3
<1>2. QED
  BY <1>1, JobsInvariant, PTL DEF Spec, NoRegeneration

\* Jobs that have not ended never take more places than the queue has.
THEOREM CapacityHolds == Spec => []WithinCapacity
<1> DEFINE Fits == IsFiniteSet(Places) /\ WithinCapacity
<1>1. Init => Fits
  <2> SUFFICES ASSUME Init PROVE Fits
    OBVIOUS
  <2>1. Live = {}
    BY DEF Init, Live, Known
  <2>2. Places = {} /\ Active = Cardinality({})
    BY <2>1 DEF Places, Active
  <2>3. QED
    BY <2>2, FS_EmptySet, MediaAssumption DEF WithinCapacity
<1>2. JobsInv /\ Fits /\ [Next]_vars => Fits'
  BY PlacesKept DEF JobsInv
<1>3. Fits => WithinCapacity
  OBVIOUS
<1>4. QED
  BY <1>1, <1>2, <1>3, JobsInvariant, PTL DEF Spec
=============================================================================
