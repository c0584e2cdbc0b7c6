----------------------------- MODULE MediaJobs ------------------------------
(***************************************************************************)
(* Image jobs of MCP clients (media_jobs.py).  A job belongs to the broker *)
(* and not to the connection that asked for it: requests with its id       *)
(* attach to it, and its task goes on when nobody waits.  A batch has one  *)
(* task of its own and one per image; a single job is the task of its only *)
(* image.  Results are copied into a staging directory by threads that     *)
(* cannot be cancelled, and published by renaming that directory.          *)
(***************************************************************************)
EXTENDS Naturals, FiniteSets

CONSTANTS
  JobIds, Clients,
  MaxItems,   \* images of the largest batch
  Images,     \* output files of one workflow execution
  Capacity,   \* max_queued_images
  None

ASSUME MediaAssumption ==
  /\ MaxItems \in Nat \ {0} /\ Images \in Nat \ {0} /\ Capacity \in Nat
  /\ None \notin JobIds /\ None \notin [batch : BOOLEAN, count : 1 .. MaxItems]
  /\ JobIds \cap (JobIds \X (1 .. MaxItems)) = {}

\* What tells requests apart (the fingerprint): single or batch, and how many images.
Requests == {r \in [batch : BOOLEAN, count : 1 .. MaxItems] : r.batch \/ r.count = 1}

\* The images of all jobs, and the calls of clients.
Units == JobIds \X (1 .. MaxItems)
Calls == [op : {"resolving"}, job : JobIds, request : Requests]
         \cup [op : {"waiting"}, job : JobIds]

VARIABLES
  request,    \* jobs: the request that a job id belongs to, None if unknown
  status,     \* status of a batch
  batchTask,  \* where the task of a batch waits
  itemStatus, \* status of an image, which is that of the job for a single image
  itemTask,   \* where the task of an image waits
  cancelled,  \* tasks whose cancellation has not been delivered: job ids, units
  failing,    \* units: an exception is on its way
  disk,       \* units: file operations that a thread still has to do
  staged,     \* units: files in the staging directory, 0 without one
  published,  \* units: files in the result directory, 0 without one
  ticket,     \* the coordinator's side: where it has an image
  call,       \* clients: what each waits for
  awaited,    \* the jobs whose tasks close() cancelled
  stop        \* the progress of BrokerService.stop

jobVars == <<request, status, batchTask>>
itemVars == <<itemStatus, itemTask, failing>>
fileVars == <<disk, staged, published>>
stopVars == <<awaited, stop>>
vars == <<request, status, batchTask, itemStatus, itemTask, cancelled, failing,
          disk, staged, published, ticket, call, awaited, stop>>

Final == {"succeeded", "failed"}
Statuses == Final \cup {"preparing", "queued", "generating", "saving"}
DiskOps == {"write", "publish", "dropFinal", "dropStaging"}

TypeOK ==
  /\ request \in [JobIds -> Requests \cup {None}]
  /\ status \in [JobIds -> Statuses \cup {"partial"}]
  /\ batchTask \in [JobIds -> {"none", "new", "first", "gather", "unwind", "done"}]
  /\ itemStatus \in [Units -> Statuses]
  /\ itemTask \in [Units -> DiskOps \cup {"none", "new", "submit", "generate", "done"}]
  /\ cancelled \subseteq JobIds \cup Units
  /\ failing \in [Units -> BOOLEAN]
  /\ disk \in [Units -> SUBSET DiskOps]
  /\ staged \in [Units -> 0 .. Images]
  /\ published \in [Units -> 0 .. Images]
  /\ ticket \in [Units -> {"none", "queued", "running", "ok", "error", "rejected"}]
  /\ call \in [Clients -> Calls \cup {None}]
  /\ awaited \subseteq JobIds
  /\ stop \in {"serving", "unattended", "closing", "drained", "cancelling", "closed"}

Init ==
  /\ request = [j \in JobIds |-> None]
  /\ status = [j \in JobIds |-> "preparing"]
  /\ batchTask = [j \in JobIds |-> "none"]
  /\ itemStatus = [u \in Units |-> "preparing"]
  /\ itemTask = [u \in Units |-> "none"]
  /\ cancelled = {}
  /\ failing = [u \in Units |-> FALSE]
  /\ disk = [u \in Units |-> {}]
  /\ staged = [u \in Units |-> 0] /\ published = [u \in Units |-> 0]
  /\ ticket = [u \in Units |-> "none"]
  /\ call = [c \in Clients |-> None]
  /\ awaited = {} /\ stop \in {"serving", "unattended"}

\* The coordinator takes images.  A broker whose coordinator could not be
\* initialized serves unattended: it has no dispatcher, and refuses them.
Attended == stop = "serving"

Closing == stop \notin {"serving", "unattended"}

Items(j) == {<<j, i>> : i \in 1 .. request[j].count}
Known(j) == request[j] # None
Alone(u) == ~request[u[1]].batch

\* job.task, and whether it has ended.
TaskDone(j) == IF request[j].batch THEN batchTask[j] = "done" ELSE itemTask[<<j, 1>>] = "done"
Live == {j \in JobIds : Known(j) /\ ~TaskDone(j)}

JobStatus(j) == IF request[j].batch THEN status[j] ELSE itemStatus[<<j, 1>>]

\* Places taken by jobs that have not ended.
Active == Cardinality(UNION {Items(j) : j \in Live})

-----------------------------------------------------------------------------
(* Requests.                                                               *)

\* _generate up to its await: reading the references.
Generate(c, j, r) ==
  /\ call[c] = None /\ ~Closing
  /\ call' = [call EXCEPT ![c] = [op |-> "resolving", job |-> j, request |-> r]]
  /\ UNCHANGED <<jobVars, itemVars, cancelled, fileVars, ticket, stopVars>>

\* Mutant: the limit leaves out what the new job adds.
AdmitsOne(r) == Active < Capacity

Admits(r) == Active + r.count <= Capacity

\* Mutant: shutdown is not looked for again after the await.
AcceptsStill == TRUE

Accepts == ~Closing

\* _generate from there: a new job.
Create(c) ==
  /\ call[c] # None /\ call[c].op = "resolving"
  /\ LET j == call[c].job
         r == call[c].request IN
     /\ Accepts
     /\ ~Known(j) /\ Admits(r)
     /\ request' = [request EXCEPT ![j] = r]
     /\ IF r.batch THEN /\ batchTask' = [batchTask EXCEPT ![j] = "new"]
                        /\ UNCHANGED itemTask
                   ELSE /\ itemTask' = [itemTask EXCEPT ![<<j, 1>>] = "new"]
                        /\ UNCHANGED batchTask
     /\ call' = [call EXCEPT ![c] = [op |-> "waiting", job |-> j]]
  /\ UNCHANGED <<status, itemStatus, failing, cancelled, fileVars, ticket, stopVars>>

\* The same request again, or get_job.
Attach(c, j) ==
  /\ Known(j)
  /\ \/ call[c] = None
     \/ Accepts /\ call[c] = [op |-> "resolving", job |-> j, request |-> request[j]]
  /\ call' = [call EXCEPT ![c] = [op |-> "waiting", job |-> j]]
  /\ UNCHANGED <<jobVars, itemVars, cancelled, fileVars, ticket, stopVars>>

\* A reference is unavailable, the id belongs to another request, there is no
\* place left, or the broker is shutting down; or the client goes away.
GiveUp(c) ==
  /\ call[c] # None
  /\ call' = [call EXCEPT ![c] = None]
  /\ UNCHANGED <<jobVars, itemVars, cancelled, fileVars, ticket, stopVars>>

\* get_job returns when the task has ended.
Answer(c) ==
  /\ call[c] # None /\ call[c].op = "waiting" /\ TaskDone(call[c].job)
  /\ call' = [call EXCEPT ![c] = None]
  /\ UNCHANGED <<jobVars, itemVars, cancelled, fileVars, ticket, stopVars>>

ClientStep(c) ==
  \/ \E j \in JobIds, r \in Requests : Generate(c, j, r)
  \/ \E j \in JobIds : Attach(c, j)
  \/ Create(c) \/ GiveUp(c) \/ Answer(c)

-----------------------------------------------------------------------------
(* The coordinator, as jobs see it: one image at a time, those of a batch  *)
(* in their order.                                                         *)

TicketRuns(u) ==
  /\ ticket[u] = "queued"
  /\ \A v \in Units : ticket[v] # "running"
  /\ \A i \in 1 .. u[2] - 1 : ticket[<<u[1], i>>] # "queued"
  /\ ticket' \in {[ticket EXCEPT ![u] = s] : s \in {"running", "rejected"}}

TicketEnds(u) ==
  /\ ticket[u] = "running"
  /\ ticket' \in {[ticket EXCEPT ![u] = s] : s \in {"ok", "error"}}

CoordinatorStep ==
  /\ Attended
  /\ \E u \in Units : TicketRuns(u) \/ TicketEnds(u)
  /\ UNCHANGED <<jobVars, itemVars, cancelled, fileVars, call, stopVars>>

\* Tickets that nobody waits for any more: what still queues is taken out.
Withdrawn(us) ==
  [u \in Units |-> IF u \in us /\ ticket[u] = "queued" THEN "rejected" ELSE ticket[u]]

-----------------------------------------------------------------------------
(* The task of an image (_run, _save).                                     *)

GoTo(u, await, s) ==
  /\ itemTask' = [itemTask EXCEPT ![u] = await]
  /\ itemStatus' = [itemStatus EXCEPT ![u] = s]

\* The task hands an operation to a thread (_disk).
Disk(u, op) ==
  /\ itemTask' = [itemTask EXCEPT ![u] = op]
  /\ disk' = [disk EXCEPT ![u] = @ \cup {op}]

\* Mutant: a cancelled wait does not wait for the thread.
DiskReturnsAtOnce(u) == u \in cancelled \/ itemTask[u] \notin disk[u]

\* The operation is done; a cancelled wait waits for that as well.
DiskReturns(u) == itemTask[u] \notin disk[u]

\* Single jobs enter the FIFO here; the images of a batch are in it already.
Submit(u) ==
  /\ itemTask[u] = "new"
  /\ \/ /\ Alone(u) => Attended
        /\ ticket' = (IF Alone(u) THEN [ticket EXCEPT ![u] = "queued"] ELSE ticket)
        /\ GoTo(u, "submit", "queued")
     \/ /\ Alone(u)
        /\ GoTo(u, "done", "failed")
        /\ UNCHANGED ticket
  /\ UNCHANGED <<jobVars, failing, cancelled, fileVars, call, stopVars>>

\* The prompt was accepted by ComfyUI, or was not.
Submitted(u) ==
  /\ itemTask[u] = "submit" /\ u \notin cancelled
  /\ \/ ticket[u] \in {"running", "ok", "error"} /\ GoTo(u, "generate", "generating")
     \/ ticket[u] = "rejected" /\ GoTo(u, "done", "failed")
  /\ UNCHANGED <<jobVars, failing, cancelled, fileVars, ticket, call, stopVars>>

\* The outputs are there, and the first file is written to a new staging
\* directory; or the prompt failed, or its outputs are unusable.  Resolving
\* references is one wait with the wait for the outputs: it changes nothing.
Generated(u) ==
  /\ itemTask[u] = "generate" /\ u \notin cancelled
  /\ \/ ticket[u] = "ok" /\ Disk(u, "write")
        /\ itemStatus' = [itemStatus EXCEPT ![u] = "saving"]
     \/ ticket[u] \in {"ok", "error"} /\ GoTo(u, "done", "failed") /\ UNCHANGED disk
  /\ UNCHANGED <<jobVars, failing, cancelled, staged, published, ticket, call, stopVars>>

\* A cancellation reaches a task that has no files yet.
Interrupted(u) ==
  /\ itemTask[u] \in {"submit", "generate"} /\ u \in cancelled
  /\ cancelled' = cancelled \ {u}
  /\ ticket' = (IF Alone(u) THEN Withdrawn({u}) ELSE ticket)
  /\ GoTo(u, "done", "failed")
  /\ UNCHANGED <<jobVars, failing, fileVars, call, stopVars>>

\* A thread does its operation, or fails to; removals do not fail.
ThreadEnds(u, op) ==
  /\ op \in disk[u]
  /\ disk' = [disk EXCEPT ![u] = @ \ {op}]
  /\ \/ /\ op = "write" /\ staged' = [staged EXCEPT ![u] = @ + 1]
        /\ UNCHANGED <<published, failing>>
     \/ /\ op = "publish" /\ staged[u] > 0
        /\ published' = [published EXCEPT ![u] = staged[u]]
        /\ staged' = [staged EXCEPT ![u] = 0]
        /\ UNCHANGED failing
     \/ /\ op \in {"write", "publish"}
        /\ failing' = [failing EXCEPT ![u] = TRUE]
        /\ UNCHANGED <<staged, published>>
     \/ /\ op = "dropFinal" /\ published' = [published EXCEPT ![u] = 0]
        /\ UNCHANGED <<staged, failing>>
     \/ /\ op = "dropStaging" /\ staged' = [staged EXCEPT ![u] = 0]
        /\ UNCHANGED <<published, failing>>
  /\ UNCHANGED <<jobVars, itemStatus, itemTask, cancelled, ticket, call, stopVars>>

\* Mutant: a file is missing.
CompleteEarly(u) == staged[u] > 0

Complete(u) == staged[u] = Images

Fails(u) == failing[u] \/ u \in cancelled

\* _save goes on: the next file, then the rename, then the finally clause.
Saves(u) ==
  /\ DiskReturns(u) /\ ~Fails(u)
  /\ \/ itemTask[u] = "write" /\ ~Complete(u) /\ Disk(u, "write")
     \/ itemTask[u] = "write" /\ Complete(u) /\ Disk(u, "publish")
     \/ itemTask[u] = "publish" /\ Disk(u, "dropStaging")
  /\ UNCHANGED <<jobVars, itemStatus, failing, cancelled, staged, published, ticket, call, stopVars>>

\* Its except clause, and the finally clause after it.
Unwinds(u) ==
  /\ DiskReturns(u) /\ Fails(u)
  /\ failing' = [failing EXCEPT ![u] = TRUE]
  /\ cancelled' = cancelled \ {u}
  /\ \/ itemTask[u] \in {"write", "publish"} /\ Disk(u, "dropFinal")
     \/ itemTask[u] = "dropFinal" /\ Disk(u, "dropStaging")
  /\ UNCHANGED <<jobVars, itemStatus, staged, published, ticket, call, stopVars>>

\* _save returned, or raised.
Saved(u) ==
  /\ itemTask[u] = "dropStaging" /\ DiskReturns(u)
  /\ cancelled' = cancelled \ {u}
  /\ failing' = [failing EXCEPT ![u] = FALSE]
  /\ GoTo(u, "done", IF Fails(u) THEN "failed" ELSE "succeeded")
  /\ UNCHANGED <<jobVars, fileVars, ticket, call, stopVars>>

ItemStep(u) ==
  \/ Submit(u) \/ Submitted(u) \/ Generated(u) \/ Interrupted(u)
  \/ Saves(u) \/ Unwinds(u) \/ Saved(u)

-----------------------------------------------------------------------------
(* The task of a batch (_run_batch).                                       *)

\* The batch ends: images that have no verdict of their own share its own.
EndBatch(j, s) ==
  /\ batchTask' = [batchTask EXCEPT ![j] = "done"]
  /\ status' = [status EXCEPT ![j] = s]
  /\ itemStatus' = [u \in Units |-> IF u \in Items(j) /\ itemStatus[u] \notin Final
                                    THEN "failed" ELSE itemStatus[u]]

\* All images are admitted to the FIFO together, or none is.
BatchStarts(j) ==
  /\ batchTask[j] = "new"
  /\ \/ /\ Attended
        /\ ticket' = [u \in Units |-> IF u \in Items(j) THEN "queued" ELSE ticket[u]]
        /\ itemTask' = [u \in Units |-> IF u \in Items(j) THEN "new" ELSE itemTask[u]]
        /\ batchTask' = [batchTask EXCEPT ![j] = "first"]
        /\ status' = [status EXCEPT ![j] = "queued"]
        /\ UNCHANGED itemStatus
     \/ /\ EndBatch(j, "failed")
        /\ UNCHANGED <<ticket, itemTask>>
  /\ UNCHANGED <<request, failing, cancelled, fileVars, call, stopVars>>

\* Mutant: the batch waits for a submission that succeeds.
FirstAccepted(j) == ticket[<<j, 1>>] \notin {"queued", "rejected"}

\* The first image was submitted, or could not be.
FirstAnswered(j) == ticket[<<j, 1>>] # "queued"

BatchSubmitted(j) ==
  /\ batchTask[j] = "first" /\ j \notin cancelled
  /\ FirstAnswered(j)
  /\ batchTask' = [batchTask EXCEPT ![j] = "gather"]
  /\ status' = [status EXCEPT ![j] = "generating"]
  /\ UNCHANGED <<request, itemVars, cancelled, fileVars, ticket, call, stopVars>>

ItemsDone(j) == \A u \in Items(j) : itemTask[u] = "done"

\* Mutant: a batch succeeds if any of its images does.
VerdictAny(j) ==
  IF \E u \in Items(j) : itemStatus[u] = "succeeded" THEN "succeeded" ELSE "failed"

Verdict(j) ==
  LET won == {u \in Items(j) : itemStatus[u] = "succeeded"} IN
  IF won = Items(j) THEN "succeeded" ELSE IF won # {} THEN "partial" ELSE "failed"

\* Every image has ended, cancelled with the batch if the batch was.
BatchGathered(j) ==
  /\ batchTask[j] = "gather" /\ ItemsDone(j)
  /\ cancelled' = cancelled \ {j}
  /\ ticket' = Withdrawn(Items(j))
  /\ EndBatch(j, IF j \in cancelled \/ Closing THEN "failed" ELSE Verdict(j))
  /\ UNCHANGED <<request, itemTask, failing, fileVars, call, stopVars>>

\* A cancellation before the first submission: the batch gives its places up
\* and cancels the tasks of its images.
BatchInterrupted(j) ==
  /\ batchTask[j] = "first" /\ j \in cancelled
  /\ cancelled' = (cancelled \ {j}) \cup {u \in Items(j) : itemTask[u] # "done"}
  /\ ticket' = Withdrawn(Items(j))
  /\ batchTask' = [batchTask EXCEPT ![j] = "unwind"]
  /\ status' = [status EXCEPT ![j] = "failed"]
  /\ UNCHANGED <<request, itemVars, fileVars, call, stopVars>>

BatchUnwound(j) ==
  /\ batchTask[j] = "unwind" /\ ItemsDone(j)
  /\ EndBatch(j, "failed")
  /\ UNCHANGED <<request, itemTask, failing, cancelled, fileVars, ticket, call, stopVars>>

BatchStep(j) ==
  \/ BatchStarts(j) \/ BatchSubmitted(j) \/ BatchGathered(j)
  \/ BatchInterrupted(j) \/ BatchUnwound(j)

-----------------------------------------------------------------------------
(* BrokerService.stop: refuse requests, close the coordinator, then cancel *)
(* the jobs and wait for them.                                             *)

\* With stop_accepting the coordinator answers what is queued.
StopAccepting ==
  /\ Attended /\ stop' = "closing"
  /\ ticket' = Withdrawn(Units)
  /\ UNCHANGED <<jobVars, itemVars, cancelled, fileVars, call, awaited>>

\* Its dispatcher answers the image in hand before close() returns.
CoordinatorCloses ==
  /\ stop = "closing" /\ stop' = "drained"
  /\ ticket' = [u \in Units |-> IF ticket[u] = "running" THEN "error" ELSE ticket[u]]
  /\ UNCHANGED <<jobVars, itemVars, cancelled, fileVars, call, awaited>>

\* Mutant: jobs that have ended are marked as well.
MarkedAll(j) == Known(j)

\* The jobs that close() marks as failed.
Marked(j) == j \in Live

MarkJobs ==
  /\ awaited' = Live
  /\ status' = [j \in JobIds |-> IF Marked(j) /\ request[j].batch THEN "failed" ELSE status[j]]
  /\ itemStatus' = [u \in Units |-> IF Marked(u[1]) /\ Alone(u) THEN "failed" ELSE itemStatus[u]]

\* close(): a batch that waits for its images passes the cancellation on.  The
\* wait for the coordinator's dispatcher let every new task begin.
CancelJobs ==
  /\ stop = "drained" /\ stop' = "cancelling"
  /\ \A j \in JobIds : batchTask[j] # "new"
  /\ \A u \in Units : itemTask[u] # "new"
  /\ MarkJobs
  /\ cancelled' = cancelled
       \cup {j \in Live : request[j].batch}
       \cup {u \in Units : /\ u[1] \in Live /\ itemTask[u] \notin {"none", "done"}
                           /\ Alone(u) \/ batchTask[u[1]] = "gather"}
  /\ UNCHANGED <<request, batchTask, itemTask, failing, fileVars, ticket, call>>

\* Without a dispatcher stop() gets here without a wait.  Only tasks that have
\* not begun are live, and they end without running: the images of a batch
\* keep the status they have.
CancelUnbegun ==
  /\ stop = "unattended" /\ stop' = "cancelling"
  /\ MarkJobs
  /\ batchTask' = [j \in JobIds |-> IF batchTask[j] = "new" THEN "done" ELSE batchTask[j]]
  /\ itemTask' = [u \in Units |-> IF itemTask[u] = "new" THEN "done" ELSE itemTask[u]]
  /\ UNCHANGED <<request, cancelled, failing, fileVars, ticket, call>>

JobsClosed ==
  /\ stop = "cancelling" /\ stop' = "closed"
  /\ \A j \in awaited : TaskDone(j)
  /\ UNCHANGED <<jobVars, itemVars, cancelled, fileVars, ticket, call, awaited>>

Stop == StopAccepting \/ CoordinatorCloses \/ CancelJobs \/ CancelUnbegun \/ JobsClosed

\* Nothing is left to do.
Stopped ==
  /\ stop = "closed" /\ \A c \in Clients : call[c] = None
  /\ UNCHANGED vars

-----------------------------------------------------------------------------
Next ==
  \/ \E c \in Clients : ClientStep(c)
  \/ CoordinatorStep
  \/ \E u \in Units : ItemStep(u) \/ \E op \in DiskOps : ThreadEnds(u, op)
  \/ \E j \in JobIds : BatchStep(j)
  \/ Stop \/ Stopped

Spec == Init /\ [][Next]_vars

\* The event loop runs every task that can go on; threads and the
\* coordinator's image timeouts end what a task waits for; stop() runs on once
\* it was called.
Fairness ==
  /\ \A c \in Clients : WF_vars(Answer(c))
  /\ WF_vars(CoordinatorStep)
  /\ \A u \in Units : /\ WF_vars(ItemStep(u))
                       /\ \A op \in DiskOps : WF_vars(ThreadEnds(u, op))
  /\ \A j \in JobIds : WF_vars(BatchStep(j))
  /\ WF_vars(CoordinatorCloses \/ CancelJobs \/ JobsClosed)

FairSpec == Spec /\ Fairness
=============================================================================
