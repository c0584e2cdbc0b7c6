---------------------------- MODULE Coordinator -----------------------------
(***************************************************************************)
(* HandoffCoordinator (src/st_proxy/coordinator.py): one FIFO of chat and  *)
(* image requests, one dispatcher task that serves it, and the leases that *)
(* decide which of the LLM backend and ComfyUI may use the GPU.            *)
(*                                                                         *)
(* The program is a set of asyncio tasks, so a step is the code a task     *)
(* runs between two suspensions.  The lock of the coordinator's condition  *)
(* is never held across a suspension: `async with self._condition' is not  *)
(* a scheduling point, and only condition.wait() and calls that leave the  *)
(* process are.  pc names the suspension the dispatcher is in.             *)
(***************************************************************************)
EXTENDS GpuBackends, Sequences, FiniteSets, FiniteSetsExt

CONSTANTS
  Chats,            \* chat requests; an id is reused once its request is gone
  Batches,          \* the image batches clients submit: disjoint sequences of images
  Size,             \* [Images -> Nat]: bytes of a workflow's body
  MaxBodyBytes,     \* config.max_workflow_body_bytes
  MaxQueuedImages,  \* config.max_queued_images
  MaxQueuedBytes,   \* config.max_queued_workflow_bytes
  MetaBound,        \* bound: metadata reads open at once
  ControlBound      \* bound: ComfyUI control requests open at once

Work == Chats \cup Images

ASSUME WorkAssumption ==
  /\ Chats \cap Images = {}
  /\ None \notin Work
  /\ IsFiniteSet(Chats)
  /\ IsFiniteSet(Images)

\* Every batch consists of requests of its own.
ASSUME BatchAssumption ==
  /\ Batches \subseteq Seq(Images)
  /\ \A b \in Batches : \A i, j \in DOMAIN b : i # j => b[i] # b[j]
  /\ \A b, d \in Batches :
       (\E i \in DOMAIN b, j \in DOMAIN d : b[i] = d[j]) => b = d

\* The configuration refuses a limit that is not positive.
ASSUME SizeAssumption ==
  /\ Size \in [Images -> Nat]
  /\ MaxQueuedImages \in Nat
  /\ MaxQueuedBytes \in Nat

VARIABLES
  \* the dispatcher task
  pc,              \* the suspension it is in
  current,         \* the work in its hands (_dispatch's `current'), or None
  cancelled,       \* current's `cancelled' flag; cancelled work in the queue is removed
  notified,        \* a waiting dispatcher has a wake-up pending; else TRUE
  prompt,          \* the image of _active_prompt_id, or None
  \* ownership
  owner,           \* GpuOwner
  state,           \* HandoffState
  recoverable,     \* _recoverable_error is set
  fatal,           \* _fatal_error is set
  closing,
  restorePoint,
  validated,       \* _control_validated
  \* the FIFO and its counters
  queue,
  waitingChats,
  waitingImages,
  queuedBytes,
  \* leases
  activeChats,
  activeMeta,      \* _active_llm_metadata
  activeControls,  \* _active_comfy_controls
  \* requests, with the futures they wait on ("none" once a request is gone)
  chat,            \* [Chats -> out, waiting, entered]
  target,          \* ChatWork.target
  ready,           \* ChatWork.ready
  granted,         \* ChatWork.granted
  image,           \* [Images -> out, waiting, generating, batch]
  submitted,       \* ImageWork.submitted
  completion,      \* ImageWork.completion
  historyWait      \* a history deletion: none, blocked on _active_prompt_terminal, free

dispatcherVars == <<pc, current, cancelled, notified>>
queueVars == <<queue, waitingChats, waitingImages, queuedBytes>>
grantVars == <<ready, granted, activeChats>>
futureVars == <<submitted, completion>>
sideVars == <<activeMeta, activeControls>>
promptVars == <<prompt, historyWait>>
ownerVars == <<owner, state, recoverable, restorePoint>>
lifeVars == <<fatal, closing>>

vars == <<gpuVars, dispatcherVars, queueVars, chat, target, grantVars, image, futureVars,
          sideVars, promptVars, ownerVars, lifeVars, validated>>

-----------------------------------------------------------------------------
(* Types.                                                                  *)

Owners == {"llm", "comfy", "unknown"}

HandoffStates ==
  {"initializing", "awaiting_request", "verifying_llm", "llm_ready",
   "llm_reserved", "draining_llm", "unloading_llm", "comfy_ready",
   "image_active", "cleaning_comfy", "reloading_llm", "error", "shutting_down"}

\* Where the dispatcher waits on the condition, and where for an LLM lifecycle
\* call or ComfyUI cleanup.  "boot" is before initialize().
Waiting == {"next", "chatDrain", "controlDrain", "imageDrain"}
RestoreCalls == {"cleanup", "restoreValidate", "restoreRelease",
                 "restoreObserve", "acquire"}
ActivateCalls == {"imageValidate", "imageAcquire", "imageObserve", "release"}
Lifecycle == RestoreCalls \cup ActivateCalls

\* Where its current work is a chat, an image, or none.
ChatPCs == {"chatDrain", "controlDrain"} \cup RestoreCalls
ImagePCs == {"imageDrain", "submit", "prompt", "interrupt"} \cup ActivateCalls
IdlePCs == {"boot", "next", "dead"}

Futures == {"none", "pending", "ok", "error"}

DispatcherTypeOK ==
  /\ pc \in ChatPCs \cup ImagePCs \cup IdlePCs
  /\ pc \in ChatPCs => current \in Chats
  /\ pc \in ImagePCs => current \in Images
  /\ pc \in IdlePCs => current = None
  /\ cancelled \in BOOLEAN
  /\ notified \in BOOLEAN

OwnerTypeOK ==
  /\ owner \in Owners
  /\ state \in HandoffStates
  /\ recoverable \in BOOLEAN
  /\ restorePoint \in RestorePoints

QueueTypeOK ==
  /\ queue \in Seq(Work)
  /\ waitingChats \in Int
  /\ waitingImages \in Int

ChatTypeOK ==
  /\ chat \in [Chats -> {"out", "waiting", "entered"}]
  /\ target \in [Chats -> Models \cup {None}]

GrantTypeOK ==
  /\ ready \in [Chats -> Futures]
  /\ granted \in [Chats -> BOOLEAN]
  /\ activeChats \in Int

ImageTypeOK ==
  /\ image \in [Images -> {"out", "waiting", "generating", "batch"}]
  /\ submitted \in [Images -> Futures]
  /\ completion \in [Images -> Futures]

SideTypeOK ==
  /\ activeMeta \in Nat
  /\ activeControls \in Nat
  /\ prompt \in Images \cup {None}
  /\ historyWait \in {"none", "blocked", "free"}

LifeTypeOK ==
  /\ fatal \in BOOLEAN
  /\ closing \in BOOLEAN
  /\ validated \in BOOLEAN

TypeOK ==
  /\ GpuTypeOK /\ DispatcherTypeOK /\ OwnerTypeOK /\ QueueTypeOK
  /\ ChatTypeOK /\ GrantTypeOK /\ ImageTypeOK /\ SideTypeOK /\ LifeTypeOK

Init ==
  /\ GpuInit
  /\ pc = "boot" /\ current = None /\ cancelled = FALSE /\ notified = TRUE
  /\ prompt = None /\ historyWait = "none"
  /\ owner = "unknown" /\ state = "initializing"
  /\ recoverable = FALSE /\ fatal = FALSE /\ closing = FALSE
  /\ restorePoint = None /\ validated = FALSE
  /\ queue = <<>> /\ waitingChats = 0 /\ waitingImages = 0 /\ queuedBytes = 0
  /\ activeChats = 0 /\ activeMeta = 0 /\ activeControls = 0
  /\ chat = [c \in Chats |-> "out"] /\ target = [c \in Chats |-> None]
  /\ ready = [c \in Chats |-> "none"] /\ granted = [c \in Chats |-> FALSE]
  /\ image = [i \in Images |-> "out"]
  /\ submitted = [i \in Images |-> "none"]
  /\ completion = [i \in Images |-> "none"]

-----------------------------------------------------------------------------
(* Helpers.                                                                *)

Accepting == ~closing /\ ~fatal /\ pc # "boot"

\* Mutant: nobody is woken.
NotifyNobody == UNCHANGED notified

\* notify_all(): only the dispatcher ever waits on the condition.
Notify == notified' = TRUE

Elements(s) == {s[k] : k \in DOMAIN s}
QueuedIn(S) == S \cap Elements(queue)
Bytes(S) == MapThenSumSet(LAMBDA i : Size[i], S)

\* q without its positions lo..hi
Cut(q, lo, hi) == SubSeq(q, 1, lo - 1) \o SubSeq(q, hi + 1, Len(q))

\* _remove_queued for every work of S still queued; they are consecutive.
RemoveQueued(S) ==
  IF QueuedIn(S) = {} THEN UNCHANGED queue
  ELSE \E lo, hi \in DOMAIN queue :
         /\ lo <= hi
         /\ QueuedIn(S) = {queue[k] : k \in lo .. hi}
         /\ queue' = Cut(queue, lo, hi)

\* set_result(v) on the futures of S, except those that are done() or whose
\* reader is gone.
Settle(f, S, v) ==
  [w \in DOMAIN f |-> IF w \in S /\ f[w] = "pending" THEN v ELSE f[w]]

\* f with the value v for every member of S
Assign(f, S, v) == [w \in DOMAIN f |-> IF w \in S THEN v ELSE f[w]]

-----------------------------------------------------------------------------
(* Chat requests: chat_lease().                                            *)

ChatFrame == UNCHANGED <<llm, comfyVars, pc, current, waitingImages, queuedBytes, image,
                         futureVars, sideVars, promptVars, owner, restorePoint, lifeVars,
                         validated>>

\* Mutant: a chat does not wait behind the images.
ChatEnqueueFirst(c, t) ==
  /\ Accepting
  /\ chat[c] = "out" /\ current # c
  /\ queue' = <<c>> \o queue
  /\ waitingChats' = waitingChats + 1
  /\ chat' = [chat EXCEPT ![c] = "waiting"]
  /\ target' = [target EXCEPT ![c] = t]
  /\ ready' = [ready EXCEPT ![c] = "pending"]
  /\ Notify
  /\ UNCHANGED <<late, cancelled, granted, activeChats, state, recoverable>>

ChatEnqueue(c, t) ==
  /\ Accepting
  /\ chat[c] = "out" /\ current # c
  /\ queue' = Append(queue, c)
  /\ waitingChats' = waitingChats + 1
  /\ chat' = [chat EXCEPT ![c] = "waiting"]
  /\ target' = [target EXCEPT ![c] = t]
  /\ ready' = [ready EXCEPT ![c] = "pending"]
  /\ Notify
  /\ UNCHANGED <<late, cancelled, granted, activeChats, state, recoverable>>

\* The waiting task runs again and enters the lease.
ChatEnter(c) ==
  /\ chat[c] = "waiting" /\ ready[c] = "ok"
  /\ chat' = [chat EXCEPT ![c] = "entered"]
  /\ UNCHANGED <<late, cancelled, notified, queue, waitingChats, target, grantVars, state, recoverable>>

\* Mutant: the end of a lease is not announced.
LeaveLeaseSilent(c) ==
  /\ chat' = [chat EXCEPT ![c] = "out"]
  /\ ready' = [ready EXCEPT ![c] = "none"]
  /\ granted' = [granted EXCEPT ![c] = FALSE]
  /\ activeChats' = IF granted[c] THEN activeChats - 1 ELSE activeChats
  /\ UNCHANGED <<target, notified>>

\* The `finally' of chat_lease, from `if work.granted' on.
LeaveLease(c) ==
  /\ chat' = [chat EXCEPT ![c] = "out"]
  /\ ready' = [ready EXCEPT ![c] = "none"]
  /\ granted' = [granted EXCEPT ![c] = FALSE]
  /\ activeChats' = IF granted[c] THEN activeChats - 1 ELSE activeChats
  /\ Notify
  /\ UNCHANGED target

\* Refused, or its client disconnected before the lease was entered: queued,
\* in the dispatcher's hands, or granted with the wake-up still to come.
ChatAbandon(c) ==
  /\ chat[c] = "waiting"
  /\ cancelled' = (cancelled \/ current = c)
  /\ RemoveQueued({c})
  /\ waitingChats' = waitingChats - Cardinality(QueuedIn({c}))
  /\ LeaveLease(c)
  /\ UNCHANGED <<late, state, recoverable>>

ChatExit(c) ==
  /\ chat[c] = "entered"
  /\ LeaveLease(c)
  /\ UNCHANGED <<late, cancelled, queue, waitingChats, state, recoverable>>

\* router_request_failed(), then the end of the lease: the upstream request
\* ended badly and the backend may go on loading for it.
ChatFails(c) ==
  /\ Reserving
  /\ chat[c] = "entered"
  /\ recoverable' = TRUE /\ state' = "error"
  /\ late' \in {late, TRUE}
  /\ LeaveLease(c)
  /\ UNCHANGED <<cancelled, queue, waitingChats>>

\* Requests of the targeted backends carry a target; the others never do.
Targets == IF Targeted THEN Models ELSE {None}

ChatStep(c) ==
  /\ \/ \E t \in Targets : ChatEnqueue(c, t)
     \/ ChatEnter(c)
     \/ ChatAbandon(c)
     \/ ChatExit(c)
     \/ ChatFails(c)
  /\ ChatFrame

-----------------------------------------------------------------------------
(* Image requests: submit_image() and image_batch().  Every work carries a *)
(* completion future; an HTTP client just does not wait for it.            *)

RequestFrame == UNCHANGED <<gpuVars, pc, current, waitingChats, chat, target, grantVars,
                            sideVars, promptVars, ownerVars, lifeVars, validated>>

\* _check_image_capacity
CapacityOk(S) ==
  /\ \A i \in S : Size[i] <= MaxBodyBytes
  /\ waitingImages + Cardinality(S) <= MaxQueuedImages
  /\ queuedBytes + Bytes(S) <= MaxQueuedBytes

\* The images of s join the FIFO, all or none, in consecutive places.
ImageEnqueue(s, status) ==
  LET S == Elements(s) IN
  /\ Accepting
  /\ \A i \in S : image[i] = "out" /\ current # i /\ i \notin running
  /\ CapacityOk(S)
  /\ queue' = queue \o s
  /\ waitingImages' = waitingImages + Cardinality(S)
  /\ queuedBytes' = queuedBytes + Bytes(S)
  /\ image' = Assign(image, S, status)
  /\ submitted' = Assign(submitted, S, "pending")
  /\ completion' = Assign(completion, S, "pending")
  /\ Notify
  /\ UNCHANGED cancelled

\* The requests of S are over: nobody reads their futures any more.
ForgetImages(S) ==
  /\ image' = Assign(image, S, "out")
  /\ submitted' = Assign(submitted, S, "none")
  /\ completion' = Assign(completion, S, "none")

\* submit_image returns the response, and the caller may wait for the outputs.
ImageReply(i) ==
  /\ image[i] = "waiting" /\ submitted[i] = "ok"
  /\ image' = [image EXCEPT ![i] = "generating"]
  /\ UNCHANGED <<cancelled, notified, queue, waitingImages, queuedBytes, futureVars>>

\* ... until it has them, or stops waiting.
ImageFinish(i) ==
  /\ image[i] = "generating"
  /\ ForgetImages({i})
  /\ UNCHANGED <<cancelled, notified, queue, waitingImages, queuedBytes>>

\* Mutant: work that was dispatched is taken off the counters again.
CancelImagesTwice(S) ==
  /\ cancelled' = (cancelled \/ current \in S)
  /\ RemoveQueued(S)
  /\ waitingImages' = waitingImages - Cardinality(S)
  /\ queuedBytes' = queuedBytes - Bytes(S)
  /\ Notify

\* Mutant: a withdrawal only reaches what still queues.
CancelQueuedOnly(S) ==
  /\ UNCHANGED cancelled
  /\ RemoveQueued(S)
  /\ waitingImages' = waitingImages - Cardinality(QueuedIn(S))
  /\ queuedBytes' = queuedBytes - Bytes(QueuedIn(S))
  /\ Notify

\* The works of S are cancelled, and leave the FIFO if they still queue there.
CancelImages(S) ==
  /\ cancelled' = (cancelled \/ current \in S)
  /\ RemoveQueued(S)
  /\ waitingImages' = waitingImages - Cardinality(QueuedIn(S))
  /\ queuedBytes' = queuedBytes - Bytes(QueuedIn(S))
  /\ Notify

\* The submitting client disconnects, or is refused.
ImageAbandon(i) ==
  /\ image[i] = "waiting"
  /\ CancelImages({i})
  /\ ForgetImages({i})

\* The `finally' of image_batch: every ticket is complete, or the job gave up.
BatchLeave(b) ==
  /\ \A i \in Elements(b) : image[i] = "batch"
  /\ CancelImages({i \in Elements(b) : completion[i] = "pending"})
  /\ ForgetImages(Elements(b))

ImageStep ==
  /\ \/ \E i \in Images : \/ ImageEnqueue(<<i>>, "waiting")
                          \/ ImageReply(i)
                          \/ ImageFinish(i)
                          \/ ImageAbandon(i)
     \/ \E b \in Batches : ImageEnqueue(b, "batch") \/ BatchLeave(b)
  /\ RequestFrame

-----------------------------------------------------------------------------
(* Side requests, which take no place in the FIFO.                         *)

SideFrame == UNCHANGED <<gpuVars, pc, current, cancelled, queueVars, chat, target, grantVars,
                         image, futureVars, prompt, ownerVars, lifeVars, validated>>

MetadataBegin ==
  /\ ~closing
  /\ activeMeta < MetaBound
  /\ activeMeta' = activeMeta + 1
  /\ UNCHANGED <<notified, activeControls, historyWait>>

\* passive_llm_metadata()
PassiveMetadata ==
  /\ Kind \notin {"all", "ollama"}
  /\ ~fatal /\ ~recoverable
  /\ owner = "llm" /\ state \in {"llm_ready", "llm_reserved"}
  /\ RouterMode => activeChats = 0
  /\ MetadataBegin

\* router_control(): a read, or the abort of an active chat.
RouterControl ==
  /\ Reserving
  /\ \/ activeChats > 0  \* an abort
     \/ state \in {"awaiting_request", "llm_reserved", "llm_ready", "comfy_ready",
                   "image_active"}
  /\ MetadataBegin

MetadataDone ==
  /\ activeMeta > 0
  /\ activeMeta' = activeMeta - 1
  /\ Notify
  /\ UNCHANGED <<activeControls, historyWait>>

\* comfy_control_lease()
ControlBegin ==
  /\ ~closing /\ ~fatal
  /\ owner = "comfy" /\ state \in {"comfy_ready", "image_active"}
  /\ activeControls < ControlBound
  /\ activeControls' = activeControls + 1
  /\ UNCHANGED <<notified, activeMeta, historyWait>>

ControlDone ==
  /\ activeControls > 0
  /\ activeControls' = activeControls - 1
  /\ Notify
  /\ UNCHANGED <<activeMeta, historyWait>>

\* wait_before_history_delete() for the active prompt; any other deletion
\* goes ahead without touching the coordinator.
HistoryDelete ==
  /\ prompt # None /\ historyWait = "none"
  /\ historyWait' = "blocked"
  /\ UNCHANGED <<notified, sideVars>>

HistoryProceed ==
  /\ historyWait = "free"
  /\ historyWait' = "none"
  /\ UNCHANGED <<notified, sideVars>>

SideStep ==
  /\ \/ PassiveMetadata \/ RouterControl \/ MetadataDone
     \/ ControlBegin \/ ControlDone
     \/ HistoryDelete \/ HistoryProceed
  /\ SideFrame

-----------------------------------------------------------------------------
(* The dispatcher task.  A stretch of code that would run on through       *)
(* several loop iterations is cut at _next_work and at the wait loops,     *)
(* where other tasks may then run too.  close() cancels the task, so from  *)
(* then on only DispatcherCancelled and what follows it can happen.        *)

At(p) == pc = p /\ ~closing
Awake(p) == At(p) /\ notified

GoTo(p) == pc' = p /\ notified' = TRUE /\ UNCHANGED <<current, cancelled>>

NextWork == /\ pc' = "next" /\ current' = None
            /\ cancelled' = FALSE /\ notified' = TRUE

\* Mutants: a drain that overlooks leases, metadata reads or ComfyUI controls.
BlockedSkipsLeases ==
  \/ pc = "next" /\ queue = <<>> /\ ~closing
  \/ pc \in {"chatDrain", "imageDrain"} /\ activeMeta > 0 /\ ~cancelled
  \/ pc = "controlDrain" /\ activeControls > 0
BlockedSkipsMetadata ==
  \/ pc = "next" /\ queue = <<>> /\ ~closing
  \/ pc \in {"chatDrain", "imageDrain"} /\ activeChats > 0 /\ ~cancelled
  \/ pc = "controlDrain" /\ activeControls > 0
BlockedSkipsControls ==
  \/ pc = "next" /\ queue = <<>> /\ ~closing
  \/ pc \in {"chatDrain", "imageDrain"} /\ activeChats + activeMeta > 0 /\ ~cancelled

\* The loop condition of the condition.wait() the dispatcher is at.
Blocked ==
  \/ pc = "next" /\ queue = <<>> /\ ~closing
  \/ pc \in {"chatDrain", "imageDrain"} /\ activeChats + activeMeta > 0 /\ ~cancelled
  \/ pc = "controlDrain" /\ activeControls > 0

DispatcherWaits ==
  /\ ~closing /\ notified
  /\ Blocked
  /\ notified' = FALSE
  /\ UNCHANGED <<gpuVars, pc, current, cancelled, queueVars, chat, target, grantVars, image,
                 futureVars, sideVars, promptVars, ownerVars, lifeVars, validated>>

-----------------------------------------------------------------------------
(* _dispatch_chat() and _restore_llm().                                    *)

ServeFrame == UNCHANGED <<waitingImages, queuedBytes, chat, target, image, futureVars, sideVars,
                          promptVars, lifeVars>>
RestoreFrame == ServeFrame /\ UNCHANGED <<queue, waitingChats>>

\* Mutants: a grant that trusts the owner alone, or forgets the target.
NeedsRestoreByOwner(c) == owner # "llm" \/ (target[c] # None /\ target[c] # restorePoint)
NeedsRestoreAnyTarget(c) == owner # "llm" \/ recoverable

NeedsRestore(c) ==
  \/ owner # "llm"
  \/ recoverable
  \/ target[c] # None /\ target[c] # restorePoint

\* Grant the lease, unless the client left meanwhile; s is the state before.
Grant(c, s) ==
  /\ IF cancelled
       THEN state' = s /\ UNCHANGED grantVars
       ELSE /\ granted' = [granted EXCEPT ![c] = TRUE]
            /\ activeChats' = activeChats + 1
            /\ ready' = Settle(ready, {c}, "ok")
            /\ state' = IF Reserving THEN "llm_reserved"
                        ELSE IF Serial THEN "llm_ready"
                        ELSE s
  /\ NextWork

\* Mutant: a change of model never cleans ComfyUI up.
NeedsCleanupUntargeted(c) == target[c] = None

\* ComfyUI is cleaned up unless the LLM already owns the GPU and only has to
\* change models.
NeedsCleanup(c) == owner # "llm" \/ target[c] = None

\* The first part of _restore_llm.
BeginRestore(c, s) ==
  /\ IF NeedsCleanup(c)
       THEN pc' = "controlDrain" /\ state' = "cleaning_comfy" /\ UNCHANGED owner
       ELSE pc' = "restoreValidate" /\ state' = s /\ owner' = "unknown"
  /\ current' = c /\ notified' = TRUE
  /\ UNCHANGED <<cancelled, grantVars>>

PrepareChat(c, s) == IF NeedsRestore(c) THEN BeginRestore(c, s)
                                        ELSE Grant(c, s) /\ UNCHANGED owner

TakeChat ==
  /\ Awake("next")
  /\ queue # <<>> /\ Head(queue) \in Chats
  /\ queue' = Tail(queue)
  /\ waitingChats' = waitingChats - 1
  /\ IF Serial
       THEN /\ pc' = "chatDrain"
            /\ current' = Head(queue)
            /\ UNCHANGED <<cancelled, notified, grantVars, owner, state>>
       ELSE PrepareChat(Head(queue), state)
  /\ UNCHANGED <<gpuVars, recoverable, restorePoint, validated>>
  /\ ServeFrame

\* The serial wait for earlier chats and open metadata reads is over.
ChatDrained ==
  /\ Awake("chatDrain") /\ ~Blocked
  /\ IF cancelled THEN NextWork /\ UNCHANGED <<grantVars, owner, state>>
                  ELSE PrepareChat(current, "draining_llm")
  /\ UNCHANGED <<gpuVars, recoverable, restorePoint, validated>>

ControlsDrained ==
  /\ Awake("controlDrain") /\ ~Blocked
  /\ GoTo("cleanup")
  /\ UNCHANGED <<gpuVars, grantVars, ownerVars, validated>>

CleanupReturns ==
  /\ At("cleanup")
  /\ FreeOk
  /\ owner' = "unknown"
  /\ GoTo("restoreValidate")
  /\ UNCHANGED <<llmVars, grantVars, state, recoverable, restorePoint, validated>>

\* The call that follows a validated control interface.  After a failed cold
\* load of TabbyAPI an observation cannot stand in for its own reconciliation.
RestoreCall ==
  IF target[current] = None /\ RouterMode /\ recoverable /\ restorePoint # None
    THEN "restoreRelease"
  ELSE IF /\ target[current] = None /\ restorePoint = None
          /\ Passive /\ ~RouterMode /\ ~(Kind = "tabbyapi" /\ recoverable)
    THEN "restoreObserve"
    ELSE "acquire"

RestoreValidated ==
  /\ At("restoreValidate")
  /\ validated' = TRUE
  /\ GoTo(RestoreCall)
  /\ state' = IF RestoreCall = "acquire" /\ ~RouterMode THEN "reloading_llm" ELSE state
  /\ UNCHANGED <<gpuVars, grantVars, owner, recoverable, restorePoint>>

RestoreReleased ==
  /\ At("restoreRelease")
  /\ ReleaseOk
  /\ GoTo("acquire")
  /\ UNCHANGED <<comfyVars, grantVars, ownerVars, validated>>

\* The LLM owns the GPU, with the restore point p.
Restored(p) ==
  /\ owner' = "llm" /\ restorePoint' = p
  /\ recoverable' = FALSE
  /\ Grant(current, IF Reserving THEN "llm_reserved" ELSE "llm_ready")

RestoreObserved ==
  /\ At("restoreObserve")
  /\ \E p \in RestorePoints :
       /\ ObserveOk(p)
       /\ IF p # None
            THEN Restored(p)
            ELSE /\ GoTo("acquire") /\ state' = "reloading_llm"
                 /\ UNCHANGED <<owner, recoverable, restorePoint, grantVars>>
  /\ UNCHANGED <<comfyVars, validated>>

\* The argument of acquire_gpu.
AcquireTarget == IF target[current] # None THEN target[current]
                 ELSE IF RouterMode THEN None
                 ELSE restorePoint

RestoreAcquired ==
  /\ At("acquire")
  /\ \E p \in RestorePoints : AcquireOk(AcquireTarget, p) /\ Restored(p)
  /\ UNCHANGED <<comfyVars, validated>>

\* Any call of _restore_llm fails, or its wait for ComfyUI controls times out:
\* _mark_recoverable, and the chat is refused.
RestoreFails ==
  /\ \/ At("controlDrain") /\ UNCHANGED gpuVars
     \/ At("cleanup") /\ FreeFails /\ UNCHANGED llmVars
     \/ At("restoreValidate") /\ ~validated /\ UNCHANGED gpuVars
     \/ At("restoreRelease") /\ ReleaseFails /\ UNCHANGED comfyVars
     \/ At("restoreObserve") /\ UNCHANGED gpuVars
     \/ At("acquire") /\ AcquireFails /\ UNCHANGED comfyVars
  /\ recoverable' = TRUE /\ state' = "error"
  /\ ready' = Settle(ready, {current}, "error")
  /\ NextWork
  /\ UNCHANGED <<granted, activeChats, owner, restorePoint, validated>>

RestoreStep ==
  /\ \/ ChatDrained \/ ControlsDrained \/ CleanupReturns \/ RestoreValidated
     \/ RestoreReleased \/ RestoreObserved \/ RestoreAcquired \/ RestoreFails
  /\ RestoreFrame

-----------------------------------------------------------------------------
(* _dispatch_image() and _activate_comfy().                                *)

PopFrame == UNCHANGED <<waitingChats, chat, target, grantVars, image, sideVars, lifeVars>>
ImageFrame == PopFrame /\ UNCHANGED <<queue, waitingImages, queuedBytes>>

\* Mutant: the terminal event of the prompt is dropped without being set.
EndImageUnset == prompt' = None /\ NextWork /\ UNCHANGED historyWait

\* The `finally' of _dispatch_image.
EndImage ==
  /\ prompt' = None
  /\ historyWait' = IF historyWait = "blocked" THEN "free" ELSE historyWait
  /\ NextWork

\* Mutant: only the response is answered, not the outputs.
ResolveSubmittedOnly == /\ submitted' = Settle(submitted, {current}, "error")
                        /\ UNCHANGED completion

\* _resolve_image_error
ResolveImageError ==
  /\ submitted' = Settle(submitted, {current}, "error")
  /\ completion' = Settle(completion, {current}, "error")

\* ComfyUI gets the GPU, and the workflow unless its client left meanwhile.
StartImage ==
  /\ owner' = "comfy" /\ recoverable' = FALSE
  /\ IF cancelled
       THEN /\ state' = "comfy_ready"
            /\ ResolveImageError
            /\ EndImage /\ UNCHANGED comfyVars
       ELSE /\ state' = "image_active"
            /\ Occupy /\ GoTo("submit")
            /\ UNCHANGED <<running, futureVars, promptVars>>

TakeImage ==
  /\ Awake("next")
  /\ queue # <<>> /\ Head(queue) \in Images
  /\ queue' = Tail(queue)
  /\ waitingImages' = waitingImages - 1
  /\ queuedBytes' = queuedBytes - Size[Head(queue)]
  /\ current' = Head(queue)
  /\ IF owner = "comfy"
       THEN pc' = "submit" /\ state' = "image_active" /\ Occupy
       ELSE pc' = "imageDrain" /\ state' = "draining_llm" /\ UNCHANGED comfyClean
  /\ UNCHANGED <<llmVars, running, cancelled, notified, futureVars, promptVars, owner,
                 recoverable, restorePoint, validated>>
  /\ PopFrame

\* release_gpu is next: from here the GPU has no confirmed owner.
BeginRelease == owner' = "unknown" /\ state' = "unloading_llm" /\ GoTo("release")

\* No chat and no metadata read is left, or the client is gone.  A backend
\* that is not observed leaves the GPU to ComfyUI as it is.
ImageDrained ==
  /\ Awake("imageDrain") /\ ~Blocked
  /\ \/ /\ cancelled
        /\ state' = IF owner = "llm" THEN "llm_ready" ELSE "awaiting_request"
        /\ ResolveImageError /\ EndImage
        /\ UNCHANGED <<comfyVars, owner, recoverable>>
     \/ /\ ~cancelled
        /\ RouterMode \/ (Passive /\ owner = "unknown")
        /\ GoTo("imageValidate")
        /\ UNCHANGED <<comfyVars, futureVars, promptVars, owner, state, recoverable>>
     \/ /\ ~cancelled
        /\ ~RouterMode /\ owner = "llm"
        /\ BeginRelease
        /\ UNCHANGED <<comfyVars, futureVars, promptVars, recoverable>>
     \/ /\ ~cancelled
        /\ ~Passive /\ owner = "unknown"
        /\ StartImage
  /\ UNCHANGED <<llmVars, restorePoint, validated>>

ImageValidated ==
  /\ At("imageValidate")
  /\ validated' = TRUE
  /\ IF RouterMode /\ restorePoint # None
       THEN BeginRelease
       ELSE /\ GoTo(IF RouterMode THEN "imageAcquire" ELSE "imageObserve")
            /\ UNCHANGED <<owner, state>>
  /\ UNCHANGED <<gpuVars, futureVars, promptVars, recoverable, restorePoint>>

ImageAcquired ==
  /\ At("imageAcquire")
  /\ \E p \in RestorePoints : AcquireOk(None, p) /\ restorePoint' = p
  /\ BeginRelease
  /\ UNCHANGED <<comfyVars, futureVars, promptVars, recoverable, validated>>

ImageObserved ==
  /\ At("imageObserve")
  /\ \E p \in RestorePoints :
       /\ ObserveOk(p)
       /\ IF p # None
            THEN /\ restorePoint' = p /\ BeginRelease
                 /\ UNCHANGED <<comfyVars, recoverable, futureVars, promptVars>>
            ELSE StartImage /\ UNCHANGED restorePoint
  /\ UNCHANGED <<validated>>

\* TabbyAPI's release first brings the coordinator's restore point up to the
\* model a client selected natively.
SyncedPoint == IF Kind = "tabbyapi" /\ llm # None THEN llm ELSE restorePoint

ImageReleased ==
  /\ At("release")
  /\ ReleaseOk
  /\ restorePoint' = SyncedPoint
  /\ StartImage
  /\ UNCHANGED <<validated>>

SubmitAccepted ==
  /\ At("submit")
  /\ running' = running \cup {current}
  /\ submitted' = Settle(submitted, {current}, "ok")
  /\ prompt' = current
  /\ GoTo("prompt")
  /\ UNCHANGED <<llmVars, comfyClean, completion, historyWait, ownerVars, validated>>

PromptSucceeds ==
  /\ At("prompt")
  /\ current \notin running
  /\ completion' = Settle(completion, {current}, "ok")
  /\ state' = "comfy_ready"
  /\ EndImage
  /\ UNCHANGED <<gpuVars, submitted, owner, recoverable, restorePoint, validated>>

\* The drain times out, or a lifecycle call fails.
ActivationFails ==
  /\ \/ At("imageDrain") /\ UNCHANGED <<llmVars, restorePoint>>
     \/ At("imageValidate") /\ ~validated /\ UNCHANGED <<llmVars, restorePoint>>
     \/ At("imageAcquire") /\ AcquireFails /\ UNCHANGED restorePoint
     \/ At("imageObserve") /\ UNCHANGED <<llmVars, restorePoint>>
     \/ At("release") /\ ReleaseFails /\ restorePoint' \in {restorePoint, SyncedPoint}
  /\ submitted' = Settle(submitted, {current}, "error")
  /\ UNCHANGED comfyVars

\* No response; or an HTTP error or a response without a prompt_id, which the
\* client gets all the same.  ComfyUI may have accepted the prompt.
SubmitFails ==
  /\ At("submit")
  /\ running' \in {running, running \cup {current}}
  /\ \E v \in {"ok", "error"} : submitted' = Settle(submitted, {current}, v)
  /\ UNCHANGED <<llmVars, comfyClean, restorePoint>>

\* The history reports a failed prompt; or wait_for_prompt gives up, after
\* image_timeout or too many failed polls, and interrupts ComfyUI.
PromptFails ==
  /\ At("prompt")
  /\ \/ current \notin running /\ UNCHANGED comfyVars
     \/ InterruptPrompt(current)
  /\ UNCHANGED <<llmVars, submitted, restorePoint>>

\* The handler of _dispatch_image for an exception other than cancellation.
ImageFails ==
  /\ ActivationFails \/ SubmitFails \/ PromptFails
  /\ state' = IF owner = "comfy" THEN "comfy_ready"
               ELSE IF owner = "llm" THEN "llm_ready" ELSE "error"
  /\ recoverable' = (recoverable \/ owner = "unknown")
  /\ completion' = Settle(completion, {current}, "error")
  /\ EndImage
  /\ UNCHANGED <<owner, validated>>

ServeImageStep ==
  /\ \/ ImageDrained \/ ImageValidated \/ ImageAcquired \/ ImageObserved
     \/ ImageReleased \/ SubmitAccepted \/ PromptSucceeds \/ ImageFails
  /\ ImageFrame

-----------------------------------------------------------------------------
(* initialize() and close().                                               *)

BootFrame == UNCHANGED <<llmVars, running, current, cancelled, notified, queueVars, chat, target,
                         grantVars, image, futureVars, sideVars, promptVars, recoverable,
                         closing>>

\* No listener is open yet, so the awaits of initialize() are one step.
Initialize ==
  /\ pc = "boot"
  /\ \/ /\ Passive
        /\ pc' = "next" /\ state' = "awaiting_request"
        /\ UNCHANGED <<comfyClean, owner, fatal, restorePoint, validated>>
     \/ /\ ~Passive /\ llm # None
        /\ FreeOk
        /\ pc' = "next" /\ state' = "llm_ready"
        /\ owner' = "llm" /\ restorePoint' = llm
        /\ validated' = TRUE /\ UNCHANGED fatal
     \/ /\ ~Passive
        /\ pc' = "dead" /\ state' = "error"
        /\ fatal' = TRUE
        /\ comfyClean' \in BOOLEAN /\ validated' \in BOOLEAN
        /\ UNCHANGED <<owner, restorePoint>>
  /\ BootFrame

\* close() up to the wait for the dispatcher, whose task is cancelled.
Close ==
  /\ pc # "boot" /\ ~closing
  /\ closing' = TRUE /\ state' = "shutting_down"
  /\ queue' = <<>>
  /\ waitingChats' = waitingChats - Cardinality(QueuedIn(Chats))
  /\ waitingImages' = waitingImages - Cardinality(QueuedIn(Images))
  /\ queuedBytes' = queuedBytes - Bytes(QueuedIn(Images))
  /\ ready' = Settle(ready, QueuedIn(Chats), "error")
  /\ submitted' = Settle(submitted, QueuedIn(Images), "error")
  /\ completion' = Settle(completion, QueuedIn(Images), "error")
  /\ Notify
  /\ UNCHANGED <<gpuVars, pc, current, cancelled, chat, target, granted, activeChats, image,
                 sideVars, promptVars, owner, recoverable, restorePoint, fatal, validated>>

StopFrame == UNCHANGED <<llm, comfyClean, queueVars, chat, target, granted, activeChats, image,
                         sideVars, ownerVars, lifeVars, validated>>

\* The dispatcher's CancelledError handlers: the current work is answered.
StopDispatcher ==
  /\ pc' = "dead" /\ current' = None
  /\ cancelled' = FALSE /\ notified' = TRUE
  /\ prompt' = None
  /\ historyWait' = IF historyWait = "blocked" THEN "free" ELSE historyWait
  /\ ready' = Settle(ready, {current}, "error")
  /\ ResolveImageError

\* The cancellation reaches the dispatcher where it is suspended.  Whatever
\* call was in flight may still have its effect; an active prompt is
\* interrupted before the task ends.
DispatcherCancelled ==
  /\ closing
  /\ pc \notin {"boot", "prompt", "interrupt", "dead"}
  /\ late' \in {late, late \/ (pc = "acquire" /\ ~RouterMode)}
  /\ running' \in {running, IF pc = "submit" THEN running \cup {current} ELSE running}
  /\ StopDispatcher

PromptCancelled ==
  /\ closing /\ pc = "prompt"
  /\ GoTo("interrupt")
  /\ UNCHANGED <<late, running, ready, futureVars, promptVars>>

\* Mutant: the task ends only when the interrupted prompt has.
InterruptReturnsWhenDone ==
  /\ pc = "interrupt" /\ current \notin running
  /\ StopDispatcher
  /\ UNCHANGED <<late, running>>

InterruptReturns ==
  /\ pc = "interrupt"
  /\ InterruptPrompt(current)
  /\ StopDispatcher
  /\ UNCHANGED late

Shutdown ==
  /\ DispatcherCancelled \/ PromptCancelled \/ InterruptReturns
  /\ StopFrame

-----------------------------------------------------------------------------
(* The system.                                                             *)

\* A lease holder's request makes the backend load the model it names.
NativeLoad ==
  /\ Reserving \/ Kind = "tabbyapi"
  /\ \E c \in Chats : chat[c] = "entered"
  /\ llm' \in Models
  /\ UNCHANGED <<late, comfyVars>>

Environment ==
  /\ NativeLoad \/ LateLoad \/ PromptFinishes
  /\ UNCHANGED <<dispatcherVars, queueVars, chat, target, grantVars, image, futureVars,
                 sideVars, promptVars, ownerVars, lifeVars, validated>>

Dispatcher == \/ DispatcherWaits \/ TakeChat \/ RestoreStep
              \/ TakeImage \/ ServeImageStep \/ Shutdown

\* The broker has stopped and every request has been answered.
Stopped ==
  /\ pc = "dead" /\ closing
  /\ \A c \in Chats : chat[c] = "out"
  /\ \A i \in Images : image[i] = "out"
  /\ UNCHANGED vars

Next ==
  \/ Initialize
  \/ \E c \in Chats : ChatStep(c)
  \/ ImageStep
  \/ SideStep
  \/ Dispatcher
  \/ Close
  \/ Environment
  \/ Stopped

Spec == Init /\ [][Next]_vars

\* Every call the dispatcher makes and every drain of the image path is bounded
\* by a timeout, so the task keeps running; so do the waits that can be cut off.
DrainTimeout(p) == /\ pc = p
                   /\ (RestoreFails /\ RestoreFrame) \/ (ImageFails /\ ImageFrame)

Fairness ==
  /\ WF_vars(Dispatcher)
  /\ WF_vars(DrainTimeout("controlDrain"))
  /\ WF_vars(DrainTimeout("imageDrain"))

FairSpec == Spec /\ Fairness
=============================================================================
