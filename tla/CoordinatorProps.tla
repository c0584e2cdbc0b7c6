-------------------------- MODULE CoordinatorProps --------------------------
(* What the coordinator promises: the properties checked of Coordinator.   *)
EXTENDS Coordinator

Granted == {c \in Chats : granted[c]}

\* ComfyUI is executing, or about to execute, for the dispatcher.
ComfyAtWork == pc \in {"submit", "prompt", "interrupt"}

-----------------------------------------------------------------------------
(* The GPU has one user.                                                   *)

\* While the dispatcher submits a workflow or monitors its prompt, no chat
\* holds a lease, the LLM backend has no model in GPU memory, and no load that
\* an earlier timeout left behind can put one there (_activate_comfy).
Exclusion ==
  ComfyAtWork => /\ Granted = {}
                 /\ llm = None
                 /\ ~late

\* A chat lease is only ever held while the LLM is the confirmed owner, with a
\* restore point to come back to, outside any lifecycle call, and with no load
\* pending from a failed acquisition or a failed router request; backends that
\* serve one request at a time hold one lease (_dispatch_chat).
LeaseOwnsGpu ==
  Granted # {} =>
    /\ owner = "llm" /\ ~recoverable /\ restorePoint # None
    /\ pc \in {"next", "chatDrain", "imageDrain", "dead"}
    /\ ~late
    /\ Serial => Cardinality(Granted) = 1

\* A lease serves the model it was asked for: the restore point is the target,
\* and unless clients choose the model themselves it is the one loaded.
LeaseServesModel ==
  \A c \in Granted :
    /\ target[c] # None => restorePoint = target[c]
    /\ ~Reserving /\ Kind # "tabbyapi" => llm = restorePoint

\* Nothing of ComfyUI is left on the GPU, running or cached, while a chat holds
\* a lease (_restore_llm, ComfyClient.free_models).
CleanLease == Granted # {} => comfyClean /\ running = {}

-----------------------------------------------------------------------------
(* Side requests keep out of the way of a handoff.                         *)

\* No metadata read or abort is in flight to the LLM backend while the
\* dispatcher loads, unloads or inspects it, whichever of the two admission
\* rules let it in (passive_llm_metadata, router_control).
MetadataQuiet == activeMeta > 0 => pc \notin Lifecycle

\* A ComfyUI control request in flight pins ComfyUI's ownership: cleanup only
\* starts when the last one has ended (comfy_control_lease, _restore_llm).
ControlsPinOwner == activeControls > 0 => owner = "comfy" /\ pc \notin Lifecycle

\* A history deletion only ever waits for a prompt that is being monitored, so
\* the event it waits for is still to be set (wait_before_history_delete).
HistoryHeld == historyWait = "blocked" => prompt # None /\ pc \in {"prompt", "interrupt"}

\* The state that /broker/status reports, and that the admission rules of side
\* requests read, never names an owner that does not own the GPU.
StateNamesOwner ==
  /\ state \in {"llm_ready", "llm_reserved"} => owner = "llm"
  /\ state \in {"comfy_ready", "image_active"} => owner = "comfy"
  /\ state = "awaiting_request" => owner = "unknown"

-----------------------------------------------------------------------------
(* The FIFO and the dispatcher.                                            *)

\* The counters that capacity checks and drains read are exactly what is
\* queued and leased, whichever of cancellation, dispatch and shutdown removed
\* a request first; no request is queued twice; a batch stays together.
Accounting ==
  /\ waitingChats = Cardinality(QueuedIn(Chats))
  /\ waitingImages = Cardinality(QueuedIn(Images))
  /\ Len(queue) = waitingChats + waitingImages
  /\ queuedBytes = Bytes(QueuedIn(Images))
  /\ waitingImages <= MaxQueuedImages /\ queuedBytes <= MaxQueuedBytes
  /\ activeChats = Cardinality(Granted)
  /\ current \notin Elements(queue)
  /\ \A b \in Batches : \A j, k \in DOMAIN queue :
       /\ {queue[j], queue[k]} \subseteq Elements(b)
       /\ image[queue[j]] = "batch"
       => \A n \in j .. k : queue[n] \in Elements(b)

\* The dispatcher never sleeps through a change that ends its wait.
NoLostWakeup == pc \in Waiting /\ ~closing /\ ~Blocked => notified

InHands(w) == \/ w \in Elements(queue) /\ pc # "dead"
              \/ current = w /\ ~cancelled

\* Every future somebody reads is already set, or belongs to work that is
\* queued for a live dispatcher or in its hands: nobody waits for an answer that will
\* never come, shutdown included.
NoOrphan ==
  /\ \A c \in Chats :
       chat[c] = "waiting" /\ ready[c] = "pending" =>
         InHands(c)
  /\ \A i \in Images :
       \/ image[i] \in {"waiting", "batch"} /\ submitted[i] = "pending"
       \/ image[i] \in {"generating", "batch"} /\ completion[i] = "pending"
       => InHands(i)

\* Its client or batch still waits for the image, and has no answer yet.
ImageWanted(i) ==
  /\ image[i] \in {"waiting", "batch"}
  /\ submitted[i] = "pending" /\ completion[i] = "pending"

\* A workflow whose client disconnected, or whose batch gave up, at whatever
\* await of the handoff that was, is never submitted to ComfyUI, and a chat that
\* left is never granted a lease: clients leave by themselves, and the
\* dispatcher only knows of it by what they did to its FIFO and to the flag of
\* the work in its hands (chat_lease, submit_image, image_batch; _dispatch_chat,
\* _dispatch_image).
WorkStartsWanted ==
  [][/\ pc' = "submit" /\ pc # "submit" => ImageWanted(current')
     /\ \A c \in Chats : granted'[c] /\ ~granted[c] => chat[c] = "waiting"]_vars

-----------------------------------------------------------------------------
(* Liveness, under the timeouts of the dispatcher's calls.                 *)

\* Every queued chat is granted or refused.
ChatsAnswered ==
  \A c \in Chats : ready[c] = "pending" ~> ready[c] # "pending"

\* Every submitted workflow gets its response or an error, and every ticket
\* its outputs or an error.
ImagesAnswered ==
  \A i \in Images : /\ submitted[i] = "pending" ~> submitted[i] # "pending"
                    /\ completion[i] = "pending" ~> completion[i] # "pending"

\* Shutdown ends the dispatcher, wherever it was.
ShutdownCompletes == closing ~> pc = "dead"

\* A deletion that waits for a prompt goes ahead.
DeletionProceeds == historyWait = "blocked" ~> historyWait # "blocked"
-----------------------------------------------------------------------------
(* Promises of the documentation that the code does not keep.              *)

\* docs/GATEWAY_AND_GPU_LEASES.md: "The coordinator never grants the
\* destination backend before the source release succeeds."  An eager backend
\* is not observed before ComfyUI gets the GPU, so after a failed release the
\* next image is granted it although nothing was released (_activate_comfy).
ReleasedBeforeGrant == owner = "comfy" => llm = None

\* docs/GATEWAY_AND_GPU_LEASES.md: "the next generation waits for existing
\* metadata operations to finish".  New ones are admitted while it waits, so
\* it may wait forever although each of them ends (_dispatch_chat).
GenerationProceeds == pc = "chatDrain" ~> pc # "chatDrain"

\* Clients that end every lease and every metadata read, and a dispatcher that
\* gets to run whenever the drain of the serial wait keeps coming to an end.
PatientClients ==
  /\ WF_vars(MetadataDone /\ SideFrame)
  /\ \A c \in Chats : WF_vars((ChatEnter(c) \/ ChatExit(c)) /\ ChatFrame)
  /\ SF_vars(ChatDrained /\ RestoreFrame)

PatientSpec == FairSpec /\ PatientClients
=============================================================================
