--------------------------- MODULE CoordinatorInv ---------------------------
(* The inductive invariant from which the safety properties of the         *)
(* coordinator follow, in named parts.                                     *)
EXTENDS CoordinatorProps

\* The states in which no side request to either program is admitted.
QuietStates ==
  {"draining_llm", "unloading_llm", "cleaning_comfy", "reloading_llm", "error", "shutting_down"}

\* Nothing has happened before initialize().
BootInv ==
  pc = "boot" =>
    /\ owner = "unknown" /\ state = "initializing" /\ ~recoverable /\ ~late
    /\ ~closing /\ queue = <<>>
    /\ activeMeta = 0 /\ activeControls = 0 /\ Granted = {}

\* A chat that still waits for the dispatcher.
WaitsForGrant(c) ==
  /\ chat[c] = "waiting" /\ ready[c] = "pending" /\ ~granted[c]
  /\ Targeted => target[c] # None

Distinct(q) == \A j, k \in DOMAIN q : q[j] = q[k] => j = k

\* The FIFO holds every work at most once, and only work that waits.
FifoInv ==
  /\ Distinct(queue)
  /\ current \notin Elements(queue)
  /\ \A c \in QueuedIn(Chats) : WaitsForGrant(c)
  /\ \A i \in QueuedIn(Images) :
       image[i] \in {"waiting", "batch"} /\ submitted[i] = "pending" /\ completion[i] = "pending"

\* So does the chat in the dispatcher's hands, unless it was cancelled.
CurrentInv ==
  /\ current \in Chats =>
       /\ ~granted[current]
       /\ Targeted => target[current] # None
       /\ ~cancelled => WaitsForGrant(current)
  /\ \A c \in Chats : target[c] # None => Targeted

\* A lease is held exactly by the chats that entered it or are about to.
GrantInv ==
  /\ activeChats = Cardinality(Granted)
  /\ \A c \in Chats : /\ granted[c] => chat[c] # "out" /\ ready[c] = "ok"
                      /\ ready[c] = "ok" => granted[c]
                      /\ chat[c] = "entered" => granted[c]

\* Who owns the GPU where.
OwnerInv ==
  /\ owner = "llm" => restorePoint # None
  /\ owner = "llm" /\ recoverable => Reserving
  /\ pc \in {"controlDrain", "cleanup"} => owner # "llm" \/ recoverable
  /\ pc \in RestoreCalls \ {"cleanup"} => owner = "unknown"
  /\ pc \in {"imageDrain", "imageValidate", "imageAcquire"} => owner # "comfy"
  /\ pc \in {"imageObserve", "release"} => owner = "unknown"
  /\ pc \in {"submit", "prompt", "interrupt"} => owner = "comfy"
  /\ pc \in {"imageValidate", "imageObserve"} /\ ~RouterMode => owner = "unknown"
  /\ pc = "imageAcquire" => RouterMode
  /\ pc = "restoreObserve" => ~RouterMode /\ ~Targeted

\* An abandoned load is only possible while recovery is still to come.
LateInv ==
  /\ owner = "llm" /\ ~recoverable => ~late
  /\ RouterMode /\ late => recoverable /\ restorePoint # None
  /\ RouterMode /\ pc = "acquire" => ~late
  /\ Passive /\ owner = "comfy" => llm = None /\ ~late

\* Handoffs happen behind closed doors.
QuietInv ==
  /\ pc \in Lifecycle \cup {"controlDrain", "imageDrain"} => state \in QuietStates
  /\ pc \in Lifecycle \cup {"controlDrain"} => Granted = {} /\ activeMeta = 0
  /\ pc \in Lifecycle => activeControls = 0
  /\ activeControls > 0 => owner = "comfy"
  /\ activeMeta > 0 /\ ~Reserving => owner = "llm"

\* Which model is loaded while it cannot change behind the coordinator.
ModelInv ==
  owner = "llm" /\ ~Reserving /\ Kind # "tabbyapi" => llm = restorePoint

PromptInv ==
  /\ prompt # None <=> pc \in {"prompt", "interrupt"}
  /\ historyWait = "blocked" => prompt # None

LeaseInv ==
  Granted # {} =>
    /\ owner = "llm" /\ ~recoverable
    /\ pc \in {"next", "chatDrain", "imageDrain", "dead"}
    /\ Serial => Cardinality(Granted) = 1
    /\ \A c \in Granted : target[c] # None => restorePoint = target[c]

\* The requests and their queue, and the ownership of the GPU.
RequestInv == FifoInv /\ CurrentInv /\ GrantInv

OwnershipInv ==
  /\ BootInv /\ OwnerInv /\ LateInv /\ QuietInv
  /\ ModelInv /\ PromptInv /\ LeaseInv /\ StateNamesOwner

IInv == TypeOK /\ RequestInv /\ OwnershipInv
=============================================================================
