---------------------------- MODULE ComfyPolling ----------------------------
(***************************************************************************)
(* The two long calls of ComfyClient (src/st_proxy/comfy.py), which the    *)
(* coordinator makes one at a time: wait_for_prompt, which polls the       *)
(* history of one prompt until it has a verdict, and free_models, which    *)
(* has ComfyUI give its memory back before an LLM is loaded.               *)
(*                                                                         *)
(* The time of a call is not counted: a deadline may pass in any pause.    *)
(***************************************************************************)
EXTENDS Integers, Sequences

CONSTANTS
  FailureLimit,  \* config.comfy_poll_failure_limit
  PollBound,     \* bound: polls that fit into image_timeout
  MemoryBound    \* bound: distinct amounts of memory ComfyUI can hold

ASSUME PollAssumption ==
  /\ FailureLimit \in Nat \ {0}
  /\ PollBound \in Nat \ {0}
  /\ MemoryBound \in Nat

VARIABLES
  settles,    \* the configured LLM backend wants ComfyUI idle and settled
  step,       \* the await the call is in
  verdict,    \* what the last call returned or raised
  failures,   \* consecutive_failures
  previous,   \* the memory sample before, or -1
  accepted,   \* POST /free was answered
  polls,      \* the polls of the history so far: was each one answered?
  \* ComfyUI
  prompt,     \* the prompt submitted last
  memory,     \* the memory ComfyUI holds
  moved       \* ... has changed, or was free, since the last sample

clientSide == <<step, verdict, failures, previous, accepted, polls>>
comfySide == <<prompt, memory, moved>>
pollVars == <<settles, step, verdict, failures, previous, accepted, polls, prompt, memory, moved>>

Monitoring == {"history", "pause", "interrupt", "interruptLate"}
Freeing == {"queue", "queuePause", "free", "wait", "stats", "statsPause"}

PollTypeOK ==
  /\ {settles, accepted, moved} \subseteq BOOLEAN
  /\ step \in Monitoring \cup Freeing \cup {"idle"}
  /\ verdict \in {"none", "outputs", "failed", "aborted", "expired", "freed", "unfreed"}
  /\ failures \in 0 .. FailureLimit
  /\ previous \in -1 .. MemoryBound
  /\ polls \in Seq(BOOLEAN)
  /\ prompt \in {"none", "active", "succeeded", "failed", "lost"}
  /\ memory \in 0 .. MemoryBound

PollInit ==
  /\ settles \in BOOLEAN
  /\ step = "idle" /\ verdict = "none"
  /\ failures = 0 /\ previous = -1 /\ accepted = FALSE /\ polls = <<>>
  /\ prompt = "none" /\ memory \in 0 .. MemoryBound /\ moved = TRUE

-----------------------------------------------------------------------------
(* ComfyUI.                                                                *)

\* The prompt ends; or ComfyUI restarts and has forgotten it.
PromptLeaves ==
  /\ prompt = "active"
  /\ \/ prompt' \in {"succeeded", "failed"} /\ UNCHANGED <<memory, moved>>
     \/ prompt' = "lost" /\ memory' = 0 /\ moved' = TRUE

\* A prompt takes memory as it needs it; /free is executed between prompts.
MemoryMoves ==
  /\ \/ prompt = "active" /\ memory' \in 0 .. MemoryBound
     \/ prompt # "active" /\ accepted /\ memory > 0 /\ memory' = memory - 1
  /\ moved' = TRUE
  /\ UNCHANGED prompt

Comfy == (PromptLeaves \/ MemoryMoves) /\ UNCHANGED <<settles, clientSide>>

-----------------------------------------------------------------------------
(* wait_for_prompt().                                                      *)

Returns(v) == step' = "idle" /\ verdict' = v

\* submit() got a prompt_id, and the coordinator waits for the prompt.
Submitted ==
  /\ step = "idle" /\ prompt # "active"
  /\ prompt' = "active"
  /\ step' = "history" /\ verdict' = "none"
  /\ failures' = 0 /\ polls' = <<>> /\ accepted' = FALSE
  /\ UNCHANGED <<previous, memory, moved>>

\* An HTTP error, no JSON object, no answer within request_timeout.
PollFails ==
  /\ step = "history"
  /\ failures' = failures + 1
  /\ polls' = Append(polls, FALSE)
  /\ step' = IF failures + 1 >= FailureLimit THEN "interrupt" ELSE "pause"
  /\ UNCHANGED <<verdict, previous, accepted, comfySide>>

\* Mutant: only an answer about this prompt counts as one.
CountedWhenFound == IF prompt \in {"succeeded", "failed"} THEN 0 ELSE failures

\* Any history that could be read ends a run of failures.
CountAfterAnswer == 0

\* The history has an entry for the prompt once it has ended.
PollAnswered ==
  /\ step = "history"
  /\ failures' = CountAfterAnswer
  /\ polls' = Append(polls, TRUE)
  /\ IF prompt \in {"succeeded", "failed"}
       THEN Returns(IF prompt = "succeeded" THEN "outputs" ELSE "failed")
       ELSE step' = "pause" /\ UNCHANGED verdict
  /\ UNCHANGED <<previous, accepted, comfySide>>

\* The next poll, unless the deadline has passed.
PauseEnds ==
  /\ step = "pause"
  /\ step' \in (IF Len(polls) < PollBound THEN {"history"} ELSE {}) \cup {"interruptLate"}
  /\ UNCHANGED <<verdict, failures, previous, accepted, polls, comfySide>>

\* interrupt() is tried once, and its failure only logged.
Interrupted ==
  /\ step \in {"interrupt", "interruptLate"}
  /\ Returns(IF step = "interrupt" THEN "aborted" ELSE "expired")
  /\ prompt' \in {prompt} \cup (IF prompt = "active" THEN {"failed"} ELSE {})
  /\ UNCHANGED <<failures, previous, accepted, polls, memory, moved>>

Monitor == Submitted \/ PollFails \/ PollAnswered \/ PauseEnds \/ Interrupted

-----------------------------------------------------------------------------
(* free_models().                                                          *)

FreeFrame == UNCHANGED <<failures, polls, prompt, memory>>

FreeBegins ==
  /\ step = "idle"
  /\ step' = IF settles THEN "queue" ELSE "free"
  /\ verdict' = "none" /\ previous' = -1 /\ accepted' = FALSE
  /\ UNCHANGED moved

\* queue_running or queue_pending is not empty.
Busy == prompt = "active"

\* _wait_for_idle(), before /free and before each sample.
QueueRead ==
  /\ step = "queue"
  /\ step' = IF Busy THEN "queuePause" ELSE IF accepted THEN "stats" ELSE "free"
  /\ UNCHANGED <<verdict, previous, accepted, moved>>

QueuePauseEnds ==
  /\ step = "queuePause"
  /\ step' = "queue"
  /\ UNCHANGED <<verdict, previous, accepted, moved>>

FreeAccepted ==
  /\ step = "free"
  /\ accepted' = TRUE
  /\ step' = "wait"
  /\ UNCHANGED <<verdict, previous, moved>>

\* The five seconds are over.
WaitEnds ==
  /\ step = "wait"
  /\ IF settles THEN step' = "queue" /\ UNCHANGED verdict ELSE Returns("freed")
  /\ UNCHANGED <<previous, accepted, moved>>

\* Mutant: one sample is enough.
SteadyAtOnce == TRUE

\* current == previous
Steady == memory = previous

\* _wait_for_memory_settled()
StatsRead ==
  /\ step = "stats"
  /\ previous' = memory
  /\ IF Steady THEN Returns("freed") ELSE step' = "statsPause" /\ UNCHANGED verdict
  /\ moved' = (memory = 0)
  /\ UNCHANGED accepted

\* ComfyUI does not stall for a whole poll_interval once it gives memory back.
\* No prompt executes by now: the queue was seen empty, and the next submission
\* is a later call of the coordinator's.
StatsPauseEnds ==
  /\ step = "statsPause" /\ moved
  /\ step' = "queue"
  /\ UNCHANGED <<verdict, previous, accepted, moved>>

\* A bad answer, or cleanup_timeout.
FreeAbandoned ==
  /\ step \in Freeing
  /\ Returns("unfreed")
  /\ UNCHANGED <<previous, accepted, moved>>

Free ==
  /\ \/ FreeBegins \/ QueueRead \/ QueuePauseEnds \/ FreeAccepted
     \/ WaitEnds \/ StatsRead \/ StatsPauseEnds \/ FreeAbandoned
  /\ FreeFrame

-----------------------------------------------------------------------------
(* The client.                                                             *)

PollNext == ((Monitor \/ Free) /\ UNCHANGED settles) \/ Comfy

PollSpec == PollInit /\ [][PollNext]_pollVars

-----------------------------------------------------------------------------
(* Properties.                                                             *)

\* A prompt is given up for failed polls after exactly FailureLimit of them in
\* a row: not earlier, although they add up to that many, and not later; so a
\* prompt whose history can be read now and then runs on (wait_for_prompt).
AbortedOnlyBlind ==
  LET Blind(k) == k >= FailureLimit /\ \A j \in k - FailureLimit + 1 .. k : ~polls[j] IN
  step \in Monitoring \/ verdict \in {"aborted", "expired"} =>
    /\ step = "interrupt" \/ verdict = "aborted" => Blind(Len(polls))
    /\ \A k \in 1 .. Len(polls) : Blind(k) => k = Len(polls) /\ step # "pause"

\* Where the cleanup waits for idleness it only succeeds when no prompt is
\* executing, not even one that was given up on and could not be interrupted,
\* and when ComfyUI has given its memory back, if it gives it back steadily:
\* the outcome FreeOk of GpuBackends (free_models, _wait_for_memory_settled).
FreedMeansFree ==
  verdict = "freed" /\ settles => prompt # "active" /\ memory = 0
=============================================================================
