---------------------------- MODULE GpuBackends -----------------------------
(***************************************************************************)
(* What the coordinator can learn from, and do to, the two programs that   *)
(* share the GPU: an LLM backend behind the LlmBackend protocol            *)
(* (llm/base.py) and ComfyUI behind ComfyClient (comfy.py).  Each call is  *)
(* one operator per outcome.  A call that succeeds establishes what its    *)
(* docstring promises; a call that fails promises nothing, and may still   *)
(* have had its effect, or have it later.                                  *)
(***************************************************************************)
EXTENDS BackendKinds

CONSTANTS
  Models,      \* models the LLM backend can have loaded
  Images,      \* image requests
  None,        \* no model, no restore point, no work
  Reservation  \* the restore point that names no model

ASSUME PointAssumption ==
  /\ Models # {}
  /\ None \notin Models
  /\ Reservation \notin Models \cup {None}

VARIABLES
  llm,         \* the model that occupies the GPU, or None
  late,        \* a load whose caller gave up may still complete
  comfyClean,  \* ComfyUI holds no GPU memory
  running      \* prompts ComfyUI accepted and has not finished

llmVars == <<llm, late>>
comfyVars == <<comfyClean, running>>
gpuVars == <<llm, late, comfyClean, running>>

RestorePoints == Models \cup {None, Reservation}

GpuTypeOK ==
  /\ llm \in Models \cup {None}
  /\ late \in BOOLEAN
  /\ comfyClean \in BOOLEAN
  /\ running \subseteq Images

\* The broker starts beside programs that have been running for a while.
GpuInit ==
  /\ llm \in Models \cup {None}
  /\ late = FALSE
  /\ comfyClean \in BOOLEAN
  /\ running = {}

-----------------------------------------------------------------------------
(* LlmBackend.  A router's lease, and a KoboldCpp target of the combined   *)
(* backend, only reserve the GPU: nothing is loaded and nothing is waited  *)
(* for.  A verified release or load rules out an earlier load that was     *)
(* given up on, because the adapter reconciles it first.                   *)

ReleaseOk == /\ llm' = None
             /\ late' = FALSE

ReleaseFails == /\ llm' \in {llm, None}
                /\ UNCHANGED late

\* acquire_gpu of a router: permission to use the GPU.
ReserveOk(p) == /\ p = Reservation
                /\ UNCHANGED llmVars

\* acquire_gpu of the combined backend: "explicit model required".  A KoboldCpp
\* target leaves what KoboldCpp has loaded to the request, so that another of
\* its models may still be there.
AcquireCombinedOk(arg, p) ==
  /\ arg \in Models
  /\ p = arg
  /\ llm' \in {arg, None, llm}
  /\ late' = FALSE

\* acquire_gpu of a single backend: a given model, or the default one.
AcquireModelOk(arg, p) ==
  /\ p \in Models
  /\ arg = None \/ p = arg
  /\ llm' = p
  /\ late' = FALSE

\* acquire_gpu(arg) returned the restore point p.
AcquireOk(arg, p) ==
  \/ RouterMode /\ ReserveOk(p)
  \/ Kind = "all" /\ AcquireCombinedOk(arg, p)
  \/ ~Reserving /\ AcquireModelOk(arg, p)

AcquireFails ==
  IF RouterMode THEN UNCHANGED llmVars
                ELSE /\ llm' \in Models \cup {None}
                     /\ late' \in BOOLEAN

\* observe_ready of the combined backend reports any occupied or pending engine.
ObserveCombinedOk(p) ==
  \/ p \in Models \cup {Reservation}
  \/ p = None /\ llm = None /\ ~late

\* observe_ready of a single backend refuses to answer while a load is in
\* progress.
ObserveModelOk(p) == p = llm /\ ~late

\* observe_ready() returned p.
ObserveOk(p) ==
  /\ IF Kind = "all" THEN ObserveCombinedOk(p) ELSE ObserveModelOk(p)
  /\ UNCHANGED llmVars

-----------------------------------------------------------------------------
(* ComfyClient.                                                            *)

\* free_models() returned: memory is free unless a prompt is still executing.
FreeOk ==
  /\ WaitsForIdle => running = {}
  /\ comfyClean' = (running = {})
  /\ UNCHANGED running

FreeFails ==
  /\ comfyClean' \in {comfyClean, running = {}}
  /\ UNCHANGED running

\* The submission may be executing as soon as it is sent.
Occupy == comfyClean' = FALSE

\* interrupt() is best effort, and its own failure is only logged.
InterruptPrompt(i) ==
  /\ running' \in {running, running \ {i}}
  /\ UNCHANGED comfyClean

-----------------------------------------------------------------------------
(* Steps of the two programs that the broker neither asks for nor sees.    *)

\* A load the broker stopped waiting for completes, or is given up.
LateLoad ==
  /\ late
  /\ llm' \in Models \cup {llm}
  /\ late' = FALSE
  /\ UNCHANGED comfyVars

PromptFinishes ==
  /\ \E i \in running : running' = running \ {i}
  /\ UNCHANGED <<llm, late, comfyClean>>
=============================================================================
