---------------------------- MODULE LlmContract -----------------------------
(***************************************************************************)
(* What an adapter owes the coordinator, as an abstract specification:     *)
(* the docstrings of LlmBackend (llm/base.py) over the operators that      *)
(* Coordinator is built from.  A call may do anything its kind allows      *)
(* while it runs and after it failed; once it returned, what it reported   *)
(* stays true until the next call.  An adapter's module is checked to      *)
(* implement this specification.                                           *)
(***************************************************************************)
EXTENDS GpuBackends

VARIABLES
  phase,  \* the call in progress, or what the last one established
  point,  \* the restore point, as the coordinator keeps it
  goal    \* the argument of acquire_gpu, meaningful while it runs

contractVars == <<llm, late, phase, point, goal>>

Calls == {"observing", "releasing", "acquiring"}

\* "open": the last call failed, or there was none.
Phases == Calls \cup {"open", "released", "granted"}

ContractInit ==
  /\ llm \in Models \cup {None}
  /\ late = FALSE
  /\ phase = "open"
  /\ point = None
  /\ goal \in Models \cup {None}

\* The coordinator's dispatcher makes one call at a time.
Call(kind) ==
  /\ phase \notin Calls
  /\ kind = "releasing" => point # None
  /\ kind = "acquiring" => goal' \in Models \cup {None}
  /\ phase' = kind
  /\ UNCHANGED <<llm, late, point>>

\* observe_ready() returned p: the loaded model, or None for a free GPU.
Observed(p) ==
  /\ phase = "observing"
  /\ ObserveOk(p)
  /\ phase' = (IF p = None THEN "released" ELSE "granted")
  /\ point' = (IF p = None THEN point ELSE p)

\* release_gpu(point) works, and returns.  The adapter may bring the restore
\* point up to date with what it unloads.
Releasing ==
  /\ phase = "releasing"
  /\ ReleaseFails
  /\ point' \in {point, llm}
  /\ UNCHANGED phase

Released ==
  /\ phase = "releasing"
  /\ llm = None /\ ~late
  /\ ReleaseOk
  /\ phase' = "released"
  /\ UNCHANGED point

\* acquire_gpu(goal) works, and returns p.
Acquiring ==
  /\ phase = "acquiring"
  /\ AcquireFails
  /\ UNCHANGED <<phase, point, goal>>

Acquired(p) ==
  /\ phase = "acquiring"
  /\ llm = p /\ ~late
  /\ AcquireOk(goal, p)
  /\ phase' = "granted"
  /\ point' = p

\* A call raises, is cancelled or times out.
CallFails ==
  /\ phase \in Calls
  /\ phase' = "open"
  /\ UNCHANGED <<llm, late, point>>

\* A load or an unload that a failed call left behind takes effect; never
\* after a call that succeeded.
Aftermath ==
  /\ phase \notin {"released", "granted"}
  /\ \/ LateLoad
     \/ llm' = None /\ UNCHANGED late
  /\ phase = "acquiring" => UNCHANGED goal
  /\ UNCHANGED <<phase, point>>

\* The holder of a lease selects a model with the backend's own interface.
NativeSelection ==
  /\ phase = "granted"
  /\ llm' \in Models
  /\ UNCHANGED <<late, phase, point>>

ContractNext ==
  \/ \E kind \in Calls : Call(kind)
  \/ \E p \in Models \cup {None} : Observed(p) \/ Acquired(p)
  \/ Releasing \/ Released \/ Acquiring
  \/ CallFails \/ Aftermath \/ NativeSelection

ContractSpec == ContractInit /\ [][ContractNext]_contractVars
=============================================================================
