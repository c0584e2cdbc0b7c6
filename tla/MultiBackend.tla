---------------------------- MODULE MultiBackend ----------------------------
(***************************************************************************)
(* The combined backend (llm/multi.py): several engines of which one at a  *)
(* time may use the GPU, each behind its own adapter.                      *)
(*                                                                         *)
(* An adapter is what its contract says (LlmContract): while something it  *)
(* asked for is outstanding it refuses to observe.  KoboldCpp's adapter    *)
(* differs (llm/koboldcpp.py): acquiring only reserves, the request itself *)
(* makes its router load a model, and observing reads the model of the     *)
(* moment, whatever may still be loading.  Only its unload is conclusive.  *)
(***************************************************************************)
EXTENDS Naturals

CONSTANTS
  Engines,  \* the keys of MultiBackend.backends
  Kobold,   \* the one whose adapter is a KoboldCppBackend in router mode
  Models,   \* native model names
  None

ASSUME EngineAssumption ==
  /\ Kobold \in Engines
  /\ None \notin Models \cup [engine : Engines, model : Models]

VARIABLES
  loaded,       \* the model each engine holds in GPU memory
  outstanding,  \* what an engine may still do for a call or request that failed
  active, pending, saved, routerFailed, koboldReleased,  \* MultiBackend's fields
  call, goal, todo, occupied,  \* the call in progress, and its local state
  grant,        \* what the last call established
  serving       \* a request is at the engine of the lease

engineVars == <<loaded, outstanding>>
flagVars == <<routerFailed, koboldReleased>>
fieldVars == <<active, pending, saved, routerFailed, koboldReleased>>
callVars == <<call, goal, todo, occupied>>
vars == <<loaded, outstanding, active, pending, saved, routerFailed, koboldReleased,
          call, goal, todo, occupied, grant, serving>>

MultiTarget == [engine : Engines, model : Models]
Natives == Engines \ {Kobold}

FlagsOK == \A flag \in {routerFailed, koboldReleased, occupied, serving} : flag \in BOOLEAN

TypeOK ==
  /\ loaded \in [Engines -> Models \cup {None}]
  /\ outstanding \in [Engines -> {"none", "load", "unload"}]
  /\ active \in MultiTarget \cup {None}
  /\ pending \in MultiTarget \cup {None}
  /\ saved \in [Natives -> [Models -> Models \cup {None}]]
  /\ call \in {"none", "observe", "release", "acquire", "load"}
  /\ goal \in MultiTarget \cup {None}
  /\ todo \subseteq Engines
  /\ grant \in {"open", "released", "granted"}
  /\ FlagsOK

\* The engines run already, any of them with a model.
Init ==
  /\ loaded \in [Engines -> Models \cup {None}]
  /\ outstanding = [e \in Engines |-> "none"]
  /\ active = None /\ pending = None
  /\ saved = [e \in Natives |-> [m \in Models |-> None]]
  /\ routerFailed = FALSE /\ koboldReleased = FALSE
  /\ call = "none" /\ goal = None /\ todo = {} /\ occupied = FALSE
  /\ grant = "open" /\ serving = FALSE

-----------------------------------------------------------------------------
(* How calls begin and end.  The coordinator makes one at a time, and none *)
(* while a request holds the lease.                                        *)

Begin(kind, engines) ==
  /\ call = "none" /\ ~serving
  /\ call' = kind /\ todo' = engines /\ grant' = "open"
  /\ UNCHANGED <<engineVars, fieldVars, serving>>

\* Mutant: an acquisition that failed is not remembered.
CallObserveFresh ==
  /\ Begin("observe", Engines)
  /\ occupied' = FALSE
  /\ UNCHANGED goal

CallObserve ==
  /\ Begin("observe", Engines)
  /\ occupied' = (pending # None)
  /\ UNCHANGED goal

CallRelease ==
  /\ Begin("release", Engines)
  /\ UNCHANGED <<goal, occupied>>

CallAcquire(t) ==
  /\ Begin("acquire", Engines \ {t.engine})
  /\ goal' = t
  /\ UNCHANGED occupied

Return(result) ==
  /\ call' = "none" /\ todo' = {} /\ grant' = result
  /\ UNCHANGED <<goal, occupied, serving>>

Visited(e) ==
  /\ todo' = todo \ {e}
  /\ UNCHANGED <<call, goal, grant, serving>>

-----------------------------------------------------------------------------
(* observe_ready                                                           *)

\* KoboldCpp answers in any case.
Observes(e) == e = Kobold \/ outstanding[e] = "none"

ObserveEngine(e) ==
  /\ call = "observe" /\ e \in todo
  /\ Observes(e)
  /\ occupied' = (occupied \/ loaded[e] # None)
  /\ Visited(e)
  /\ UNCHANGED <<engineVars, fieldVars>>

ObserveReady ==
  /\ call = "observe" /\ todo = {}
  /\ Return(IF occupied THEN "open" ELSE "released")
  /\ UNCHANGED <<engineVars, fieldVars>>

-----------------------------------------------------------------------------
(* _release(engine), in release_gpu and acquire_gpu.                       *)

\* Mutant: a failed request matters only to the same model.
NeedsUnloadSame ==
  /\ call = "acquire" /\ todo = {}
  /\ goal.engine = Kobold /\ active = goal

\* A failed request at KoboldCpp, or the same model again, requires an unload
\* there before the reservation.
NeedsUnload ==
  /\ call = "acquire" /\ todo = {}
  /\ goal.engine = Kobold /\ (routerFailed \/ active = goal)

\* The engines whose turn to be released it may be.
Releasing == IF call \in {"release", "acquire"}
             THEN IF NeedsUnload THEN {Kobold} ELSE todo
             ELSE {}

Forget(e) ==
  /\ active' = (IF active # None /\ active.engine = e THEN None ELSE active)
  /\ pending' = (IF pending # None /\ pending.engine = e THEN None ELSE pending)

\* What is observed becomes the restore point of the active model.
Remember(e) ==
  saved' = IF active # None /\ active.engine = e /\ loaded[e] # None
           THEN [saved EXCEPT ![e][active.model] = loaded[e]]
           ELSE saved

Emptied(e) ==
  /\ loaded' = [loaded EXCEPT ![e] = None]
  /\ outstanding' = [outstanding EXCEPT ![e] = "none"]

\* A release of KoboldCpp that was confirmed counts until the next reservation.
SkipKobold ==
  /\ Kobold \in Releasing /\ koboldReleased
  /\ routerFailed' = FALSE
  /\ Forget(Kobold) /\ Visited(Kobold)
  /\ UNCHANGED <<engineVars, saved, koboldReleased, occupied>>

UnloadKobold ==
  /\ Kobold \in Releasing /\ ~koboldReleased
  /\ Emptied(Kobold)
  /\ koboldReleased' = TRUE /\ routerFailed' = FALSE
  /\ Forget(Kobold) /\ Visited(Kobold)
  /\ UNCHANGED <<saved, occupied>>

ReleaseNative(e) ==
  /\ e \in Releasing \ {Kobold} /\ Observes(e)
  /\ Emptied(e) /\ Remember(e)
  /\ Forget(e) /\ Visited(e)
  /\ UNCHANGED <<flagVars, occupied>>

Release ==
  /\ call = "release" /\ todo = {}
  /\ Return("released")
  /\ UNCHANGED <<engineVars, fieldVars>>

\* An engine does not answer or refuses; nothing was asked of it yet.
EngineRefuses(e) ==
  /\ \/ call = "observe" /\ e \in todo
     \/ e \in Releasing /\ ~(e = Kobold /\ koboldReleased)
  /\ Return("open")
  /\ UNCHANGED <<engineVars, fieldVars>>

\* An unload fails, or is given up, and may still take effect.
UnloadFails(e) ==
  /\ e \in Releasing
  /\ IF e = Kobold THEN ~koboldReleased /\ UNCHANGED saved
                   ELSE Observes(e) /\ loaded[e] # None /\ Remember(e)
  /\ outstanding' = [outstanding EXCEPT ![e] = IF @ = "load" THEN @ ELSE "unload"]
  /\ Return("open")
  /\ UNCHANGED <<loaded, active, pending, flagVars>>

-----------------------------------------------------------------------------
(* acquire_gpu, once the other engines are released.                       *)

\* Another model of the same engine: the one to leave is looked at.
Leaving == active # None /\ active.engine = goal.engine /\ active # goal

\* Mutant: a reservation leaves the earlier confirmation standing.
StartLoadTrusting ==
  /\ call = "acquire" /\ todo = {} /\ ~NeedsUnload
  /\ IF Leaving /\ goal.engine # Kobold
     THEN Observes(goal.engine) /\ Remember(goal.engine)
     ELSE UNCHANGED saved
  /\ pending' = goal /\ active' = None
  /\ call' = "load"
  /\ UNCHANGED <<engineVars, flagVars, goal, todo, occupied, grant, serving>>

StartLoad ==
  /\ call = "acquire" /\ todo = {} /\ ~NeedsUnload
  /\ IF Leaving /\ goal.engine # Kobold
     THEN Observes(goal.engine) /\ Remember(goal.engine)
     ELSE UNCHANGED saved
  /\ pending' = goal /\ active' = None
  /\ koboldReleased' = (koboldReleased /\ goal.engine # Kobold)
  /\ call' = "load"
  /\ UNCHANGED <<engineVars, routerFailed, goal, todo, occupied, grant, serving>>

\* That look, or Strata's request_target, fails.
StartFails ==
  /\ call = "acquire" /\ todo = {} /\ ~NeedsUnload
  /\ Return("open")
  /\ UNCHANGED <<engineVars, fieldVars>>

\* The model of the restore point that the adapter is given.
Native(t) ==
  LET point == saved[t.engine][t.model] IN IF point # None THEN point ELSE t.model

\* KoboldCpp is only reserved; its restore point is never used.
Reserved ==
  /\ call = "load" /\ goal.engine = Kobold
  /\ active' = goal
  /\ Return("granted")
  /\ UNCHANGED <<engineVars, pending, saved, flagVars>>

Loaded ==
  /\ call = "load" /\ goal.engine # Kobold
  /\ loaded' = [loaded EXCEPT ![goal.engine] = Native(goal)]
  /\ outstanding' = [outstanding EXCEPT ![goal.engine] = "none"]
  /\ saved' = [saved EXCEPT ![goal.engine][goal.model] = Native(goal)]
  /\ active' = goal
  /\ Return("granted")
  /\ UNCHANGED <<pending, flagVars>>

LoadFails ==
  /\ call = "load"
  /\ IF goal.engine = Kobold
     THEN UNCHANGED engineVars
     ELSE \E m \in Models \cup {None}, left \in {"none", "load"} :
            /\ loaded' = [loaded EXCEPT ![goal.engine] = m]
            /\ outstanding' = [outstanding EXCEPT ![goal.engine] = left]
  /\ Return("open")
  /\ UNCHANGED fieldVars

-----------------------------------------------------------------------------
(* The request of a lease (_multi_chat), and the engines.                  *)

RequestFrame == UNCHANGED <<active, pending, saved, callVars>>

SendRequest ==
  /\ grant = "granted" /\ call = "none" /\ ~serving
  /\ serving' = TRUE
  /\ UNCHANGED <<engineVars, flagVars, grant>> /\ RequestFrame

\* KoboldCpp's router loads the profile that the request names.
RouterLoads ==
  /\ serving /\ goal.engine = Kobold
  /\ loaded' = [loaded EXCEPT ![Kobold] = goal.model]
  /\ UNCHANGED <<outstanding, flagVars, grant, serving>> /\ RequestFrame

RequestEnds ==
  /\ serving
  /\ serving' = FALSE
  /\ UNCHANGED <<engineVars, flagVars, grant>> /\ RequestFrame

\* request_failed() and router_request_failed(): the router may go on loading.
RequestFails ==
  /\ serving /\ goal.engine = Kobold
  /\ routerFailed' = TRUE /\ koboldReleased' = FALSE
  /\ \E left \in {"none", "load"} :
       outstanding' = [outstanding EXCEPT ![Kobold] = left]
  /\ grant' = "open" /\ serving' = FALSE
  /\ UNCHANGED loaded /\ RequestFrame

\* What was left outstanding takes effect, or is given up.
Settles(e) ==
  /\ outstanding[e] # "none"
  /\ \E m \in Models \cup {None} :
       /\ outstanding[e] = "unload" => m \in {loaded[e], None}
       /\ loaded' = [loaded EXCEPT ![e] = m]
  /\ outstanding' = [outstanding EXCEPT ![e] = "none"]
  /\ UNCHANGED <<fieldVars, callVars, grant, serving>>

-----------------------------------------------------------------------------
Next ==
  \/ CallObserve \/ CallRelease \/ \E t \in MultiTarget : CallAcquire(t)
  \/ \E e \in Engines : ObserveEngine(e) \/ ReleaseNative(e) \/ EngineRefuses(e)
                          \/ UnloadFails(e) \/ Settles(e)
  \/ ObserveReady \/ SkipKobold \/ UnloadKobold \/ Release
  \/ StartLoad \/ StartFails \/ Reserved \/ Loaded \/ LoadFails
  \/ SendRequest \/ RouterLoads \/ RequestEnds \/ RequestFails

Spec == Init /\ [][Next]_vars
=============================================================================
