--------------------------- MODULE WorkerAdapters ---------------------------
(***************************************************************************)
(* The Prism and Strata adapters (llm/prism.py, llm/strata.py) against a   *)
(* model of their servers.  Both trust nothing but a load or an unload     *)
(* that they saw confirmed: a flag, "uncertain", is set before a request   *)
(* is sent and cleared by its confirmation only; while it is set every     *)
(* call refuses.  Prism answers a request before it is done, and its       *)
(* worker is watched until it has changed; Strata answers afterwards.      *)
(*                                                                         *)
(* A step is the code between two awaits, as in TabbyApi.                  *)
(***************************************************************************)
EXTENDS Naturals

CONSTANTS
  Models,  \* Prism's presets; Strata has one of them
  None

ASSUME WorkerAssumption == None \notin Models

VARIABLES
  kind, default,   \* which adapter is configured, and its own model; never change
  worker, stable,  \* the model on the GPU, or None; whether it is "loaded" now
  job, loading,    \* what the server works on; the model it is to load
  reply,           \* the server's answer to the last POST
  uncertain,       \* the adapter's latch
  point,           \* the coordinator's restore point
  grant,           \* what the last call established for the coordinator
  call, goal,      \* the call in progress, and the argument of acquire_gpu
  await, change,   \* what the call awaits; the action of _change
  answered, seen, seenStable  \* the observation in flight has its answer; the answer

configVars == <<kind, default>>
serverVars == <<worker, stable, job, loading, reply>>
callVars == <<call, goal, await, change>>
askVars == <<answered, seen, seenStable>>
vars == <<kind, default, worker, stable, job, loading, reply, uncertain, point, grant,
          call, goal, await, change, answered, seen, seenStable>>

FlagsOK == \A flag \in {stable, uncertain, answered, seenStable} : flag \in BOOLEAN

TypeOK ==
  /\ kind \in {"prism", "strata"} /\ default \in Models
  /\ worker \in Models \cup {None} /\ loading \in Models \cup {None}
  /\ job \in {"idle", "load", "unload"}
  /\ reply \in {"none", "accepted", "refused"}
  /\ point \in Models \cup {None}
  /\ grant \in {"open", "released", "granted"}
  /\ call \in {"none", "observe", "release", "acquire"}
  /\ goal \in Models \cup {None}
  /\ await \in {"none", "look", "post", "confirm"}
  /\ change \in {"none", "load", "unload"}
  /\ seen \in Models \cup {None}
  /\ FlagsOK

Init ==
  /\ kind \in {"prism", "strata"} /\ default \in Models
  /\ worker \in (IF kind = "strata" THEN {default} ELSE Models) \cup {None}
  /\ stable \in {TRUE, kind = "strata"}
  /\ job = "idle" /\ loading = None /\ reply = "none"
  /\ uncertain = FALSE /\ point = None /\ grant = "open"
  /\ call = "none" /\ goal = None /\ await = "none" /\ change = "none"
  /\ answered = FALSE /\ seen = None /\ seenStable = FALSE

-----------------------------------------------------------------------------
(* The servers.                                                            *)

\* A Prism worker appears while it loads, and may sleep when it has loaded.
WorkerStarts ==
  /\ kind = "prism" /\ job = "load" /\ worker = None
  /\ worker' = loading /\ stable' = FALSE
  /\ UNCHANGED <<job, loading, reply>>

WorkerSleepsOrWakes ==
  /\ kind = "prism" /\ job = "idle" /\ worker # None
  /\ stable' = ~stable
  /\ UNCHANGED <<worker, job, loading, reply>>

\* Prism accepts a request at once.
Accepts ==
  /\ kind = "prism" /\ job # "idle" /\ reply = "none"
  /\ reply' = "accepted"
  /\ UNCHANGED <<worker, stable, job, loading>>

\* A load that fails leaves no worker.
JobEnds ==
  /\ job # "idle"
  /\ worker' \in (IF job = "load" THEN {loading, None} ELSE {None})
  /\ stable' = TRUE /\ job' = "idle" /\ reply' = "accepted"
  /\ UNCHANGED loading

\* A request that is rejected, or that never arrives.
Refuses ==
  /\ job = "unload" \/ (job = "load" /\ worker = None)
  /\ reply = "none"
  /\ job' = "idle" /\ reply' = "refused"
  /\ UNCHANGED <<worker, stable, loading>>

Server ==
  /\ \/ WorkerStarts \/ WorkerSleepsOrWakes \/ Accepts \/ JobEnds \/ Refuses
  /\ UNCHANGED <<configVars, uncertain, point, grant, callVars, askVars>>

\* GET /models of Prism, GET /health of Strata.
Answer ==
  /\ await \in {"look", "confirm"} /\ ~answered
  /\ answered' = TRUE /\ seen' = worker /\ seenStable' = stable
  /\ UNCHANGED <<configVars, serverVars, uncertain, point, grant, callVars>>

-----------------------------------------------------------------------------
(* How the calls begin, wait and end.                                      *)

Ask(what) == await' = what /\ answered' = FALSE /\ seen' = None /\ seenStable' = FALSE

Return(result) ==
  /\ call' = "none" /\ change' = "none"
  /\ Ask("none")
  /\ grant' = result
  /\ UNCHANGED goal

\* A call raises.
Raise == Return("open") /\ UNCHANGED <<configVars, serverVars, point>>

\* The coordinator's dispatcher makes one call at a time.
Call(method, model) ==
  /\ call = "none"
  /\ method = "release" => point # None
  /\ call' = method /\ goal' = model
  /\ UNCHANGED <<configVars, serverVars, uncertain, point, grant, await, change, askVars>>

\* Mutant: the latch is not looked at.
LookAnyway ==
  /\ call # "none" /\ await = "none"
  /\ Ask("look")
  /\ UNCHANGED <<configVars, serverVars, uncertain, point, grant, call, goal, change>>

\* The call goes beyond _require_certain.
Look ==
  /\ call # "none" /\ await = "none" /\ ~uncertain
  /\ Ask("look")
  /\ UNCHANGED <<configVars, serverVars, uncertain, point, grant, call, goal, change>>

\* _require_certain refuses; or a timeout, a cancellation, a broken connection
\* or an answer that is not understood or shows a model that nobody expects
\* there, at any await.
Abort ==
  /\ call # "none"
  /\ Raise
  /\ UNCHANGED uncertain

\* _change sends its request.
Post(action, model) ==
  /\ uncertain' = TRUE
  /\ job' = action /\ loading' = model /\ reply' = "none"
  /\ change' = action /\ Ask("post")
  /\ UNCHANGED <<configVars, worker, stable, point, grant, call, goal>>

Looked(method) == call = method /\ await = "look" /\ answered

Found(result) == Return(result) /\ UNCHANGED <<configVars, serverVars, uncertain>>

Fail == Raise /\ UNCHANGED uncertain

-----------------------------------------------------------------------------
(* observe_ready                                                           *)

Observe ==
  /\ Looked("observe")
  /\ seen # None => seenStable
  /\ Found(IF seen = None THEN "released" ELSE "granted")
  /\ point' = (IF seen = None THEN point ELSE seen)

ObserveUnstable ==
  /\ Looked("observe")
  /\ seen # None /\ ~seenStable
  /\ Fail

-----------------------------------------------------------------------------
(* release_gpu                                                             *)

ReleaseNothing ==
  /\ Looked("release")
  /\ kind = "prism" /\ seen = None
  /\ Found("released")
  /\ UNCHANGED point

\* Strata is asked to unload whatever it reports; Prism refuses (Abort) a worker
\* that is not the restore point's, which only somebody else could have started.
ReleaseUnload ==
  /\ Looked("release")
  /\ kind = "prism" => seen = point
  /\ Post("unload", loading)

-----------------------------------------------------------------------------
(* acquire_gpu                                                             *)

Restore == IF goal = None THEN default ELSE goal

\* Strata restores its own model only (_target).
Mismatch == kind = "strata" /\ Restore # default

AcquireRefuses ==
  /\ Looked("acquire")
  /\ Mismatch \/ (seen # None /\ ~seenStable)
  /\ Fail

AcquireLoaded ==
  /\ Looked("acquire")
  /\ ~Mismatch /\ seen = Restore /\ seenStable
  /\ Found("granted")
  /\ point' = Restore

AcquireOther ==
  /\ Looked("acquire")
  /\ ~Mismatch /\ seen \notin {None, Restore} /\ seenStable
  /\ Post("unload", loading)

AcquireLoad ==
  /\ Looked("acquire")
  /\ ~Mismatch /\ seen = None
  /\ Post("load", Restore)

-----------------------------------------------------------------------------
(* _change, after its request.                                             *)

PostAccepted ==
  /\ await = "post" /\ reply = "accepted"
  /\ Ask("confirm")
  /\ UNCHANGED <<configVars, serverVars, uncertain, point, grant, call, goal, change>>

PostRefused ==
  /\ await = "post" /\ reply = "refused"
  /\ Fail

\* Mutant: a worker that still loads counts.
ConfirmedEarly == await = "confirm" /\ answered /\ seen = (IF change = "load" THEN Restore ELSE None)

\* What was asked for is there.
Confirmed ==
  /\ await = "confirm" /\ answered
  /\ IF change = "load" THEN seen = Restore /\ seenStable ELSE seen = None

\* Prism is polled (_wait).
ConfirmAgain ==
  /\ kind = "prism"
  /\ await = "confirm" /\ answered /\ ~Confirmed
  /\ Ask("confirm")
  /\ UNCHANGED <<configVars, serverVars, uncertain, point, grant, call, goal, change>>

\* Strata is not; Prism may report that the worker failed.
ConfirmFails ==
  /\ await = "confirm" /\ answered /\ ~Confirmed
  /\ Fail

ReleaseConfirmed ==
  /\ call = "release" /\ Confirmed
  /\ uncertain' = FALSE
  /\ Return("released")
  /\ UNCHANGED <<configVars, serverVars, point>>

\* The other model is gone; the next _change follows at once.
OtherConfirmed ==
  /\ call = "acquire" /\ change = "unload" /\ Confirmed
  /\ Post("load", Restore)

AcquireConfirmed ==
  /\ call = "acquire" /\ change = "load" /\ Confirmed
  /\ uncertain' = FALSE
  /\ Return("granted")
  /\ point' = Restore
  /\ UNCHANGED <<configVars, serverVars>>

-----------------------------------------------------------------------------
Calling ==
  \/ \E m \in Models \cup {None} : Call("acquire", m)
  \/ Call("observe", goal) \/ Call("release", goal)

Working ==
  \/ Look \/ Abort
  \/ Observe \/ ObserveUnstable
  \/ ReleaseNothing \/ ReleaseUnload
  \/ AcquireRefuses \/ AcquireLoaded \/ AcquireOther \/ AcquireLoad
  \/ PostAccepted \/ PostRefused \/ ConfirmAgain \/ ConfirmFails
  \/ ReleaseConfirmed \/ OtherConfirmed \/ AcquireConfirmed

Next == Server \/ Answer \/ Calling \/ Working

Spec == Init /\ [][Next]_vars
=============================================================================
