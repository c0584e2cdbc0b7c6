------------------------------ MODULE TabbyApi ------------------------------
(***************************************************************************)
(* The TabbyAPI adapter (llm/tabbyapi.py) against a model of the server.   *)
(* TabbyAPI goes on with a load when its client disconnects, and publishes *)
(* no model both before a load and after a failed one, so the adapter      *)
(* keeps a latch, "uncertain", that only some observations may clear.      *)
(*                                                                         *)
(* A step is the code between two awaits: a request is sent in the step    *)
(* that decides to, the server answers in a step of its own, and the       *)
(* answer is read in a third.                                              *)
(***************************************************************************)
EXTENDS Naturals

CONSTANTS
  Models,    \* model names
  Settings,  \* the load parameters that a model card reports
  AnySettings,  \* no expectation about the parameters
  None

\* What /v1/model reports (TabbyApiRestorePoint), and what a load is to result in.
Cards == [model : Models, parameters : Settings]
Wanted == [model : Models, parameters : Settings \cup {AnySettings}]

ASSUME TabbyAssumption ==
  /\ None \notin Models \cup Cards \cup Wanted
  /\ AnySettings \notin Settings \cup Cards \cup {None}

VARIABLES
  configured,   \* --tabby-model, or None; never changes
  card,         \* the model card that /v1/model shows, None for its 503
  job,          \* what the server is working on
  loading,      \* the model that it loads or has loaded last
  residue,      \* a failed load has kept allocations
  reply,        \* how the server ended its last job
  uncertain, pendingLoad, loadFailed,  \* the adapter's latch
  point,        \* the coordinator's restore point, which release_gpu updates
  grant,        \* what the last call established for the coordinator
  pc, nested,   \* the await a call is in; in acquire_gpu's own release
  answered, seen   \* the observation in flight has its answer; the answer

serverVars == <<configured, card, job, loading, residue, reply>>
latchVars == <<uncertain, pendingLoad, loadFailed>>
askVars == <<answered, seen>>
vars == <<configured, card, job, loading, residue, reply, uncertain, pendingLoad, loadFailed,
          point, grant, pc, nested, answered, seen>>

Observing == {"observe", "release", "acquire", "unloadVerify", "loadVerify"}

FlagsOK == \A flag \in {residue, uncertain, loadFailed, nested, answered} : flag \in BOOLEAN

TypeOK ==
  /\ configured \in Models \cup {None}
  /\ card \in Cards \cup {None}
  /\ job \in {"idle", "load", "unload"}
  /\ loading \in Models \cup {None}
  /\ reply \in {"none", "loaded", "failed", "unloaded", "refused"}
  /\ pendingLoad \in Wanted \cup {None}
  /\ point \in Cards \cup {None}
  /\ grant \in {"open", "released", "granted"}
  /\ pc \in Observing \cup {"idle", "unload", "load"}
  /\ seen \in Cards \cup {None}
  /\ FlagsOK

Init ==
  /\ configured \in Models \cup {None}
  /\ card \in Cards \cup {None}
  /\ job = "idle" /\ loading = None /\ residue = FALSE /\ reply = "none"
  /\ uncertain = FALSE /\ pendingLoad = None /\ loadFailed = FALSE
  /\ point = None /\ grant = "open"
  /\ pc = "idle" /\ nested = FALSE /\ answered = FALSE /\ seen = None

Matches(c, want) ==
  /\ c.model = want.model
  /\ want.parameters \in {AnySettings, c.parameters}

-----------------------------------------------------------------------------
(* The server.                                                             *)

LoadEnds ==
  /\ job = "load"
  /\ card' \in {c \in Cards : c.model = loading}
  /\ job' = "idle" /\ residue' = FALSE /\ reply' = "loaded"
  /\ UNCHANGED loading

LoadBreaks ==
  /\ job = "load"
  /\ job' = "idle" /\ residue' \in BOOLEAN /\ reply' = "failed"
  /\ UNCHANGED <<card, loading>>

UnloadEnds ==
  /\ job = "unload"
  /\ card' = None /\ job' = "idle" /\ residue' = FALSE /\ reply' = "unloaded"
  /\ UNCHANGED loading

\* A request that is rejected, or that never arrives.
Refuses ==
  /\ job # "idle"
  /\ job' = "idle" /\ reply' = "refused"
  /\ UNCHANGED <<card, loading, residue>>

\* A client of the lease selects another model with TabbyAPI's own interface.
NativeSelection ==
  /\ grant = "granted" /\ pc = "idle"
  /\ card' \in Cards
  /\ UNCHANGED <<job, loading, residue, reply>>

Server ==
  /\ LoadEnds \/ LoadBreaks \/ UnloadEnds \/ Refuses \/ NativeSelection
  /\ UNCHANGED <<configured, latchVars, point, grant, pc, nested, askVars>>

\* GET /v1/model.
Answer ==
  /\ pc \in Observing /\ ~answered
  /\ answered' = TRUE /\ seen' = card
  /\ UNCHANGED <<serverVars, latchVars, point, grant, pc, nested>>

-----------------------------------------------------------------------------
(* The calls: how they begin, end and wait.                                *)

Ask(await) == pc' = await /\ answered' = FALSE /\ seen' = None

Return(result) ==
  /\ pc' = "idle" /\ nested' = FALSE
  /\ answered' = FALSE /\ seen' = None
  /\ grant' = result

\* A call raises.
Raise == Return("open") /\ UNCHANGED point

\* The coordinator's dispatcher makes one call at a time.
Call(await) ==
  /\ pc = "idle"
  /\ Ask(await)
  /\ UNCHANGED <<serverVars, latchVars, point, grant, nested>>

CallObserve == Call("observe")
CallRelease == point # None /\ Call("release")
CallAcquire == Call("acquire")

\* A timeout, a cancellation, a broken connection or an answer that is not
\* understood, at any await.
Abort ==
  /\ pc # "idle"
  /\ Raise
  /\ UNCHANGED <<serverVars, latchVars>>

\* Mutant: no published model counts as the end of the pending load.
ConfirmsSilence(retry) ==
  \/ seen = None
  \/ seen # None /\ pendingLoad # None /\ Matches(seen, pendingLoad)

\* What settles an uncertain load or unload (_observe_confirmed).
Confirms(retry) ==
  \/ seen = None /\ (pendingLoad = None \/ (retry /\ loadFailed))
  \/ seen # None /\ pendingLoad # None /\ Matches(seen, pendingLoad)

Settled == uncertain' = FALSE /\ pendingLoad' = None /\ loadFailed' = FALSE

\* _observe_confirmed returned what was seen.
Confirmed(retry) ==
  /\ answered
  /\ IF uncertain THEN Confirms(retry) /\ Settled
                  ELSE UNCHANGED latchVars

Unconfirmed ==
  /\ pc \in {"observe", "release", "acquire"}
  /\ answered /\ uncertain /\ ~Confirms(pc = "acquire")
  /\ Raise
  /\ UNCHANGED <<serverVars, latchVars>>

-----------------------------------------------------------------------------
(* observe_ready                                                           *)

Observe ==
  /\ pc = "observe"
  /\ Confirmed(FALSE)
  /\ Return(IF seen = None THEN "released" ELSE "granted")
  /\ point' = (IF seen = None THEN point ELSE seen)
  /\ UNCHANGED serverVars

-----------------------------------------------------------------------------
(* release_gpu, called by the coordinator or from within acquire_gpu.      *)

\* Mutant: the flag of the last load stays.
PostLoadStale(want) ==
  /\ uncertain' = TRUE /\ pendingLoad' = want /\ UNCHANGED loadFailed
  /\ job' = "load" /\ loading' = want.model /\ reply' = "none"
  /\ pc' = "load" /\ nested' = FALSE /\ answered' = FALSE /\ seen' = None
  /\ UNCHANGED <<configured, card, residue, point, grant>>

\* Sends POST /v1/model/load (the beginning of _load).
PostLoad(want) ==
  /\ uncertain' = TRUE /\ pendingLoad' = want /\ loadFailed' = FALSE
  /\ job' = "load" /\ loading' = want.model /\ reply' = "none"
  /\ pc' = "load" /\ nested' = FALSE /\ answered' = FALSE /\ seen' = None
  /\ UNCHANGED <<configured, card, residue, point, grant>>

\* Nothing is loaded: nothing to do.
ReleaseNothing ==
  /\ pc = "release" /\ seen = None
  /\ ~nested
  /\ Confirmed(FALSE)
  /\ Return("released")
  /\ UNCHANGED <<serverVars, point>>

\* Sends POST /v1/model/unload.  The coordinator's restore point follows the
\* model that is really loaded.
PostUnload ==
  /\ pc = "release" /\ seen # None
  /\ answered /\ (uncertain => Confirms(FALSE))
  /\ point' = (IF nested THEN point ELSE seen)
  /\ uncertain' = TRUE /\ pendingLoad' = None
  /\ loadFailed' = (~uncertain /\ loadFailed)
  /\ job' = "unload" /\ reply' = "none"
  /\ pc' = "unload" /\ answered' = FALSE /\ seen' = None
  /\ UNCHANGED <<configured, card, loading, residue, grant, nested>>

Unloaded ==
  /\ pc = "unload" /\ reply = "unloaded"
  /\ Ask("unloadVerify")
  /\ UNCHANGED <<serverVars, latchVars, point, grant, nested>>

ReleaseVerified ==
  /\ pc = "unloadVerify" /\ answered /\ seen = None
  /\ ~nested
  /\ uncertain' = FALSE
  /\ Return("released")
  /\ UNCHANGED <<serverVars, pendingLoad, loadFailed, point>>

\* The unload was rejected, or the model is still there.
ReleaseRejected ==
  /\ \/ pc = "unload" /\ reply = "refused"
     \/ pc = "unloadVerify" /\ answered /\ seen # None
  /\ Raise
  /\ UNCHANGED <<serverVars, latchVars>>

-----------------------------------------------------------------------------
(* acquire_gpu                                                             *)

\* What to load, and what the card must show afterwards: everything that the
\* restore point says, or any settings if this is the first load.
Restore == IF point # None THEN point ELSE [model |-> configured, parameters |-> AnySettings]

\* The model is already there, or a model that was selected natively is kept.
AcquireLoaded ==
  /\ pc = "acquire" /\ seen # None
  /\ point \in {None, seen}
  /\ Confirmed(TRUE)
  /\ Return("granted")
  /\ point' = seen
  /\ UNCHANGED serverVars

\* Another model or other settings: unload first.
AcquireOther ==
  /\ pc = "acquire" /\ seen # None
  /\ point \notin {None, seen}
  /\ Confirmed(TRUE)
  /\ nested' = TRUE
  /\ Ask("release")
  /\ UNCHANGED <<serverVars, point, grant>>

\* No model to load is configured.
AcquireUnconfigured ==
  /\ pc = "acquire" /\ seen = None
  /\ point = None /\ configured = None
  /\ Confirmed(TRUE)
  /\ Raise
  /\ UNCHANGED serverVars

\* Nothing is loaded: from the start, or since the nested release.
AcquireLoad ==
  /\ answered /\ seen = None
  /\ \/ pc = "acquire" /\ (uncertain => Confirms(TRUE))
     \/ pc = "release" /\ nested /\ (uncertain => Confirms(FALSE))
     \/ pc = "unloadVerify" /\ nested
  /\ Restore.model # None
  /\ PostLoad(Restore)

\* Mutant: the error event counts before the stream ends.
LoadFailedEarly ==
  /\ pc = "load" /\ reply \in {"none", "failed"}
  /\ loadFailed' = TRUE
  /\ Raise
  /\ UNCHANGED <<serverVars, uncertain, pendingLoad>>

\* The stream of events ended with an error event: the load has stopped.
LoadFailed ==
  /\ pc = "load" /\ reply = "failed"
  /\ loadFailed' = TRUE
  /\ Raise
  /\ UNCHANGED <<serverVars, uncertain, pendingLoad>>

LoadRejected ==
  /\ pc = "load" /\ reply = "refused"
  /\ Raise
  /\ UNCHANGED <<serverVars, latchVars>>

\* The stream ended with a finished event, which may precede readiness.
LoadFinished ==
  /\ pc = "load" /\ reply \in {"none", "loaded"}
  /\ Ask("loadVerify")
  /\ UNCHANGED <<serverVars, latchVars, point, grant, nested>>

PollAgain ==
  /\ pc = "loadVerify" /\ answered /\ seen = None
  /\ Ask("loadVerify")
  /\ UNCHANGED <<serverVars, latchVars, point, grant, nested>>

AcquireVerified ==
  /\ pc = "loadVerify" /\ answered /\ seen # None
  /\ Matches(seen, pendingLoad)
  /\ uncertain' = FALSE /\ pendingLoad' = None
  /\ Return("granted")
  /\ point' = seen
  /\ UNCHANGED <<serverVars, loadFailed>>

AcquireMismatch ==
  /\ pc = "loadVerify" /\ answered /\ seen # None
  /\ ~Matches(seen, pendingLoad)
  /\ Raise
  /\ UNCHANGED <<serverVars, latchVars>>

-----------------------------------------------------------------------------
Calling == CallObserve \/ CallRelease \/ CallAcquire

Working ==
  \/ Unconfirmed \/ Observe
  \/ ReleaseNothing \/ PostUnload \/ Unloaded \/ ReleaseVerified \/ ReleaseRejected
  \/ AcquireLoaded \/ AcquireOther \/ AcquireUnconfigured \/ AcquireLoad
  \/ LoadFailed \/ LoadRejected \/ LoadFinished
  \/ PollAgain \/ AcquireVerified \/ AcquireMismatch

Next == Server \/ Answer \/ Calling \/ Abort \/ Working

Spec == Init /\ [][Next]_vars
=============================================================================
