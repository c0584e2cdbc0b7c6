--------------------------- MODULE TabbyApiProps ----------------------------
(* What the TabbyAPI adapter promises, and the invariant it rests on.      *)
EXTENDS TabbyApi

\* A load that the server still works on, or what a failed one left.
Aftermath == job = "load" \/ residue

Phase ==
  CASE pc = "idle" -> grant
    [] pc = "observe" -> "observing"
    [] pc \in {"release", "unload", "unloadVerify"} /\ ~nested -> "releasing"
    [] OTHER -> "acquiring"

Contract == INSTANCE LlmContract WITH
  Models <- Cards, Images <- {}, Reservation <- AnySettings, Kind <- "tabbyapi", RouterMode <- FALSE,
  llm <- card, late <- Aftermath, comfyClean <- TRUE, running <- {}, phase <- Phase,
  goal <- point

\* The adapter keeps the contract on which Coordinator is built: a release
\* that succeeds leaves no model and no load that can still complete; an
\* acquisition leaves exactly the model and settings of the restore point; an
\* observation that succeeds is not overtaken by a load or an unload that an
\* earlier call gave up (TabbyApiBackend).
ImplementsContract == Contract!ContractSpec

\* The latch is only off when the server has finished everything it was asked
\* to do and no failed load keeps memory (_uncertain).
LatchSound == ~uncertain => job = "idle" /\ ~residue

\* No load or unload is sent while the server works on another one, however
\* many calls timed out before (release_gpu, acquire_gpu, _load).
OneJobAtATime ==
  [][pc' \in {"load", "unload"} /\ pc' # pc => job = "idle"]_vars

-----------------------------------------------------------------------------
(* The inductive invariant.                                                *)

JobInv ==
  /\ job = "load" => /\ uncertain /\ card = None
                     /\ pendingLoad # None /\ pendingLoad.model = loading
  /\ job = "unload" => uncertain /\ pendingLoad = None /\ card # None
  /\ residue => uncertain /\ pendingLoad # None /\ card = None
  /\ loadFailed => uncertain /\ pendingLoad # None /\ job = "idle"

\* An answer that the latch accepts still shows what is loaded.
AnswerInv ==
  /\ answered => pc \in Observing
  /\ answered /\ ~uncertain => seen = card
  /\ answered /\ uncertain /\ pendingLoad = None /\ seen = None => card = None
  /\ answered /\ uncertain /\ pendingLoad # None /\ seen # None => seen = card
  /\ answered /\ uncertain /\ loadFailed /\ seen = None => card = None

CallInv ==
  /\ pc \in {"unload", "unloadVerify"} => uncertain /\ pendingLoad = None
  /\ pc = "unload" /\ reply = "unloaded" => card = None /\ job = "idle"
  /\ pc = "unloadVerify" => job = "idle" /\ card = None
  /\ pc \in {"load", "loadVerify"} =>
       uncertain /\ ~loadFailed /\ pendingLoad # None /\ pendingLoad = Restore
  /\ pendingLoad # None => Restore.model # None
  /\ pc = "load" /\ reply = "failed" => job = "idle" /\ card = None
  /\ pc = "release" => point # None
  /\ nested => pc \in {"release", "unload", "unloadVerify"}

GrantInv ==
  /\ pc = "idle" /\ grant = "released" => ~uncertain /\ card = None
  /\ pc = "idle" /\ grant = "granted" => ~uncertain /\ card # None

IInv == TypeOK /\ LatchSound /\ JobInv /\ AnswerInv /\ CallInv /\ GrantInv
=============================================================================
