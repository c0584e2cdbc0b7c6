------------------------ MODULE WorkerAdaptersProps -------------------------
(* What the Prism and Strata adapters promise, and the invariant it rests  *)
(* on.                                                                     *)
EXTENDS WorkerAdapters

\* What the contract calls the loaded model, and a load under way.
Llm == IF job = "load" THEN None ELSE worker
Late == job = "load"

Phase ==
  CASE call = "none" -> grant
    [] call = "observe" -> "observing"
    [] call = "release" -> "releasing"
    [] OTHER -> "acquiring"

Contract == INSTANCE LlmContract WITH
  Images <- {}, Reservation <- "none", Kind <- "prism", RouterMode <- FALSE,
  llm <- Llm, late <- Late,
  comfyClean <- TRUE, running <- {}, phase <- Phase

\* The adapters keep the contract on which Coordinator is built: a release
\* that succeeds leaves no worker and no load that can still complete, an
\* acquisition leaves the model asked for, and an observation that succeeds is
\* not overtaken by what an earlier call gave up (release_gpu, acquire_gpu,
\* observe_ready).
ImplementsContract == Contract!ContractSpec

\* The latch is only off when the server has finished everything it was asked
\* to do (_uncertain).
LatchSound == ~uncertain => job = "idle"

\* No load or unload is sent while the server works on another one, however
\* many calls were given up before (_change).
OneJobAtATime == [][await' = "post" /\ await # "post" => job = "idle"]_vars

-----------------------------------------------------------------------------
(* The inductive invariant.                                                *)

JobInv ==
  /\ job = "load" => loading # None /\ (worker = None \/ (worker = loading /\ ~stable))
  /\ kind = "strata" => worker \in {default, None} /\ loading \in {default, None}
  /\ kind = "strata" /\ job # "idle" => reply = "none"
  /\ kind = "prism" /\ job = "unload" => worker # None
  /\ change = "unload" /\ job = "idle" /\ reply = "accepted" => worker = None
  /\ change = "load" /\ job = "idle" /\ reply = "accepted" => worker \in {loading, None}

AwaitInv ==
  /\ await \in {"post", "confirm"} <=> change # "none"
  /\ call = "none" => await = "none"
  /\ call \in {"observe", "release"} => change # "load"
  /\ call = "observe" => change = "none"
  /\ kind = "strata" /\ call = "acquire" => change # "unload"
  /\ call = "release" => point # None
  /\ await = "look" => ~uncertain
  /\ change # "none" => uncertain /\ job \in {change, "idle"}
  /\ change = "load" => loading = Restore
  /\ await = "confirm" => reply = "accepted"

\* An answer still shows which model is on the GPU, and one that confirms a
\* change comes after its end.
AnswerInv ==
  /\ answered => await \in {"look", "confirm"}
  /\ answered /\ await = "look" => seen = worker
  /\ answered /\ change = "unload" /\ seen = None => worker = None /\ job = "idle"
  /\ answered /\ change = "load" /\ seen # None /\ seenStable => worker = Restore /\ job = "idle"

GrantInv ==
  /\ call = "none" /\ grant = "released" => ~uncertain /\ worker = None
  /\ call = "none" /\ grant = "granted" => ~uncertain /\ worker # None

IInv == TypeOK /\ LatchSound /\ JobInv /\ AwaitInv /\ AnswerInv /\ GrantInv
=============================================================================
