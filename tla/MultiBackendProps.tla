------------------------- MODULE MultiBackendProps --------------------------
(* What the combined backend promises, and the invariant it rests on.      *)
EXTENDS MultiBackend

\* Nothing of e is in GPU memory, or can still come there.
Free(e) == loaded[e] = None /\ outstanding[e] # "load"

\* ComfyUI is granted the GPU only if no engine occupies it or can still load
\* a model for something that failed, although KoboldCpp's adapter answers
\* observations while its router loads, and although a release may have failed
\* half way before (observe_ready, release_gpu).
ReleasedMeansFree == grant = "released" => \A e \in Engines : Free(e)

\* An engine is told to load, and a lease is granted, only when every other
\* engine is free, whatever failed before (acquire_gpu).
LoadsAlone ==
  call = "load" \/ grant = "granted" => \A e \in Engines \ {goal.engine} : Free(e)

\* The lease's engine has loaded the model asked for, and loads nothing else:
\* saved restore points never name another model, and no load of an
\* earlier failed request at KoboldCpp goes on under a new one (acquire_gpu).
ServesTarget ==
  grant = "granted" =>
    /\ outstanding[goal.engine] # "load"
    /\ goal.engine # Kobold => loaded[goal.engine] = goal.model

\* While an engine that the broker loaded is active, KoboldCpp counts as
\* released: its child is not restarted under that engine (_kobold_released).
KoboldLeftAlone == active # None /\ active.engine # Kobold => koboldReleased

-----------------------------------------------------------------------------
(* The inductive invariant.                                                *)

\* The release that the flag remembers still holds.
FlagSound == koboldReleased => Free(Kobold) /\ ~routerFailed

\* A load that is outstanding at KoboldCpp is remembered twice.
RouterInv ==
  outstanding[Kobold] = "load" =>
    /\ routerFailed
    /\ pending # None /\ pending.engine = Kobold

\* Saved restore points name their own model, and the active engine holds no
\* other one.
SavedInv ==
  /\ \A e \in Natives, m \in Models : saved[e][m] \in {None, m}
  /\ active # None => pending = active
  /\ active # None /\ active.engine # Kobold =>
       /\ loaded[active.engine] \in {active.model, None}
       /\ outstanding[active.engine] # "load"

\* What the engines visited so far have been found, or made, to be.
VisitInv ==
  /\ call = "observe" /\ ~occupied => pending = None /\ \A e \in Engines \ todo : Free(e)
  /\ call = "release" => \A e \in Engines \ todo : Free(e)
  /\ call = "acquire" =>
       /\ goal # None /\ goal.engine \notin todo
       /\ \A e \in Engines \ (todo \cup {goal.engine}) : Free(e)
       /\ Kobold \notin todo \cup {goal.engine} => koboldReleased
  /\ call = "load" =>
       /\ goal # None /\ active = None /\ pending = goal
       /\ koboldReleased <=> goal.engine # Kobold
       /\ outstanding[Kobold] # "load"

GrantInv ==
  /\ grant # "open" => call = "none"
  /\ grant = "granted" =>
       /\ goal # None /\ active = goal
       /\ IF goal.engine = Kobold THEN ~koboldReleased ELSE outstanding[goal.engine] = "none"
  /\ serving => grant = "granted"

IInv == TypeOK /\ ReleasedMeansFree /\ LoadsAlone /\ ServesTarget /\ KoboldLeftAlone
          /\ FlagSound /\ RouterInv /\ SavedInv /\ VisitInv /\ GrantInv
=============================================================================
