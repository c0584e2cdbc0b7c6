------------------------- MODULE MultiBackendProofs -------------------------
(* Proofs about the combined backend, for any engines and models.          *)
EXTENDS MultiBackendProps, TLAPS

LEMMA TargetFacts ==
  /\ None \notin Models /\ None \notin MultiTarget
  /\ \A t \in MultiTarget : t.engine \in Engines /\ t.model \in Models
  /\ Kobold \in Engines
BY EngineAssumption DEF MultiTarget

LEMMA InitInv == Init => IInv
<1> SUFFICES ASSUME Init PROVE IInv
  OBVIOUS
<1>1. TypeOK /\ \A e \in Natives, m \in Models : saved[e][m] = None
  BY DEF Init, TypeOK, FlagsOK
<1>2. QED
  BY <1>1, TargetFacts
     DEF Init, IInv, ReleasedMeansFree, LoadsAlone, ServesTarget, KoboldLeftAlone, FlagSound,
         RouterInv, SavedInv, VisitInv, GrantInv

\* The flags are flags.
LEMMA FlagsStep ==
  ASSUME TypeOK, [Next]_vars PROVE FlagsOK'
<1> USE DEF TypeOK, FlagsOK, vars, engineVars, flagVars, fieldVars, callVars
<1>1. CASE UNCHANGED vars
  BY <1>1
<1>2. CASE CallObserve \/ CallRelease \/ \E t \in MultiTarget : CallAcquire(t)
  BY <1>2 DEF CallObserve, CallRelease, CallAcquire, Begin
<1>3. ASSUME NEW e \in Engines,
             \/ ObserveEngine(e) \/ ReleaseNative(e) \/ EngineRefuses(e)
             \/ UnloadFails(e) \/ Settles(e)
      PROVE FlagsOK'
  BY <1>3 DEF ObserveEngine, ReleaseNative, EngineRefuses, UnloadFails, Settles, Visited, Return
<1>4. CASE ObserveReady \/ SkipKobold \/ UnloadKobold \/ Release
  BY <1>4 DEF ObserveReady, SkipKobold, UnloadKobold, Release, Visited, Return
<1>5. CASE StartLoad \/ StartFails \/ Reserved \/ Loaded \/ LoadFails
  BY <1>5 DEF StartLoad, StartFails, Reserved, Loaded, LoadFails, Return
<1>6. CASE SendRequest \/ RouterLoads \/ RequestEnds \/ RequestFails
  BY <1>6 DEF SendRequest, RouterLoads, RequestEnds, RequestFails, RequestFrame
<1>7. QED
  BY <1>1, <1>2, <1>3, <1>4, <1>5, <1>6 DEF Next

\* What is remembered of an engine is a restore point of its active model.
LEMMA RememberFacts ==
  ASSUME TypeOK, SavedInv, NEW e \in Natives, Remember(e), outstanding[e] # "load"
  PROVE  /\ saved' \in [Natives -> [Models -> Models \cup {None}]]
         /\ \A n \in Natives, m \in Models : saved'[n][m] \in {None, m}
BY TargetFacts DEF TypeOK, SavedInv, Remember, Natives

\* No request is at an engine during a call, or after it.
LEMMA Quiet ==
  ASSUME GrantInv, call # "none", UNCHANGED serving PROVE ~serving'
<1>1. ~serving
  BY DEF GrantInv
<1>2. QED
  BY <1>1, Zenon

LEMMA CallInv ==
  ASSUME IInv, CallObserve \/ CallRelease \/ \E t \in MultiTarget : CallAcquire(t)
  PROVE  IInv'
<1>0. FlagsOK'
  BY FlagsStep DEF Next, IInv
<1> USE TargetFacts
    DEF IInv, TypeOK, ReleasedMeansFree, LoadsAlone, ServesTarget, KoboldLeftAlone, FlagSound,
        RouterInv, SavedInv, VisitInv, GrantInv, Natives, Free, Begin, engineVars, fieldVars
<1>1. CASE CallObserve
  BY <1>0, <1>1 DEF CallObserve
<1>2. CASE CallRelease
  BY <1>0, <1>2 DEF CallRelease
<1>3. ASSUME NEW t \in MultiTarget, CallAcquire(t) PROVE IInv'
  BY <1>0, <1>3 DEF CallAcquire
<1>4. QED
  BY <1>1, <1>2, <1>3

LEMMA ObserveInv ==
  ASSUME IInv, ObserveReady \/ \E e \in Engines : ObserveEngine(e)
  PROVE  IInv'
<1>0. FlagsOK'
  BY FlagsStep DEF Next, IInv
<1> USE TargetFacts
    DEF IInv, TypeOK, ReleasedMeansFree, LoadsAlone, ServesTarget, KoboldLeftAlone, FlagSound,
        RouterInv, SavedInv, VisitInv, GrantInv, Natives, Free, Visited, Return, engineVars,
        fieldVars, flagVars
<1>1. CASE ObserveReady
  BY <1>0, <1>1 DEF ObserveReady
<1>2. ASSUME NEW e \in Engines, ObserveEngine(e) PROVE IInv'
  <2>1. occupied' = FALSE => occupied = FALSE /\ loaded[e] = None
    BY <1>2 DEF ObserveEngine, FlagsOK
  <2>2. occupied' = FALSE => Free(e)
    BY <1>2, <2>1 DEF ObserveEngine, Observes
  <2>3. QED
    BY <1>0, <1>2, <2>1, <2>2 DEF ObserveEngine
<1>3. QED
  BY <1>1, <1>2

LEMMA ReleaseInv ==
  ASSUME IInv, Release \/ SkipKobold \/ UnloadKobold \/ \E e \in Engines : ReleaseNative(e)
  PROVE  IInv'
<1>0. FlagsOK'
  BY FlagsStep DEF Next, IInv
<1> USE TargetFacts
    DEF IInv, TypeOK, ReleasedMeansFree, LoadsAlone, ServesTarget, KoboldLeftAlone, FlagSound,
        RouterInv, SavedInv, VisitInv, GrantInv, Free, Visited, Return, engineVars,
        fieldVars, flagVars, Forget, Emptied, Releasing, NeedsUnload
<1>1. CASE Release
  BY <1>0, <1>1 DEF Release
<1>2. CASE SkipKobold
  BY <1>0, <1>2 DEF SkipKobold, Natives
<1>3. CASE UnloadKobold
  BY <1>0, <1>3 DEF UnloadKobold, Natives
<1>4. ASSUME NEW e \in Engines, ReleaseNative(e) PROVE IInv'
  <2>1. e \in Natives /\ outstanding[e] # "load" /\ Remember(e) /\ e \in todo
    BY <1>4 DEF ReleaseNative, Observes, Natives
  <2>2. /\ saved' \in [Natives -> [Models -> Models \cup {None}]]
        /\ \A n \in Natives, m \in Models : saved'[n][m] \in {None, m}
    BY <2>1, RememberFacts
  <2>3. TypeOK'
    BY <1>0, <1>4, <2>1, <2>2 DEF ReleaseNative, Natives
  <2>4. ReleasedMeansFree' /\ LoadsAlone' /\ ServesTarget' /\ KoboldLeftAlone'
    BY <1>0, <1>4, <2>1, <2>2 DEF ReleaseNative, Natives
  <2>5. FlagSound' /\ RouterInv'
    BY <1>0, <1>4, <2>1, <2>2 DEF ReleaseNative, Natives
  <2>6. SavedInv'
    BY <1>0, <1>4, <2>1, <2>2 DEF ReleaseNative, Natives
  <2>7. VisitInv' /\ GrantInv'
    BY <1>0, <1>4, <2>1, <2>2 DEF ReleaseNative, Natives
  <2>8. QED
    BY <2>3, <2>4, <2>5, <2>6, <2>7
<1>5. QED
  BY <1>1, <1>2, <1>3, <1>4

LEMMA FailureInv ==
  ASSUME IInv,
         \/ StartFails \/ LoadFails
         \/ \E e \in Engines : EngineRefuses(e) \/ UnloadFails(e) \/ Settles(e)
  PROVE  IInv'
<1>0. FlagsOK'
  BY FlagsStep DEF Next, IInv
<1> USE TargetFacts
    DEF IInv, TypeOK, ReleasedMeansFree, LoadsAlone, ServesTarget, KoboldLeftAlone, FlagSound,
        RouterInv, SavedInv, VisitInv, GrantInv, Free, Return, engineVars,
        fieldVars, flagVars, callVars
<1>1. CASE StartFails
  BY <1>0, <1>1 DEF StartFails
<1>2. CASE LoadFails
  BY <1>0, <1>2 DEF LoadFails, Natives
<1>3. ASSUME NEW e \in Engines, EngineRefuses(e) PROVE IInv'
  <2>1. TypeOK'
    BY <1>0, <1>3 DEF EngineRefuses
  <2>2. ReleasedMeansFree' /\ LoadsAlone' /\ ServesTarget' /\ KoboldLeftAlone'
    BY <1>0, <1>3 DEF EngineRefuses
  <2>3. FlagSound' /\ RouterInv'
    BY <1>0, <1>3 DEF EngineRefuses
  <2>4. SavedInv'
    BY <1>0, <1>3 DEF EngineRefuses
  <2>5. VisitInv' /\ GrantInv'
    BY <1>0, <1>3, Quiet DEF EngineRefuses, Releasing
  <2>6. QED
    BY <2>1, <2>2, <2>3, <2>4, <2>5
<1>4. ASSUME NEW e \in Engines, UnloadFails(e) PROVE IInv'
  <2>1. CASE e = Kobold
    <3>1. TypeOK'
      BY <1>0, <1>4, <2>1 DEF UnloadFails, Natives
    <3>2. ReleasedMeansFree' /\ LoadsAlone' /\ ServesTarget' /\ KoboldLeftAlone'
      BY <1>0, <1>4, <2>1 DEF UnloadFails, Natives
    <3>3. FlagSound' /\ RouterInv'
      BY <1>0, <1>4, <2>1 DEF UnloadFails, Natives
    <3>4. SavedInv'
      BY <1>0, <1>4, <2>1 DEF UnloadFails, Natives
    <3>5. VisitInv' /\ GrantInv'
      BY <1>0, <1>4, <2>1, Quiet DEF UnloadFails, Natives, Releasing
    <3>6. QED
      BY <3>1, <3>2, <3>3, <3>4, <3>5
  <2>2. CASE e # Kobold
    <3>1. e \in Natives /\ outstanding[e] # "load" /\ Remember(e)
      BY <1>4, <2>2 DEF UnloadFails, Observes, Natives
    <3>2. /\ saved' \in [Natives -> [Models -> Models \cup {None}]]
          /\ \A n \in Natives, m \in Models : saved'[n][m] \in {None, m}
      BY <3>1, RememberFacts
    <3>3. TypeOK'
      BY <1>0, <1>4, <2>2, <3>1, <3>2 DEF UnloadFails, Natives
    <3>4. ReleasedMeansFree' /\ LoadsAlone' /\ ServesTarget' /\ KoboldLeftAlone'
      BY <1>0, <1>4, <2>2, <3>1, <3>2 DEF UnloadFails, Natives
    <3>5. FlagSound' /\ RouterInv'
      BY <1>0, <1>4, <2>2, <3>1, <3>2 DEF UnloadFails, Natives
    <3>6. SavedInv'
      BY <1>0, <1>4, <2>2, <3>1, <3>2 DEF UnloadFails, Natives
    <3>7. VisitInv' /\ GrantInv'
      BY <1>0, <1>4, <2>2, <3>1, <3>2, Quiet DEF UnloadFails, Natives, Releasing
    <3>8. QED
      BY <3>3, <3>4, <3>5, <3>6, <3>7
  <2>3. QED
    BY <2>1, <2>2
<1>5. ASSUME NEW e \in Engines, Settles(e) PROVE IInv'
  <2>1. TypeOK'
    BY <1>0, <1>5 DEF Settles, Natives
  <2>2. ReleasedMeansFree' /\ LoadsAlone' /\ ServesTarget' /\ KoboldLeftAlone'
    BY <1>0, <1>5 DEF Settles, Natives
  <2>3. FlagSound' /\ RouterInv'
    BY <1>0, <1>5 DEF Settles, Natives
  <2>4. SavedInv'
    BY <1>0, <1>5 DEF Settles, Natives
  <2>5. VisitInv' /\ GrantInv'
    BY <1>0, <1>5 DEF Settles, Natives
  <2>6. QED
    BY <2>1, <2>2, <2>3, <2>4, <2>5
<1>6. QED
  BY <1>1, <1>2, <1>3, <1>4, <1>5

LEMMA AcquireInv ==
  ASSUME IInv, StartLoad \/ Reserved \/ Loaded
  PROVE  IInv'
<1>0. FlagsOK'
  BY FlagsStep DEF Next, IInv
<1> USE TargetFacts
    DEF IInv, TypeOK, ReleasedMeansFree, LoadsAlone, ServesTarget, KoboldLeftAlone, FlagSound,
        RouterInv, SavedInv, VisitInv, GrantInv, Free, Return, engineVars, fieldVars, flagVars
<1>1. CASE StartLoad
  <2>1. /\ saved' \in [Natives -> [Models -> Models \cup {None}]]
        /\ \A n \in Natives, m \in Models : saved'[n][m] \in {None, m}
    BY <1>1, RememberFacts DEF StartLoad, Observes, Natives
  <2>2. QED
    BY <1>0, <1>1, <2>1 DEF StartLoad, NeedsUnload
<1>2. CASE Reserved
  <2>1. TypeOK'
    BY <1>0, <1>2 DEF Reserved
  <2>2. ReleasedMeansFree' /\ LoadsAlone' /\ ServesTarget' /\ KoboldLeftAlone'
    BY <1>0, <1>2 DEF Reserved
  <2>3. FlagSound' /\ RouterInv'
    BY <1>0, <1>2 DEF Reserved
  <2>4. SavedInv'
    BY <1>0, <1>2 DEF Reserved
  <2>5. VisitInv' /\ GrantInv'
    BY <1>0, <1>2 DEF Reserved
  <2>6. QED
    BY <2>1, <2>2, <2>3, <2>4, <2>5
<1>3. CASE Loaded
  <2>1. Native(goal) = goal.model /\ goal.engine \in Natives /\ goal \in MultiTarget
    BY <1>3 DEF Loaded, Native, Natives
  <2>2. TypeOK'
    BY <1>0, <1>3, <2>1 DEF Loaded, Natives
  <2>3. ReleasedMeansFree' /\ LoadsAlone' /\ ServesTarget' /\ KoboldLeftAlone'
    BY <1>0, <1>3, <2>1 DEF Loaded, Natives
  <2>4. FlagSound' /\ RouterInv'
    BY <1>0, <1>3, <2>1 DEF Loaded, Natives
  <2>5. SavedInv'
    BY <1>0, <1>3, <2>1 DEF Loaded, Natives
  <2>6. VisitInv' /\ GrantInv'
    BY <1>0, <1>3, <2>1 DEF Loaded, Natives
  <2>7. QED
    BY <2>2, <2>3, <2>4, <2>5, <2>6
<1>4. QED
  BY <1>1, <1>2, <1>3

LEMMA RequestInv ==
  ASSUME IInv, SendRequest \/ RouterLoads \/ RequestEnds \/ RequestFails
  PROVE  IInv'
<1>0. FlagsOK'
  BY FlagsStep DEF Next, IInv
<1> USE TargetFacts
    DEF IInv, TypeOK, ReleasedMeansFree, LoadsAlone, ServesTarget, KoboldLeftAlone, FlagSound,
        RouterInv, SavedInv, VisitInv, GrantInv, Free, engineVars, flagVars, callVars,
        RequestFrame
<1>1. CASE SendRequest
  BY <1>0, <1>1 DEF SendRequest
<1>2. CASE RouterLoads
  BY <1>0, <1>2 DEF RouterLoads, Natives
<1>3. CASE RequestEnds
  BY <1>0, <1>3 DEF RequestEnds
<1>4. CASE RequestFails
  BY <1>0, <1>4 DEF RequestFails, Natives
<1>5. QED
  BY <1>1, <1>2, <1>3, <1>4

\* The invariant that the following rest on: what MultiBackend's fields say of
\* the engines, between the awaits of a call too.
THEOREM EnginesInvariant == Spec => []IInv
<1>1. IInv /\ UNCHANGED vars => IInv'
  BY DEF IInv, TypeOK, FlagsOK, ReleasedMeansFree, LoadsAlone, ServesTarget, KoboldLeftAlone,
         FlagSound, RouterInv, SavedInv, VisitInv, GrantInv, Free, vars
<1>2. IInv /\ [Next]_vars => IInv'
  BY <1>1, CallInv, ObserveInv, ReleaseInv, FailureInv, AcquireInv, RequestInv DEF Next
<1>3. QED
  BY InitInv, <1>2, PTL DEF Spec

\* ComfyUI is granted the GPU only when no engine holds it or may still load.
THEOREM ReleaseHolds == Spec => []ReleasedMeansFree
BY EnginesInvariant, PTL DEF IInv

\* One engine at a time is told to load, or holds a lease.
THEOREM EnginesAlone == Spec => []LoadsAlone
BY EnginesInvariant, PTL DEF IInv

\* A lease's engine has loaded what was asked for, and loads nothing else.
THEOREM TargetServed == Spec => []ServesTarget
BY EnginesInvariant, PTL DEF IInv

\* KoboldCpp is not restarted while another engine is active.
THEOREM KoboldUndisturbed == Spec => []KoboldLeftAlone
BY EnginesInvariant, PTL DEF IInv
=============================================================================
