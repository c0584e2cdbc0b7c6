---------------------------- MODULE ClientsProofs ----------------------------
(* Proofs about the parts that MCClients composes: each for every value of  *)
(* its constants, and then of the composition that the runs check.          *)
EXTENDS MCClients, TLAPS

-----------------------------------------------------------------------------
(* TabbyAPI: the adapter's latch is sound, and it keeps the contract that  *)
(* the coordinator is built on.                                            *)

\* Restore points and cards as what a load is to result in.
LEMMA CardFacts ==
  /\ None \notin Models /\ None \notin Cards /\ None \notin Wanted
  /\ Cards \subseteq Wanted
  /\ \A c \in Wanted : c.model \in Models
  /\ TypeOK => \/ Restore \in Wanted
               \/ Restore.model = None
BY TabbyAssumption DEF TypeOK, Cards, Wanted, Restore

LEMMA InitInv == Init => IInv
BY CardFacts
   DEF Init, IInv, TypeOK, LatchSound, JobInv, AnswerInv, CallInv, GrantInv, Observing, FlagsOK

\* The flags are flags.
LEMMA FlagsStep ==
  ASSUME TypeOK, Server \/ Working PROVE FlagsOK'
<1> USE DEF TypeOK, FlagsOK, latchVars, serverVars, askVars, Ask, Return, Raise, Confirmed, Settled
<1>1. CASE Server
  BY <1>1 DEF Server, LoadEnds, LoadBreaks, UnloadEnds, Refuses, NativeSelection
<1>2. CASE Unconfirmed \/ Observe \/ Unloaded \/ LoadFinished \/ PollAgain
  BY <1>2 DEF Unconfirmed, Observe, Unloaded, LoadFinished, PollAgain
<1>3. CASE ReleaseNothing \/ ReleaseVerified \/ ReleaseRejected
  BY <1>3 DEF ReleaseNothing, ReleaseVerified, ReleaseRejected
<1>4. CASE PostUnload
  BY <1>4 DEF PostUnload
<1>5. CASE AcquireLoaded \/ AcquireOther \/ AcquireUnconfigured \/ AcquireVerified
  BY <1>5 DEF AcquireLoaded, AcquireOther, AcquireUnconfigured, AcquireVerified
<1>6. CASE AcquireLoad
  BY <1>6 DEF AcquireLoad, PostLoad
<1>7. CASE LoadFailed \/ LoadRejected \/ AcquireMismatch
  BY <1>7 DEF LoadFailed, LoadRejected, AcquireMismatch
<1>8. QED
  BY <1>1, <1>2, <1>3, <1>4, <1>5, <1>6, <1>7 DEF Working

\* The server: what it does while the adapter waits, or has given up.
LEMMA ServerInv ==
  ASSUME IInv, Server PROVE IInv'
<1>0. FlagsOK'
  BY FlagsStep DEF IInv
<1> USE DEF IInv, TypeOK, LatchSound, JobInv, AnswerInv, CallInv, GrantInv, Restore,
            Observing, latchVars, askVars
<1>1. CASE LoadEnds
  BY <1>0, <1>1, CardFacts DEF Server, LoadEnds
<1>2. CASE LoadBreaks
  BY <1>0, <1>2, CardFacts DEF Server, LoadBreaks
<1>3. CASE UnloadEnds
  BY <1>0, <1>3, CardFacts DEF Server, UnloadEnds
<1>4. CASE Refuses
  BY <1>0, <1>4, CardFacts DEF Server, Refuses
<1>5. CASE NativeSelection
  BY <1>0, <1>5, CardFacts DEF Server, NativeSelection
<1>6. QED
  BY <1>1, <1>2, <1>3, <1>4, <1>5 DEF Server

LEMMA WorkingInv ==
  ASSUME IInv, Working PROVE IInv'
<1>0. FlagsOK'
  BY FlagsStep DEF IInv
<1> USE DEF IInv, TypeOK, LatchSound, JobInv, AnswerInv, CallInv, GrantInv, Restore,
            Observing, latchVars, serverVars, Ask, Return, Raise
<1>1. CASE Unconfirmed
  BY <1>0, <1>1, CardFacts DEF Unconfirmed
<1>2. CASE Observe
  BY <1>0, <1>2, CardFacts DEF Observe, Confirmed, Confirms, Settled
<1>3. CASE ReleaseNothing
  BY <1>0, <1>3, CardFacts DEF ReleaseNothing, Confirmed, Confirms, Settled
<1>4. CASE PostUnload
  BY <1>0, <1>4, CardFacts DEF PostUnload, Confirms
<1>5. CASE Unloaded
  BY <1>0, <1>5, CardFacts DEF Unloaded
<1>6. CASE ReleaseVerified
  BY <1>0, <1>6, CardFacts DEF ReleaseVerified
<1>7. CASE ReleaseRejected
  BY <1>0, <1>7, CardFacts DEF ReleaseRejected
<1>8. CASE AcquireLoaded
  BY <1>0, <1>8, CardFacts DEF AcquireLoaded, Confirmed, Confirms, Settled
<1>9. CASE AcquireOther
  BY <1>0, <1>9, CardFacts DEF AcquireOther, Confirmed, Confirms, Settled
<1>10. CASE AcquireUnconfigured
  BY <1>0, <1>10, CardFacts DEF AcquireUnconfigured, Confirmed, Confirms, Settled
<1>11. CASE AcquireLoad
  BY <1>0, <1>11, CardFacts DEF AcquireLoad, PostLoad, Confirms
<1>12. CASE LoadFailed
  BY <1>0, <1>12, CardFacts DEF LoadFailed
<1>13. CASE LoadRejected \/ AcquireMismatch
  BY <1>0, <1>13, CardFacts DEF LoadRejected, AcquireMismatch
<1>14. CASE LoadFinished \/ PollAgain
  BY <1>0, <1>14, CardFacts DEF LoadFinished, PollAgain
<1>15. CASE AcquireVerified
  BY <1>0, <1>15, CardFacts DEF AcquireVerified
<1>16. QED
  BY <1>1, <1>2, <1>3, <1>4, <1>5, <1>6, <1>7, <1>8, <1>9, <1>10, <1>11, <1>12, <1>13,
     <1>14, <1>15 DEF Working

\* The invariant of the latch is inductive.
THEOREM AdapterInvariant == Spec => []IInv
<1>1. IInv /\ [Next]_vars => IInv'
  <2> SUFFICES ASSUME IInv, [Next]_vars PROVE IInv'
    OBVIOUS
  <2> USE DEF IInv, TypeOK, LatchSound, JobInv, AnswerInv, CallInv, GrantInv, Restore,
              Observing, latchVars, serverVars, askVars, Ask, Return, Raise
  <2>1. CASE Answer
    <3>1. FlagsOK'
      BY <2>1 DEF Answer, FlagsOK
    <3>2. QED
      BY <2>1, <3>1 DEF Answer
  <2>2. CASE Calling
    <3>1. FlagsOK'
      BY <2>2 DEF Calling, CallObserve, CallRelease, CallAcquire, Call, FlagsOK
    <3>2. QED
      BY <2>2, <3>1, CardFacts DEF Calling, CallObserve, CallRelease, CallAcquire, Call
  <2>3. CASE Abort
    <3>1. FlagsOK'
      BY <2>3 DEF Abort, FlagsOK
    <3>2. QED
      BY <2>3, <3>1 DEF Abort
  <2>4. CASE UNCHANGED vars
    BY <2>4 DEF vars, FlagsOK
  <2>5. QED
    BY <2>1, <2>2, <2>3, <2>4, ServerInv, WorkingInv DEF Next
<1>2. QED
  BY <1>1, InitInv, PTL DEF Spec

\* Whatever timed out before, the latch is only off over an idle server.
THEOREM LatchSoundHolds == Spec => []LatchSound
<1>1. IInv => LatchSound
  BY DEF IInv
<1>2. QED
  BY <1>1, AdapterInvariant, PTL

\* The server is never asked for a second job while it works on one.
THEOREM OneJobHolds == Spec => OneJobAtATime
<1>1. IInv /\ [Next]_vars => [pc' \in {"load", "unload"} /\ pc' # pc => job = "idle"]_vars
  <2> SUFFICES ASSUME IInv, Next, pc' \in {"load", "unload"}, pc' # pc PROVE job = "idle"
    BY DEF vars
  <2> USE DEF IInv, TypeOK, LatchSound, JobInv, AnswerInv, CallInv
  <2>1. PostUnload \/ AcquireLoad
    BY DEF Next, Server, Answer, Calling, CallObserve, CallRelease, CallAcquire, Call, Abort, Working,
           Unconfirmed, Observe, ReleaseNothing, Unloaded, ReleaseVerified, ReleaseRejected,
           AcquireLoaded, AcquireOther, AcquireUnconfigured, LoadFailed, LoadRejected,
           LoadFinished, PollAgain, AcquireVerified, AcquireMismatch, Ask, Return, Raise
  <2>2. CASE PostUnload
    BY <2>2 DEF PostUnload, Confirms
  <2>3. CASE AcquireLoad
    BY <2>3 DEF AcquireLoad, Confirms
  <2>4. QED
    BY <2>1, <2>2, <2>3
<1>2. QED
  BY <1>1, AdapterInvariant, PTL DEF Spec, OneJobAtATime

-----------------------------------------------------------------------------
(* The contract.                                                           *)

\* The server's steps are steps that the contract allows where it allows any.
LEMMA ServerContract ==
  ASSUME IInv, Server PROVE [Contract!ContractNext]_(Contract!contractVars)
<1> USE DEF IInv, TypeOK, LatchSound, JobInv, CallInv, GrantInv, Phase, Aftermath,
            Server, latchVars, askVars
<1>1. CASE NativeSelection
  <2>1. Contract!NativeSelection
    BY <1>1 DEF NativeSelection, Contract!NativeSelection
  <2>2. QED
    BY <2>1 DEF Contract!ContractNext
<1>2. CASE LoadEnds \/ LoadBreaks \/ UnloadEnds \/ Refuses
  <2>1. UNCHANGED <<Phase, point>>
    BY <1>2 DEF LoadEnds, LoadBreaks, UnloadEnds, Refuses
  <2>2. Phase \notin {"released", "granted"}
    BY <1>2 DEF LoadEnds, LoadBreaks, UnloadEnds, Refuses
  <2>3. \/ UNCHANGED <<card, Aftermath>>
        \/ Contract!LateLoad
        \/ card' = None /\ UNCHANGED Aftermath
    <3>1. CASE LoadEnds
      BY <3>1 DEF LoadEnds, Contract!LateLoad, Contract!comfyVars
    <3>2. CASE LoadBreaks
      BY <3>2 DEF LoadBreaks, Contract!LateLoad, Contract!comfyVars
    <3>3. CASE UnloadEnds
      BY <3>3 DEF UnloadEnds
    <3>4. CASE Refuses
      BY <3>4 DEF Refuses, Contract!LateLoad, Contract!comfyVars
    <3>5. QED
      BY <1>2, <3>1, <3>2, <3>3, <3>4
  <2>4. QED
    BY <2>1, <2>2, <2>3 DEF Contract!ContractNext, Contract!Aftermath, Contract!contractVars
<1>3. QED
  BY <1>1, <1>2

\* How a call goes on, fails or ends, as the contract sees it.
LEMMA CallContract ==
  ASSUME IInv, Calling \/ Answer \/ Abort PROVE [Contract!ContractNext]_(Contract!contractVars)
<1> USE DEF IInv, TypeOK, CallInv, Phase, Aftermath, serverVars, latchVars, Observing
<1>1. CASE Calling
  <2>1. PICK kind \in Contract!Calls : Contract!Call(kind)
    BY <1>1 DEF Calling, CallObserve, CallRelease, CallAcquire, Call, Ask, Contract!Call, Contract!Calls
  <2>2. QED
    BY <2>1 DEF Contract!ContractNext
<1>2. CASE Answer
  BY <1>2 DEF Answer, Contract!contractVars
<1>3. CASE Abort
  <2>1. Contract!CallFails
    BY <1>3 DEF Abort, Raise, Return, Contract!CallFails, Contract!Calls
  <2>2. QED
    BY <2>1 DEF Contract!ContractNext
<1>4. QED
  BY <1>1, <1>2, <1>3

LEMMA WorkingContract ==
  ASSUME IInv, Working PROVE [Contract!ContractNext]_(Contract!contractVars)
<1> USE DEF IInv, TypeOK, LatchSound, JobInv, AnswerInv, CallInv, Phase, Aftermath,
            serverVars, latchVars, Observing, Ask, Return, Raise
<1>1. CASE Unconfirmed \/ ReleaseRejected \/ AcquireUnconfigured \/ LoadFailed \/ LoadRejected
           \/ AcquireMismatch
  <2>1. /\ pc \in {"observe", "release", "acquire", "unload", "unloadVerify", "load", "loadVerify"}
        /\ pc' = "idle" /\ grant' = "open"
        /\ UNCHANGED <<card, job, residue, point>>
    BY <1>1 DEF Unconfirmed, ReleaseRejected, AcquireUnconfigured, LoadFailed, LoadRejected,
                AcquireMismatch
  <2>2. Contract!CallFails
    BY <2>1 DEF Contract!CallFails, Contract!Calls
  <2>3. QED
    BY <2>2 DEF Contract!ContractNext
<1>2. CASE Observe
  <2>1. card = seen /\ ~Aftermath
    BY <1>2 DEF Observe, Confirmed, Confirms
  <2>2. Contract!Observed(seen)
    BY <1>2, <2>1, CardFacts DEF Observe, Contract!Observed, Contract!ObserveOk, Contract!ObserveModelOk,
                      Contract!llmVars
  <2>3. QED
    BY <2>2 DEF Contract!ContractNext
<1>3. CASE ReleaseNothing \/ ReleaseVerified
  <2>1. card = None /\ ~Aftermath /\ card' = card /\ Aftermath' = Aftermath
    BY <1>3 DEF ReleaseNothing, ReleaseVerified, Confirmed, Confirms
  <2>2. Contract!Released
    BY <1>3, <2>1 DEF ReleaseNothing, ReleaseVerified, Contract!Released, Contract!ReleaseOk
  <2>3. QED
    BY <2>2 DEF Contract!ContractNext
<1>4. CASE PostUnload
  <2>1. card = seen /\ ~Aftermath /\ UNCHANGED <<card, Phase>> /\ ~Aftermath'
    BY <1>4 DEF PostUnload, Confirms
  <2>2. CASE nested
    BY <1>4, <2>1, <2>2 DEF PostUnload, Contract!contractVars
  <2>3. CASE ~nested
    <3>1. Contract!Releasing
      BY <1>4, <2>1, <2>3 DEF PostUnload, Contract!Releasing, Contract!ReleaseFails
    <3>2. QED
      BY <3>1 DEF Contract!ContractNext
  <2>4. QED
    BY <2>2, <2>3
<1>5. CASE Unloaded \/ AcquireOther \/ LoadFinished \/ PollAgain
  <2>1. UNCHANGED <<card, job, residue, point>>
    BY <1>5 DEF Unloaded, AcquireOther, LoadFinished, PollAgain
  <2>2. CASE AcquireOther
    <3>1. Phase = "acquiring" /\ Phase' = "acquiring"
      BY <2>2 DEF AcquireOther
    <3>2. QED
      BY <2>1, <3>1 DEF Contract!contractVars
  <2>3. CASE Unloaded \/ LoadFinished \/ PollAgain
    <3>1. Phase' = Phase
      BY <2>3 DEF Unloaded, LoadFinished, PollAgain
    <3>2. QED
      BY <2>1, <3>1 DEF Contract!contractVars
  <2>4. QED
    BY <1>5, <2>2, <2>3
<1>6. CASE AcquireLoad
  <2>1. Contract!Acquiring
    BY <1>6 DEF AcquireLoad, PostLoad, Contract!Acquiring, Contract!AcquireFails
  <2>2. QED
    BY <2>1 DEF Contract!ContractNext
<1>7. CASE AcquireLoaded \/ AcquireVerified
  <2>1. card = seen /\ seen # None /\ ~Aftermath /\ UNCHANGED <<card, Aftermath>>
    BY <1>7 DEF AcquireLoaded, AcquireVerified, Confirmed, Confirms
  <2>2. point \in {None, seen}
    <3>1. CASE AcquireLoaded
      BY <3>1 DEF AcquireLoaded
    <3>2. CASE AcquireVerified
      BY <3>2, TabbyAssumption DEF AcquireVerified, Matches, Restore, Cards
    <3>3. QED
      BY <1>7, <3>1, <3>2
  <2>3. Contract!Acquired(seen)
    BY <1>7, <2>1, <2>2
       DEF AcquireLoaded, AcquireVerified, Contract!Acquired, Contract!AcquireOk,
           Contract!AcquireModelOk, Contract!Reserving
  <2>4. QED
    BY <2>1, <2>3 DEF Contract!ContractNext
<1>8. QED
  BY <1>1, <1>2, <1>3, <1>4, <1>5, <1>6, <1>7 DEF Working

\* The adapter implements the contract that Coordinator is built on: the
\* initial states map to initial states, each step to a step or a stutter.
THEOREM ContractKept == Spec => ImplementsContract
<1>1. Init => Contract!ContractInit
  BY DEF Init, Contract!ContractInit, Phase, Aftermath
<1>2. IInv /\ [Next]_vars => [Contract!ContractNext]_(Contract!contractVars)
  <2>1. CASE UNCHANGED vars
    BY <2>1 DEF vars, Contract!contractVars, Phase, Aftermath
  <2>2. QED
    BY <2>1, ServerContract, CallContract, WorkingContract DEF Next
<1>3. QED
  BY <1>1, <1>2, AdapterInvariant, PTL DEF Spec, ImplementsContract, Contract!ContractSpec

-----------------------------------------------------------------------------
(* ComfyClient's two long calls.                                           *)

\* The counter is the length of the run of failed polls at the end, and it only
\* reaches the limit where the prompt is given up.
BlindInv ==
  /\ failures <= Len(polls)
  /\ \A j \in Len(polls) - failures + 1 .. Len(polls) : polls[j] = FALSE
  /\ failures < Len(polls) => polls[Len(polls) - failures] = TRUE
  /\ step \in {"history", "pause", "interruptLate"} \/ verdict = "expired" => failures < FailureLimit
  /\ step \in Monitoring => verdict = "none"
  /\ step = "interrupt" \/ verdict = "aborted" => failures = FailureLimit
  /\ \A k \in 1 .. Len(polls) - 1 :
       k >= FailureLimit => \E j \in k - FailureLimit + 1 .. k : polls[j] = TRUE

\* From the first sample on nothing executes, and the memory only shrinks: it is
\* below the sample once it has moved.
SettlingInv ==
  /\ step \in {"free", "wait"} => previous = -1
  /\ step = "stats" => accepted /\ prompt # "active"
  /\ step \in Freeing /\ previous # -1 =>
       /\ accepted /\ prompt # "active" /\ memory <= previous
       /\ step = "statsPause" \/ moved
       /\ moved => memory < previous \/ memory = 0
  /\ FreedMeansFree

PollInv == PollTypeOK /\ BlindInv /\ SettlingInv

LEMMA PollInitInv == PollInit => PollInv
<1> SUFFICES ASSUME PollInit PROVE PollInv
  OBVIOUS
<1>1. {settles, accepted, moved} \subseteq BOOLEAN /\ polls = <<>> /\ polls \in Seq(BOOLEAN)
  <2>1. settles \in BOOLEAN /\ accepted \in BOOLEAN /\ moved \in BOOLEAN /\ polls = <<>>
    BY Zenon DEF PollInit
  <2>2. <<>> \in Seq(BOOLEAN)
    OBVIOUS
  <2>3. QED
    BY <2>1, <2>2, Zenon
<1>2. /\ step = "idle" /\ verdict = "none" /\ failures = 0 /\ previous = -1
      /\ prompt = "none" /\ memory \in 0 .. MemoryBound
  BY DEF PollInit
<1>3. PollTypeOK
  BY <1>1, <1>2, PollAssumption DEF PollTypeOK
<1>4. BlindInv /\ SettlingInv
  BY <1>1, <1>2, PollAssumption DEF BlindInv, SettlingInv, FreedMeansFree, Monitoring, Freeing
<1>5. QED
  BY <1>3, <1>4 DEF PollInv


\* The flags are flags.
LEMMA PollFlagsStep ==
  ASSUME {settles, accepted, moved} \subseteq BOOLEAN, PollNext
  PROVE  {settles', accepted', moved'} \subseteq BOOLEAN
<1>1. accepted' \in {accepted, TRUE, FALSE} /\ moved' \in {moved, TRUE, FALSE} /\ settles' = settles
  <2>1. CASE Monitor /\ UNCHANGED settles
    BY <2>1 DEF Monitor, Submitted, PollFails, PollAnswered, PauseEnds, Interrupted, comfySide
  <2>2. CASE Free /\ UNCHANGED settles
    BY <2>2 DEF Free, FreeBegins, QueueRead, QueuePauseEnds, FreeAccepted, WaitEnds,
                StatsRead, StatsPauseEnds, FreeAbandoned
  <2>3. CASE Comfy
    BY <2>3 DEF Comfy, PromptLeaves, MemoryMoves, clientSide
  <2>4. QED
    BY <2>1, <2>2, <2>3 DEF PollNext
<1>2. QED
  BY <1>1

LEMMA PollTypeStep ==
  ASSUME PollInv, PollNext PROVE PollTypeOK'
<1>0. {settles', accepted', moved'} \subseteq BOOLEAN
  BY PollFlagsStep DEF PollInv, PollTypeOK
<1>1. \A b \in BOOLEAN : Append(polls, b) \in Seq(BOOLEAN)
  BY DEF PollInv, PollTypeOK
<1> SUFFICES /\ step' \in Monitoring \cup Freeing \cup {"idle"}
             /\ verdict' \in {"none", "outputs", "failed", "aborted", "expired", "freed", "unfreed"}
             /\ failures' \in 0 .. FailureLimit
             /\ previous' \in -1 .. MemoryBound
             /\ polls' \in Seq(BOOLEAN)
             /\ prompt' \in {"none", "active", "succeeded", "failed", "lost"}
             /\ memory' \in 0 .. MemoryBound
  BY <1>0 DEF PollTypeOK, Monitoring, Freeing
<1> USE PollAssumption DEF PollInv, PollTypeOK, Monitoring, Freeing
<1>2. CASE Monitor
  <2> USE <1>2 DEF BlindInv, comfySide, Returns
  <2>1. CASE Submitted
    BY <2>1 DEF Submitted
  <2>2. CASE PollFails
    BY <1>1, <2>2 DEF PollFails
  <2>3. CASE PollAnswered
    BY <1>1, <2>3 DEF PollAnswered, CountAfterAnswer
  <2>4. CASE PauseEnds
    BY <2>4 DEF PauseEnds
  <2>5. CASE Interrupted
    BY <2>5 DEF Interrupted
  <2>6. QED
    BY <1>2, <2>1, <2>2, <2>3, <2>4, <2>5 DEF Monitor
<1>3. CASE Free
  BY <1>3 DEF Free, FreeFrame, FreeBegins, QueueRead, QueuePauseEnds, FreeAccepted, WaitEnds,
              StatsRead, StatsPauseEnds, FreeAbandoned, Returns
<1>4. CASE Comfy
  BY <1>4 DEF Comfy, PromptLeaves, MemoryMoves, clientSide
<1>5. QED
  BY <1>2, <1>3, <1>4 DEF PollNext

\* Only the three polls of a wait and their pauses touch what BlindInv is about.
LEMMA BlindStep ==
  ASSUME PollInv, PollNext PROVE BlindInv'
<1> USE PollAssumption DEF PollInv, PollTypeOK, Monitoring, Freeing
<1>1. CASE UNCHANGED <<failures, polls>> /\ step' = step /\ verdict' = verdict
  BY <1>1 DEF BlindInv
<1>2. CASE Monitor
  <2> USE DEF BlindInv, Returns
  <2>1. CASE Submitted
    BY <2>1 DEF Submitted
  <2>2. CASE PollFails
    <3>1. /\ failures' = failures + 1 /\ failures < FailureLimit
          /\ Len(polls') = Len(polls) + 1
          /\ polls'[Len(polls) + 1] = FALSE
          /\ \A j \in 1 .. Len(polls) : polls'[j] = polls[j]
          /\ verdict' = verdict
      BY <2>2 DEF PollFails
    <3>2. \A k \in 1 .. Len(polls) :
            k >= FailureLimit => \E j \in k - FailureLimit + 1 .. k : polls'[j] = TRUE
      <4> TAKE k \in 1 .. Len(polls)
      <4> HAVE k >= FailureLimit
      <4>1. CASE k < Len(polls)
        <5>1. k \in 1 .. Len(polls) - 1
          BY <4>1
        <5>2. PICK j \in k - FailureLimit + 1 .. k : polls[j] = TRUE
          BY <5>1, Zenon
        <5>3. j \in 1 .. Len(polls)
          OBVIOUS
        <5>4. QED
          BY <3>1, <5>2, <5>3, Zenon
      <4>2. CASE k = Len(polls)
        <5>1. /\ polls[Len(polls) - failures] = TRUE
              /\ Len(polls) - failures \in k - FailureLimit + 1 .. k
              /\ Len(polls) - failures \in 1 .. Len(polls)
          BY <3>1, <4>2
        <5>2. polls'[Len(polls) - failures] = polls[Len(polls) - failures]
          BY <3>1, <5>1, Zenon
        <5>3. QED
          BY <5>1, <5>2, Zenon
      <4>3. k < Len(polls) \/ k = Len(polls)
        OBVIOUS
      <4>4. QED
        BY <4>1, <4>2, <4>3, Zenon
    <3>3. verdict \notin {"aborted", "expired"}
      BY <2>2 DEF PollFails, BlindInv
    <3>4. 1 .. Len(polls)' - 1 = 1 .. Len(polls)
      BY <3>1
    <3>5. \A k \in 1 .. Len(polls') - 1 :
            k >= FailureLimit => \E j \in k - FailureLimit + 1 .. k : polls'[j] = TRUE
      BY <3>2, <3>4, Zenon
    <3>6. \A j \in Len(polls') - failures' + 1 .. Len(polls') : polls'[j] = FALSE
      <4> TAKE j \in Len(polls') - failures' + 1 .. Len(polls')
      <4>1. j = Len(polls) + 1 \/ j \in Len(polls) - failures + 1 .. Len(polls)
        BY <3>1
      <4>2. j \in Len(polls) - failures + 1 .. Len(polls) => j \in 1 .. Len(polls)
        OBVIOUS
      <4>3. QED
        BY <3>1, <4>1, <4>2, Zenon
    <3>7. failures' < Len(polls') => polls'[Len(polls') - failures'] = TRUE
      <4> SUFFICES ASSUME failures' < Len(polls') PROVE polls'[Len(polls') - failures'] = TRUE
        OBVIOUS
      <4>1. /\ failures < Len(polls)
            /\ Len(polls') - failures' = Len(polls) - failures
            /\ Len(polls) - failures \in 1 .. Len(polls)
        BY <3>1
      <4>2. QED
        BY <3>1, <4>1, Zenon
    <3>8. failures' <= Len(polls')
      BY <3>1
    <3>9. /\ step' = (IF failures' >= FailureLimit THEN "interrupt" ELSE "pause")
          /\ verdict' = "none" /\ failures' <= FailureLimit
      BY <2>2, <3>1 DEF PollFails
    <3>10. /\ step' \in {"history", "pause", "interruptLate"} \/ verdict' = "expired"
                => failures' < FailureLimit
           /\ step' \in Monitoring => verdict' = "none"
           /\ step' = "interrupt" \/ verdict' = "aborted" => failures' = FailureLimit
      BY <3>1, <3>9
    <3>11. QED
      BY <3>5, <3>6, <3>7, <3>8, <3>10, Zenon
  <2>3. CASE PollAnswered
    <3>1. /\ failures' = 0
          /\ Len(polls') = Len(polls) + 1
          /\ polls'[Len(polls) + 1] = TRUE
          /\ \A j \in 1 .. Len(polls) : polls'[j] = polls[j]
      BY <2>3 DEF PollAnswered, CountAfterAnswer
    <3>2. \A k \in 1 .. Len(polls) :
            k >= FailureLimit => \E j \in k - FailureLimit + 1 .. k : polls'[j] = TRUE
      <4> TAKE k \in 1 .. Len(polls)
      <4> HAVE k >= FailureLimit
      <4>1. \E j \in k - FailureLimit + 1 .. k : polls[j] = TRUE
        <5>1. CASE k < Len(polls)
          <6>1. k \in 1 .. Len(polls) - 1
            BY <5>1
          <6>2. QED
            BY <6>1, Zenon
        <5>2. CASE k = Len(polls)
          <6>1. /\ polls[Len(polls) - failures] = TRUE
                /\ Len(polls) - failures \in k - FailureLimit + 1 .. k
            BY <2>3, <5>2 DEF PollAnswered
          <6>2. QED
            BY <6>1, Zenon
        <5>3. k < Len(polls) \/ k = Len(polls)
          OBVIOUS
        <5>4. QED
          BY <5>1, <5>2, <5>3, Zenon
      <4>2. PICK j \in k - FailureLimit + 1 .. k : polls[j] = TRUE
        BY <4>1
      <4>3. polls'[j] = polls[j]
        BY <3>1, <4>2
      <4>4. QED
        BY <4>2, <4>3
    <3>3. step \in Monitoring /\ verdict = "none" /\ step' \in {"idle", "pause"}
      BY <2>3 DEF PollAnswered
    <3>4. verdict' \notin {"aborted", "expired"}
      BY <2>3, <3>3 DEF PollAnswered
    <3>5. step' = "pause" => verdict' = "none"
      BY <2>3, <3>3 DEF PollAnswered
    <3>6. QED
      BY <3>1, <3>2, <3>3, <3>4, <3>5
  <2>4. CASE PauseEnds \/ Interrupted
    BY <2>4 DEF PauseEnds, Interrupted
  <2>5. QED
    BY <1>2, <2>1, <2>2, <2>3, <2>4 DEF Monitor
<1>3. CASE Free
  <2>1. /\ UNCHANGED <<failures, polls>>
        /\ step' \in Freeing \cup {"idle"}
        /\ verdict' \in {verdict, "none", "freed", "unfreed"}
    BY <1>3 DEF Free, FreeFrame, FreeBegins, QueueRead, QueuePauseEnds, FreeAccepted, WaitEnds,
                StatsRead, StatsPauseEnds, FreeAbandoned, Returns
  <2>2. QED
    BY <2>1 DEF BlindInv
<1>4. CASE Comfy
  BY <1>1, <1>4 DEF Comfy, clientSide
<1>5. QED
  BY <1>2, <1>3, <1>4 DEF PollNext

\* What the invariant says of the prompts that are given up.
LEMMA BlindMeansBlind == PollInv => AbortedOnlyBlind
<1> SUFFICES ASSUME PollInv PROVE AbortedOnlyBlind
  OBVIOUS
<1> USE PollAssumption DEF PollInv, PollTypeOK, BlindInv
<1> DEFINE Blind(k) == k >= FailureLimit /\ \A j \in k - FailureLimit + 1 .. k : ~polls[j]
<1>1. failures = FailureLimit => Blind(Len(polls))
  OBVIOUS
<1>2. \A k \in 1 .. Len(polls) - 1 : ~Blind(k)
  OBVIOUS
<1>3. failures < FailureLimit => ~Blind(Len(polls))
  <2> SUFFICES ASSUME failures < FailureLimit, Len(polls) >= FailureLimit
               PROVE  \E j \in Len(polls) - FailureLimit + 1 .. Len(polls) : polls[j]
    OBVIOUS
  <2>1. /\ polls[Len(polls) - failures] = TRUE
        /\ Len(polls) - failures \in Len(polls) - FailureLimit + 1 .. Len(polls)
    OBVIOUS
  <2>2. QED
    BY <2>1
<1>4. /\ step = "pause" => failures < FailureLimit
      /\ (step = "interrupt" \/ verdict = "aborted") => failures = FailureLimit
      /\ \A k \in 1 .. Len(polls) : k = Len(polls) \/ k \in 1 .. Len(polls) - 1
  OBVIOUS
<1>5. QED
  BY <1>1, <1>2, <1>3, <1>4, Zenon DEF AbortedOnlyBlind

LEMMA SettlingStep ==
  ASSUME PollInv, PollNext PROVE SettlingInv'
<1> USE PollAssumption DEF PollInv, PollTypeOK, SettlingInv, FreedMeansFree, Freeing, Monitoring
<1>1. CASE Monitor /\ UNCHANGED settles
  BY <1>1 DEF Monitor, Submitted, PollFails, PollAnswered, PauseEnds, Interrupted, comfySide, Returns
<1>2. CASE Free /\ UNCHANGED settles
  <2> USE <1>2 DEF FreeFrame, Returns
  <2>1. CASE FreeBegins
    BY <2>1 DEF FreeBegins, Free
  <2>2. CASE QueueRead
    BY <2>2 DEF QueueRead, Busy, Free
  <2>3. CASE QueuePauseEnds \/ FreeAccepted
    BY <2>3 DEF QueuePauseEnds, FreeAccepted, Free
  <2>4. CASE WaitEnds \/ FreeAbandoned
    BY <2>4 DEF WaitEnds, FreeAbandoned, Free
  <2>5. CASE StatsRead
    <3>1. moved' => memory = 0
      BY <2>5, Zenon DEF StatsRead
    <3>2. /\ UNCHANGED <<memory, prompt, accepted>> /\ accepted /\ prompt # "active"
          /\ previous' = memory
      BY <2>5 DEF StatsRead, Free
    <3>3. \/ memory = previous /\ step' = "idle"
          \/ step' = "statsPause" /\ verdict' = verdict
      BY <2>5 DEF StatsRead, Steady
    <3>4. memory = previous => memory = 0
      BY <2>5 DEF StatsRead
    <3>5. QED
      BY <1>2, <3>1, <3>2, <3>3, <3>4
  <2>6. CASE StatsPauseEnds
    BY <2>6 DEF StatsPauseEnds, Free
  <2>7. QED
    BY <1>2, <2>1, <2>2, <2>3, <2>4, <2>5, <2>6 DEF Free
<1>3. CASE Comfy
  BY <1>3 DEF Comfy, PromptLeaves, MemoryMoves, clientSide
<1>4. QED
  BY <1>1, <1>2, <1>3 DEF PollNext

LEMMA PollingInvariant == PollSpec => []PollInv
<1>1. PollInv /\ [PollNext]_pollVars => PollInv'
  <2>1. CASE UNCHANGED pollVars
    BY <2>1 DEF pollVars, PollInv, PollTypeOK, BlindInv, SettlingInv, FreedMeansFree
  <2>2. QED
    BY <2>1, PollTypeStep, BlindStep, SettlingStep DEF PollInv
<1>2. QED
  BY <1>1, PollInitInv, PTL DEF PollSpec

\* A prompt is given up for failed polls after exactly FailureLimit of them in a
\* row, whatever the limit and however many polls there were before.
THEOREM GivenUpBlind == PollSpec => []AbortedOnlyBlind
BY PollingInvariant, BlindMeansBlind, PTL

\* A cleanup that waits for idleness and succeeds leaves no prompt executing and
\* no memory in use, however much memory ComfyUI held.
THEOREM FreedIsFree == PollSpec => []FreedMeansFree
<1>1. PollInv => FreedMeansFree
  BY DEF PollInv, SettlingInv
<1>2. QED
  BY <1>1, PollingInvariant, PTL

-----------------------------------------------------------------------------
(* The relay of a WebSocket.                                               *)

\* The tasks exist only while the handler relays or gathers them, and until it
\* is past that it has closed neither end.
SessionInv ==
  /\ handler \notin {"relay", "cancel"} => Carrying = {}
  /\ handler \in {"connect", "prepare", "relay", "cancel", "close"} => socket["client"] \in {"open", "gone"}
  /\ handler \in {"connect", "prepare", "relay", "cancel", "close", "exit"} => socket["upstream"] # "closed"

RelayInv == RelayTypeOK /\ SessionInv

LEMMA RelayInitInv == RelayInit => RelayInv
<1> SUFFICES ASSUME RelayInit PROVE RelayInv
  OBVIOUS
<1>1. /\ carrier \in [Directions -> {"none"}] /\ Carrying = {}
      /\ socket \in [Ends -> {"none", "open"}] /\ socket["client"] = "open"
      /\ inbox \in [Ends -> {0}]
  BY DEF RelayInit, Carrying, Ends, Directions
<1>2. RelayTypeOK
  <2>1. stopped \in BOOLEAN
    BY Zenon DEF RelayInit
  <2>2. handler = "done" /\ cancelled = {}
    BY DEF RelayInit
  <2>3. QED
    BY <1>1, <2>1, <2>2, InboxAssumption DEF RelayTypeOK
<1>3. SessionInv
  BY <1>1 DEF RelayInit, SessionInv
<1>4. QED
  BY <1>2, <1>3 DEF RelayInv

LEMMA RelayStep ==
  ASSUME RelayInv, RelayNext PROVE RelayInv'
<1> USE InboxAssumption DEF RelayInv, RelayTypeOK, SessionInv, Carrying, Directions, Ends
<1>1. CASE Upgrades
  <2>1. /\ carrier' \in [Directions -> {"none"}] /\ Carrying' = {}
        /\ socket' \in [Ends -> {"none", "open"}]
        /\ socket'["client"] = "open" /\ socket'["upstream"] = "none"
        /\ inbox' \in [Ends -> {0}]
    BY <1>1 DEF Upgrades
  <2>2. RelayTypeOK'
    <3>1. stopped' \in BOOLEAN
      BY <1>1, Zenon DEF Upgrades
    <3>2. handler' = "connect" /\ cancelled' = {}
      BY <1>1 DEF Upgrades
    <3>3. QED
      BY <2>1, <3>1, <3>2
  <2>3. SessionInv'
    BY <1>1, <2>1 DEF Upgrades
  <2>4. QED
    BY <2>2, <2>3
<1>2. ASSUME NEW s \in Ends, Speaks(s) \/ Leaves(s) PROVE RelayInv'
  <2>1. CASE Speaks(s)
    BY <2>1 DEF Speaks
  <2>2. CASE Leaves(s)
    <3>1. /\ socket' \in [Ends -> {"none", "open", "gone", "closed", "dropped"}]
          /\ UNCHANGED <<handler, carrier, cancelled, inbox, stopped>>
          /\ \A e \in Ends : socket'[e] = socket[e] \/ (socket[e] = "open" /\ socket'[e] = "gone")
      BY <2>2 DEF Leaves
    <3>2. QED
      BY <3>1
  <2>3. QED
    BY <1>2, <2>1, <2>2
<1>3. ASSUME NEW d \in Directions, Carries(d) PROVE RelayInv'
  <2> USE <1>3 DEF Carries, From
  <2>1. CASE Takes(d)
    BY <2>1 DEF Takes
  <2>2. CASE SeesEnd(d) \/ Sends(d) \/ Stops(d)
    BY <2>2 DEF SeesEnd, Sends, Stops
  <2>3. QED
    BY <1>3, <2>1, <2>2
<1>4. CASE Proceed
  BY <1>4 DEF Proceed, Connects, Prepares, WaitReturns, GatherReturns, Gathered, Closes, Exits
<1>5. CASE Cancelled /\ UNCHANGED inbox
  BY <1>5 DEF Cancelled
<1>6. QED
  BY <1>1, <1>2, <1>3, <1>4, <1>5 DEF RelayNext

LEMMA RelayInvariant == RelaySpec => []RelayInv
<1>1. RelayInv /\ [RelayNext]_sessionVars => RelayInv'
  <2>1. CASE UNCHANGED sessionVars
    BY <2>1 DEF sessionVars, RelayInv, RelayTypeOK, SessionInv, Carrying
  <2>2. QED
    BY <2>1, RelayStep
<1>2. QED
  BY <1>1, RelayInitInv, PTL DEF RelaySpec

\* No end of a session is closed while one of its tasks may still use it.
THEOREM TasksFirst == RelaySpec => []SocketsOutliveTasks
<1>1. RelayInv => SocketsOutliveTasks
  BY DEF RelayInv, RelayTypeOK, SessionInv, SocketsOutliveTasks, Ends
<1>2. QED
  BY <1>1, RelayInvariant, PTL

-----------------------------------------------------------------------------
(* The routes of ComfyUI.                                                  *)

LEMMA PathIn ==
  ASSUME NEW p \in Paths, NEW apis, NEW names
  PROVE  p \in Path(apis, names) <=> p.api \in apis /\ p.name \in names /\ p.tail = ""
BY DEF Paths, Path

LEMMA PostIn ==
  ASSUME NEW route \in Routes, NEW paths
  PROVE  route \in Post(paths) <=> route.method = "POST" /\ route.path \in paths
BY DEF Routes, Post

LEMMA RouteShape ==
  ASSUME NEW route \in Routes
  PROVE  /\ route.method \in Reading \cup MUTATING_METHODS \cup {"TRACE"}
         /\ route.path \in Paths
         /\ route.path.api \in BOOLEAN /\ route.path.name \in Names /\ route.path.tail \in Tails
BY DEF Routes, Paths

\* Membership of a table, as conditions on the route.
LEMMA Tables ==
  ASSUME NEW route \in Routes
  PROVE  /\ route \in WORKFLOW_ROUTES
              <=> route.method = "POST" /\ route.path.name = "prompt" /\ route.path.tail = ""
         /\ route \in CONTROL_ROUTES
              <=> /\ route.method = "POST" /\ route.path.tail = ""
                  /\ \/ route.path.name \in {"interrupt", "queue"}
                     \/ route.path.name = "save_release" /\ route.path.api
                     \/ route.path.name = "unload" /\ ~route.path.api
         /\ route \in LIFECYCLE_ROUTES
              <=> route.method = "POST" /\ route.path.name = "free" /\ route.path.tail = ""
         /\ route \in BLOCKED_GPU_ROUTES
              <=> /\ route.method = "POST" /\ route.path.name = "optimize" /\ route.path.tail = ""
                  /\ ~route.path.api
<1>1. route.path \in Paths /\ route.path.api \in BOOLEAN
  BY RouteShape
<1>2. route \in WORKFLOW_ROUTES <=>
        route.method = "POST" /\ route.path.name = "prompt" /\ route.path.tail = ""
  <2>1. route \in Post(Path(BOOLEAN, {"prompt"})) <=> route.method = "POST" /\ route.path \in Path(BOOLEAN, {"prompt"})
    BY PostIn
  <2>2. route.path \in Path(BOOLEAN, {"prompt"})
          <=> route.path.api \in BOOLEAN /\ route.path.name \in {"prompt"} /\ route.path.tail = ""
    BY <1>1, PathIn
  <2>3. QED
    BY <1>1, <2>1, <2>2 DEF WORKFLOW_ROUTES
<1>3. route \in LIFECYCLE_ROUTES <=>
        route.method = "POST" /\ route.path.name = "free" /\ route.path.tail = ""
  <2>1. route \in Post(Path(BOOLEAN, {"free"})) <=> route.method = "POST" /\ route.path \in Path(BOOLEAN, {"free"})
    BY PostIn
  <2>2. route.path \in Path(BOOLEAN, {"free"})
          <=> route.path.api \in BOOLEAN /\ route.path.name \in {"free"} /\ route.path.tail = ""
    BY <1>1, PathIn
  <2>3. QED
    BY <1>1, <2>1, <2>2 DEF LIFECYCLE_ROUTES
<1>4. route \in BLOCKED_GPU_ROUTES <=>
        /\ route.method = "POST" /\ route.path.name = "optimize" /\ route.path.tail = ""
        /\ ~route.path.api
  <2>1. route \in Post(Path({FALSE}, {"optimize"})) <=> route.method = "POST" /\ route.path \in Path({FALSE}, {"optimize"})
    BY PostIn
  <2>2. route.path \in Path({FALSE}, {"optimize"})
          <=> route.path.api \in {FALSE} /\ route.path.name \in {"optimize"} /\ route.path.tail = ""
    BY <1>1, PathIn
  <2>3. QED
    BY <1>1, <2>1, <2>2 DEF BLOCKED_GPU_ROUTES
<1>5. route \in CONTROL_ROUTES
              <=> /\ route.method = "POST" /\ route.path.tail = ""
                  /\ \/ route.path.name \in {"interrupt", "queue"}
                     \/ route.path.name = "save_release" /\ route.path.api
                     \/ route.path.name = "unload" /\ ~route.path.api
  <2> DEFINE controls == Path(BOOLEAN, {"interrupt", "queue"}) \cup Path({TRUE}, {"save_release"})
                           \cup Path({FALSE}, {"unload"})
  <2>1. route \in Post(controls) <=> route.method = "POST" /\ route.path \in controls
    BY PostIn
  <2>2. route.path \in Path(BOOLEAN, {"interrupt", "queue"})
          <=> route.path.api \in BOOLEAN /\ route.path.name \in {"interrupt", "queue"} /\ route.path.tail = ""
    BY <1>1, PathIn
  <2>3. route.path \in Path({TRUE}, {"save_release"})
          <=> route.path.api \in {TRUE} /\ route.path.name \in {"save_release"} /\ route.path.tail = ""
    BY <1>1, PathIn
  <2>4. route.path \in Path({FALSE}, {"unload"})
          <=> route.path.api \in {FALSE} /\ route.path.name \in {"unload"} /\ route.path.tail = ""
    BY <1>1, PathIn
  <2>5. QED
    BY <1>1, <2>1, <2>2, <2>3, <2>4 DEF CONTROL_ROUTES
<1>6. QED
  BY <1>2, <1>3, <1>4, <1>5

\* What the request ComfyUI gets has to do with the one the client has sent.
LEMMA ForwardedShape ==
  ASSUME NEW route \in Routes
  PROVE  /\ Forwarded(route) \in Routes
         /\ Forwarded(route).method = route.method
         /\ Forwarded(route).path.name = route.path.name
         /\ Forwarded(route).path.tail = route.path.tail
         /\ \/ Forwarded(route).path.api = route.path.api
            \/ /\ route.path.tail = "" /\ ~Forwarded(route).path.api
               /\ route.path.name \in {"free", "interrupt", "prompt", "queue", "users"}
            \/ route.path.name \in {"settings", "userdata"}
         /\ route.path.tail = "" /\ route.path.name \in {"free", "interrupt", "prompt", "queue"}
              => ~Forwarded(route).path.api
<1>0. ASSUME NEW p \in Paths, NEW b \in BOOLEAN
      PROVE  /\ [p EXCEPT !.api = b] \in Paths /\ [p EXCEPT !.api = b].api = b
             /\ [p EXCEPT !.api = b].name = p.name /\ [p EXCEPT !.api = b].tail = p.tail
  BY <1>0 DEF Paths
<1>1. /\ Upstream(route.path) \in Paths
      /\ Upstream(route.path).name = route.path.name
      /\ Upstream(route.path).tail = route.path.tail
      /\ \/ Upstream(route.path).api = route.path.api
         \/ /\ route.path.tail = "" /\ ~Upstream(route.path).api
            /\ route.path.name \in {"free", "interrupt", "prompt", "queue", "users"}
         \/ route.path.name \in {"settings", "userdata"}
      /\ route.path.tail = "" /\ route.path.name \in {"free", "interrupt", "prompt", "queue"}
           => ~Upstream(route.path).api
  BY <1>0, RouteShape DEF Upstream
<1>2. QED
  <2>1. ASSUME NEW p \in Paths
        PROVE  /\ [route EXCEPT !.path = p] \in Routes
               /\ [route EXCEPT !.path = p].path = p
               /\ [route EXCEPT !.path = p].method = route.method
    BY <2>1 DEF Routes
  <2>2. Forwarded(route) = [route EXCEPT !.path = Upstream(route.path)]
    BY DEF Forwarded, Routes
  <2>3. QED
    BY <1>1, <2>1, <2>2, Zenon

\* The properties of EffectsCoordinated, for one route under one policy.
Coordinated(route, isStrict, older) ==
  LET effect == Effect(Forwarded(route), older)
      known == route.path.name \in OwnRoutes \/ FrontendSpelling(route.path)
      treated == Treatment(route, isStrict)
  IN /\ effect = "executes" <=> treated = "fifo"
     /\ treated = "lease" => effect \in {"cancels", "releases"}
     /\ isStrict /\ effect # "none" => treated # "forwarded"
     /\ known /\ effect \in {"cancels", "releases"} => treated = "lease"
     /\ known /\ effect \in {"frees", "executes unseen"} => treated = "refused"

\* Whatever the spelling, an effect upstream has its treatment at the gateway.
LEMMA TreatmentFits ==
  ASSUME NEW route \in Routes, NEW isStrict \in BOOLEAN, NEW older \in BOOLEAN
  PROVE  Coordinated(route, isStrict, older)
<1> DEFINE up == Forwarded(route)
           p == route.path
           effect == Effect(up, older)
           treated == Treatment(route, isStrict)
<1>1. /\ up.method = route.method /\ up.path.name = p.name /\ up.path.tail = p.tail
      /\ \/ up.path.api = p.api
         \/ /\ p.tail = "" /\ ~up.path.api
            /\ p.name \in {"free", "interrupt", "prompt", "queue", "users"}
         \/ p.name \in {"settings", "userdata"}
      /\ p.tail = "" /\ p.name \in {"free", "interrupt", "prompt", "queue"} => ~up.path.api
  BY ForwardedShape
<1> HIDE DEF up
<1>2. CASE route.method # "POST"
  <2>1. effect = "none"
    BY <1>1, <1>2 DEF Effect
  <2>2. treated \in {"forwarded", "refused"}
    BY <1>2, Tables DEF Treatment, Kind
  <2>3. QED
    BY <2>1, <2>2 DEF Coordinated, up
<1>3. CASE route.method = "POST"
  <2>0. route.method \notin Reading /\ up.method = "POST"
    BY <1>1, <1>3 DEF Reading
  <2>1. CASE p.name = "prompt" /\ p.tail = ""
    <3>1. effect = "executes"
      BY <1>1, <2>0, <2>1 DEF Effect, Serves, OwnRoutes
    <3>2. treated = "fifo"
      BY <1>3, <2>0, <2>1, Tables DEF Treatment, Kind
    <3>3. QED
      BY <3>1, <3>2 DEF Coordinated, up
  <2>2. CASE p.name \in {"interrupt", "queue"} /\ p.tail = ""
    <3>1. effect = "cancels"
      BY <1>1, <2>0, <2>2 DEF Effect, Serves, OwnRoutes
    <3>2. treated = "lease"
      BY <1>3, <2>0, <2>2, Tables DEF Treatment, Kind
    <3>3. QED
      BY <3>1, <3>2 DEF Coordinated, up
  <2>3. CASE p.name = "jobs"
    <3>1. effect = IF p.api /\ p.tail \in {"cancel", "itemCancel"} THEN "cancels" ELSE "none"
      BY <1>1, <2>0, <2>3 DEF Effect, Serves, OwnRoutes
    <3>2. treated = IF p.api /\ p.tail \in {"cancel", "itemCancel"} THEN "lease"
                    ELSE IF isStrict THEN "refused" ELSE "forwarded"
      BY <1>3, <2>0, <2>3, Tables DEF Treatment, Kind, IsJobCancel, SafeCore, SafeCustom
    <3>3. QED
      BY <3>1, <3>2 DEF Coordinated, up
  <2>4. CASE p.name = "free" /\ p.tail = ""
    <3>1. effect = "frees"
      BY <1>1, <2>0, <2>4 DEF Effect, Serves, OwnRoutes
    <3>2. treated = "refused"
      BY <1>3, <2>0, <2>4, Tables DEF Treatment, Kind, IsJobCancel
    <3>3. QED
      BY <3>1, <3>2 DEF Coordinated, up
  <2>5. CASE p.name \in {"save_release", "unload"} /\ p.tail = ""
    <3>1. effect \in {"releases", "none"} /\ (FrontendSpelling(p) => effect = "releases")
      BY <1>1, <2>0, <2>5 DEF Effect, Serves, OwnRoutes, FrontendSpelling
    <3>2. treated = IF FrontendSpelling(p) THEN "lease"
                    ELSE IF isStrict THEN "refused" ELSE "forwarded"
      BY <1>3, <2>0, <2>5, Tables, RouteShape
         DEF Treatment, Kind, IsJobCancel, SafeCore, SafeCustom, FrontendSpelling
    <3>3. p.name \notin OwnRoutes
      BY <2>5 DEF OwnRoutes
    <3>4. QED
      BY <3>1, <3>2, <3>3 DEF Coordinated, up
  <2>6. CASE p.name = "optimize" /\ p.tail = ""
    <3>1. effect \in {"executes unseen", "none"}
      BY <1>1, <2>0, <2>6 DEF Effect
    <3>2. treated = IF FrontendSpelling(p) THEN "refused"
                    ELSE IF isStrict THEN "refused" ELSE "forwarded"
      BY <1>3, <2>0, <2>6, Tables, RouteShape
         DEF Treatment, Kind, IsJobCancel, SafeCore, SafeCustom, FrontendSpelling
    <3>3. p.name \notin OwnRoutes
      BY <2>6 DEF OwnRoutes
    <3>4. QED
      BY <3>1, <3>2, <3>3 DEF Coordinated, up
  <2>7. CASE /\ p.name # "jobs"
             /\ \/ p.tail # ""
                \/ p.name \notin {"prompt", "interrupt", "queue", "free", "save_release", "unload",
                                  "optimize"}
    <3>1. effect = "none"
      BY <1>1, <2>0, <2>7 DEF Effect
    <3>2. treated \in {"forwarded", "refused"}
      BY <1>3, <2>0, <2>7, Tables DEF Treatment, Kind, IsJobCancel
    <3>3. QED
      BY <3>1, <3>2 DEF Coordinated, up
  <2>8. QED
    BY <2>1, <2>2, <2>3, <2>4, <2>5, <2>6, <2>7
<1>4. QED
  BY <1>2, <1>3

\* The treatment is that of the route that was asked for.
TreatmentInv ==
  /\ strict \in BOOLEAN
  /\ treatment # "none" => asked \in Routes /\ treatment = Treatment(asked, strict)

LEMMA RoutesInvariant == RoutesSpec => []TreatmentInv
<1>1. RoutesInit => TreatmentInv
  BY DEF RoutesInit, TreatmentInv
<1>2. TreatmentInv /\ [RoutesNext]_routeVars => TreatmentInv'
  BY DEF TreatmentInv, RoutesNext, AskComfy, AnswerComfy, routeVars
<1>3. QED
  BY <1>1, <1>2, PTL DEF RoutesSpec

\* What executes gets the GPU through the FIFO and nothing else does, under every
\* spelling and both policies; what cancels, releases, frees or executes unseen is
\* leased or refused, except a custom node's route in the other spelling than
\* its frontend's, which the strict policy refuses and the transparent one passes.
THEOREM EffectsTreated == RoutesSpec => []EffectsCoordinated
<1>1. TreatmentInv => EffectsCoordinated
  BY TreatmentFits DEF TreatmentInv, EffectsCoordinated, Coordinated
<1>2. QED
  BY <1>1, RoutesInvariant, PTL

-----------------------------------------------------------------------------
(* The requests of chats.                                                  *)

Native == "reasoning_budget_tokens"
Alias == "thinking_budget_tokens"

IsRequest(r) ==
  r = [fields |-> r.fields, controls |-> r.controls, objects |-> r.objects, alien |-> r.alien]

\* What the requests of a caller look like.
RequestOK(r) ==
  /\ IsRequest(r)
  /\ DOMAIN r.fields \subseteq Fields
  /\ \A f \in DOMAIN r.fields : r.fields[f] = f \/ (f = Native /\ r.fields[f] = "null")
  /\ DOMAIN r.controls \subseteq Controls
  /\ \A c \in DOMAIN r.controls : r.controls[c] \in Stances /\ c.at \in r.objects \cup {"top"}

LEMMA RequestShape ==
  ASSUME NEW r \in Requests PROVE RequestOK(r)
<1>1. ASSUME NEW f \in FieldChoices
      PROVE  /\ DOMAIN f \subseteq Fields
             /\ \A x \in DOMAIN f : f[x] = x \/ (x = Native /\ f[x] = "null")
  <2>1. CASE \E F \in SUBSET Fields : f = Named(F)
    BY <2>1 DEF Named
  <2>2. CASE \E F \in SUBSET {Alias, "max_tokens"} : f = (Native :> "null") @@ Named(F)
    BY <2>2 DEF Named, :>, @@, Native, Alias, Fields, Budgets
  <2>3. QED
    BY <2>1, <2>2 DEF FieldChoices, Native, Alias
<1>2. ASSUME NEW T, NEW k, NEW c \in Partial(Controls, T, k)
      PROVE  DOMAIN c \subseteq Controls /\ \A x \in DOMAIN c : c[x] \in T
  BY DEF Partial
<1>3. ASSUME NEW f \in {Named({})}
      PROVE  DOMAIN f = {}
  BY DEF Named
<1>4. \E f, c, o, a :
        /\ r = [fields |-> f, controls |-> c, objects |-> o, alien |-> a]
        /\ f \in {Named({})} \cup FieldChoices
        /\ \E T \in {Stances, {"on", "off"}}, k \in {ControlBound, 1} : c \in Partial(Controls, T, k)
        /\ \A x \in DOMAIN c : x.at \in o \cup {"top"}
  <2>1. \/ \E f \in {Named({})}, c \in Partial(Controls, Stances, ControlBound),
              o \in SUBSET Objects, a \in BOOLEAN :
             r = [fields |-> f, controls |-> c, objects |-> o, alien |-> a]
        \/ \E f \in FieldChoices, c \in Partial(Controls, {"on", "off"}, 1),
              o \in SUBSET Objects, a \in {FALSE} :
             r = [fields |-> f, controls |-> c, objects |-> o, alien |-> a]
    BY DEF Requests
  <2>2. \A x \in DOMAIN r.controls : x.at \in r.objects \cup {"top"}
    BY DEF Requests
  <2>3. PICK f, c, o, a :
          /\ r = [fields |-> f, controls |-> c, objects |-> o, alien |-> a]
          /\ f \in {Named({})} \cup FieldChoices
          /\ \E T \in {Stances, {"on", "off"}}, k \in {ControlBound, 1} : c \in Partial(Controls, T, k)
    BY <2>1, Zenon
  <2>4. r.controls = c /\ r.objects = o
    BY <2>3
  <2>5. QED
    BY <2>2, <2>3, <2>4, Zenon
<1>5. PICK f, c, o, a :
        /\ r = [fields |-> f, controls |-> c, objects |-> o, alien |-> a]
        /\ f \in {Named({})} \cup FieldChoices
        /\ \E T \in {Stances, {"on", "off"}}, k \in {ControlBound, 1} : c \in Partial(Controls, T, k)
        /\ \A x \in DOMAIN c : x.at \in o \cup {"top"}
  BY <1>4
<1>6. /\ DOMAIN f \subseteq Fields
      /\ \A x \in DOMAIN f : f[x] = x \/ (x = Native /\ f[x] = "null")
  BY <1>1, <1>3, <1>5
<1>7. DOMAIN c \subseteq Controls /\ \A x \in DOMAIN c : c[x] \in Stances
  BY <1>2, <1>5 DEF Stances
<1>8. r.fields = f /\ r.controls = c /\ r.objects = o /\ r.alien = a
  BY <1>5
<1>9. QED
  BY <1>5, <1>6, <1>7, <1>8 DEF RequestOK, IsRequest

-----------------------------------------------------------------------------
(* ModelProfiles.apply()                                                   *)

\* Where the caller has used a spelling, the engine reads one of the caller's.
LEMMA TranslationShape ==
  ASSUME NEW r, RequestOK(r), NEW e \in Engines
  PROVE  LET t == Translation(r, e) IN
         /\ DOMAIN t \subseteq {Wire(e)} \ DOMAIN r.fields
         /\ \A f \in DOMAIN t : t[f] \in Spellings
         /\ Spellings \cap DOMAIN r.fields # {} => Wire(e) \in DOMAIN t \cup DOMAIN r.fields
<1> DEFINE given == {n \in DOMAIN Aliases(e) : Aliases(e)[n] \in DOMAIN r.fields}
           first == CHOOSE n \in given : \A m \in given : n <= m
<1>1. /\ DOMAIN Aliases(e) \subseteq 1 .. 3
      /\ \A n \in DOMAIN Aliases(e) : Aliases(e)[n] \in Spellings
      /\ Spellings \subseteq {Wire(e)} \cup {Aliases(e)[n] : n \in DOMAIN Aliases(e)}
  BY DEF Aliases, Spellings, Wire, Engines
<1>2. given # {} => \E n \in given : \A m \in given : n <= m
  BY <1>1
<1>3. given # {} => first \in given
  BY <1>2
<1>4. given # {} => r.fields[Aliases(e)[first]] \in Spellings
  BY <1>1, <1>3 DEF RequestOK, Spellings, Native
<1>5. Spellings \cap DOMAIN r.fields # {} => Wire(e) \in DOMAIN r.fields \/ given # {}
  BY <1>1
<1>6. QED
  <2>1. CASE Wire(e) \in DOMAIN r.fields \/ given = {}
    BY <1>5, <2>1 DEF Translation, Named
  <2>2. CASE ~(Wire(e) \in DOMAIN r.fields \/ given = {})
    <3>1. Translation(r, e) = Wire(e) :> r.fields[Aliases(e)[first]]
      BY <2>2 DEF Translation
    <3>2. QED
      BY <1>4, <2>2, <3>1 DEF :>
  <2>3. QED
    BY <2>1, <2>2

LEMMA FieldsWritten ==
  ASSUME NEW r, IsRequest(r), NEW f
  PROVE  /\ IsRequest([r EXCEPT !.fields = f])
         /\ [r EXCEPT !.fields = f].fields = f
         /\ [r EXCEPT !.fields = f].controls = r.controls
         /\ [r EXCEPT !.fields = f].objects = r.objects
         /\ [r EXCEPT !.fields = f].alien = r.alien
BY DEF IsRequest

LEMMA ControlsWritten ==
  ASSUME NEW r, IsRequest(r), NEW c
  PROVE  /\ IsRequest([r EXCEPT !.controls = c])
         /\ [r EXCEPT !.controls = c].controls = c
         /\ [r EXCEPT !.controls = c].fields = r.fields
         /\ [r EXCEPT !.controls = c].objects = r.objects
         /\ [r EXCEPT !.controls = c].alien = r.alien
BY DEF IsRequest

\* The defaults of a model's profile add fields and take none.
LEMMA ApplyShape ==
  ASSUME NEW r, RequestOK(r), NEW e \in Engines
  PROVE  LET a == Apply(r, e) IN
         /\ IsRequest(a)
         /\ a.controls = r.controls /\ a.objects = r.objects /\ a.alien = r.alien
         /\ \A f \in DOMAIN r.fields : f \in DOMAIN a.fields /\ a.fields[f] = r.fields[f]
         /\ a.fields["temperature"] \in {"temperature", Mode(r, e)}
         /\ Spellings \cap DOMAIN r.fields # {}
              => Wire(e) \in DOMAIN a.fields /\ a.fields[Wire(e)] \in Spellings
         /\ \A f \in Budgets \cap DOMAIN a.fields : f \in DOMAIN r.fields \/ ~HasThinkingControl(r)
<1> DEFINE t == Translation(r, e)
           d == Defaults(r, e)
           a == Apply(r, e)
           tf == t @@ r.fields
<1>1. /\ IsRequest(a) /\ a.fields = tf @@ d
      /\ a.controls = r.controls /\ a.objects = r.objects /\ a.alien = r.alien
  <2>1. IsRequest(r) /\ a = [r EXCEPT !.fields = tf @@ d]
    BY DEF RequestOK, IsRequest, Apply
  <2>2. QED
    BY <2>1, FieldsWritten
<1>2. /\ DOMAIN t \subseteq {Wire(e)} \ DOMAIN r.fields
      /\ \A f \in DOMAIN t : t[f] \in Spellings
      /\ Spellings \cap DOMAIN r.fields # {} => Wire(e) \in DOMAIN t \cup DOMAIN r.fields
  BY TranslationShape
<1>3. /\ DOMAIN d \subseteq {"temperature", Wire(e), Native}
      /\ "temperature" \notin DOMAIN r.fields => "temperature" \in DOMAIN d /\ d["temperature"] = Mode(r, e)
      /\ Native \in DOMAIN d => ~HasThinkingControl(r)
  BY DEF Defaults, Named, :>, @@, Wire, Native, Engines
<1> HIDE DEF t, d, a
<1>4. /\ DOMAIN tf = DOMAIN t \cup DOMAIN r.fields
      /\ \A f \in DOMAIN r.fields : tf[f] = r.fields[f]
      /\ \A f \in DOMAIN t : tf[f] = t[f]
  BY <1>2 DEF @@
<1> HIDE DEF tf
<1>5. /\ DOMAIN a.fields = DOMAIN tf \cup DOMAIN d
      /\ \A f \in DOMAIN tf : a.fields[f] = tf[f]
      /\ \A f \in DOMAIN d \ DOMAIN tf : a.fields[f] = d[f]
  BY <1>1 DEF @@
<1>6. \A f \in DOMAIN r.fields : f \in DOMAIN a.fields /\ a.fields[f] = r.fields[f]
  BY <1>4, <1>5
<1>7. Wire(e) \in Spellings /\ "temperature" \notin Spellings /\ Native \notin Spellings
      /\ Budgets \cap Spellings = {} /\ "temperature" \notin Budgets
  BY DEF Wire, Spellings, Native, Budgets
<1>8. a.fields["temperature"] \in {"temperature", Mode(r, e)}
  <2>1. CASE "temperature" \in DOMAIN r.fields
    BY <1>6, <2>1 DEF RequestOK, Native
  <2>2. CASE "temperature" \notin DOMAIN r.fields
    BY <1>2, <1>3, <1>4, <1>5, <1>7, <2>2
  <2>3. QED
    BY <2>1, <2>2
<1>9. Spellings \cap DOMAIN r.fields # {} => Wire(e) \in DOMAIN a.fields /\ a.fields[Wire(e)] \in Spellings
  BY <1>2, <1>4, <1>5, <1>7 DEF RequestOK, Native, Spellings
<1>10. \A f \in Budgets \cap DOMAIN a.fields : f \in DOMAIN r.fields \/ ~HasThinkingControl(r)
  BY <1>2, <1>3, <1>4, <1>5, <1>7
<1>11. QED
  BY <1>1, <1>6, <1>8, <1>9, <1>10 DEF a

-----------------------------------------------------------------------------
(* adapt_chat_request()                                                    *)

\* What the template reads of a toggle or an effort.
LEMMA ResolvedIs ==
  ASSUME NEW r, NEW kind, \A c \in DOMAIN r.controls : r.controls[c] \in Stances
  PROVE  Resolved(r, kind) =
           IF Said(r, Template(r), kind) # "absent" THEN Said(r, Template(r), kind)
           ELSE IF Said(r, "top", kind) \notin {"absent", "null"} THEN Said(r, "top", kind)
           ELSE Said(r, "reasoning", kind)
<1>1. \A at : Said(r, at, kind) \in Stances \cup {"absent"}
  BY DEF Said
<1>2. QED
  BY <1>1 DEF Resolved

LEMMA BudgetShape ==
  ASSUME NEW r, IsRequest(r), NEW enabled
  PROVE  LET t == TranslateBudget(r, enabled) IN
         /\ IsRequest(t)
         /\ t.controls = r.controls /\ t.objects = r.objects
         /\ \A f \in DOMAIN r.fields \ {Native, Alias} :
              f \in DOMAIN t.fields /\ t.fields[f] = r.fields[f]
         /\ DOMAIN t.fields \subseteq DOMAIN r.fields \cup {Native}
         /\ Native \in DOMAIN t.fields =>
              \/ Native \in DOMAIN r.fields /\ t.fields[Native] = r.fields[Native]
              \/ Alias \in DOMAIN r.fields /\ t.fields[Native] = r.fields[Alias]
              \/ Budgets \cap DOMAIN r.fields = {} /\ t.fields[Native] = "derived"
<1> DEFINE t == TranslateBudget(r, enabled)
           renamed == (Native :> r.fields[Alias]) @@ Without(r.fields, Alias)
           derived == (Native :> "derived") @@ r.fields
<1>1. /\ DOMAIN renamed = (DOMAIN r.fields \ {Alias}) \cup {Native}
      /\ renamed[Native] = r.fields[Alias]
      /\ \A f \in DOMAIN r.fields \ {Native, Alias} : renamed[f] = r.fields[f]
  BY DEF :>, @@, Without, Native, Alias
<1>2. /\ DOMAIN derived = DOMAIN r.fields \cup {Native}
      /\ Native \notin DOMAIN r.fields => derived[Native] = "derived"
      /\ \A f \in DOMAIN r.fields \ {Native} : derived[f] = r.fields[f]
  BY DEF :>, @@
<1> HIDE DEF renamed, derived
<1>3. \/ t = r
      \/ t = [r EXCEPT !.fields = renamed] /\ Alias \in DOMAIN r.fields
      \/ t = [r EXCEPT !.fields = derived] /\ Budgets \cap DOMAIN r.fields = {}
  BY DEF TranslateBudget, FallsBack, Native, Alias, Budgets, renamed, derived, IsRequest
<1> HIDE DEF t
<1>4. CASE t = r
  BY <1>4 DEF t
<1>5. CASE t = [r EXCEPT !.fields = renamed] /\ Alias \in DOMAIN r.fields
  <2>1. IsRequest(t) /\ t.fields = renamed /\ t.controls = r.controls /\ t.objects = r.objects
    BY <1>5, FieldsWritten
  <2>2. QED
    BY <1>1, <1>5, <2>1 DEF t
<1>6. CASE t = [r EXCEPT !.fields = derived] /\ Budgets \cap DOMAIN r.fields = {}
  <2>1. IsRequest(t) /\ t.fields = derived /\ t.controls = r.controls /\ t.objects = r.objects
    BY <1>6, FieldsWritten
  <2>2. QED
    BY <1>2, <1>6, <2>1 DEF t, Budgets, Native
<1>7. QED
  BY <1>3, <1>4, <1>5, <1>6

\* The toggle that the adapter may spell out is the only control it adds.
LEMMA AdaptShape ==
  ASSUME NEW a, IsRequest(a)
  PROVE  LET t == Adapt(a) IN
         /\ t.objects = a.objects
         /\ t.controls \in {a.controls, SwitchOff(a).controls}
         /\ ~a.alien => t.controls = SwitchOff(a).controls
         /\ \A f \in DOMAIN a.fields \ {Native, Alias} :
              f \in DOMAIN t.fields /\ t.fields[f] = a.fields[f]
         /\ DOMAIN t.fields \subseteq DOMAIN a.fields \cup {Native}
         /\ Native \in DOMAIN t.fields =>
              \/ Native \in DOMAIN a.fields /\ t.fields[Native] = a.fields[Native]
              \/ Alias \in DOMAIN a.fields /\ t.fields[Native] = a.fields[Alias]
              \/ Budgets \cap DOMAIN a.fields = {} /\ t.fields[Native] = "derived"
<1> DEFINE b == SwitchOff(a)
<1>1. /\ IsRequest(b) /\ b.fields = a.fields /\ b.objects = a.objects
  BY ControlsWritten DEF SwitchOff
<1>2. CASE a.alien
  BY <1>2 DEF Adapt
<1>3. CASE ~a.alien
  <2>1. Adapt(a) = TranslateBudget(b, Resolved(a, "enabled"))
    BY <1>3 DEF Adapt
  <2>2. QED
    BY <1>1, <1>3, <2>1, BudgetShape
<1>4. QED
  BY <1>2, <1>3

-----------------------------------------------------------------------------
(* The two decisions about one request.                                    *)

\* What adapt_chat_request makes of the toggle, when every control that counts
\* for the profile says the same.
LEMMA ToggleFollows ==
  ASSUME NEW r, RequestOK(r), Mode(r, "tabbyapi") # "common"
  PROVE  LET s == SwitchOff(r) IN
         /\ Mode(r, "tabbyapi") = "thinking" => Resolved(s, "enabled") # "off"
         /\ Mode(r, "tabbyapi") = "non_thinking" => Resolved(s, "enabled") = "off"
<1> DEFINE e == "tabbyapi"
           heeded == {d \in DOMAIN r.controls : Heeds(r, e, d)}
           said == {r.controls[c] : c \in heeded}
           s == SwitchOff(r)
           At(at, kind) == [at |-> at, kind |-> kind]
           toggle == At("top", "enabled")
<1>1. said \in {{"on"}, {"off"}}
      /\ (Mode(r, e) = "thinking" => said = {"on"})
      /\ (Mode(r, e) = "non_thinking" => said = {"off"})
  BY DEF Mode
<1>2. \A c \in DOMAIN r.controls :
        /\ c = At(c.at, c.kind) /\ c.kind \in {"effort", "enabled"}
        /\ c.at \in {"reasoning", "template_vars", "chat_template_kwargs", "top"}
        /\ r.controls[c] \in Stances /\ c.at \in r.objects \cup {"top"}
  BY DEF RequestOK, Controls, Objects
<1>3. \A c \in DOMAIN r.controls :
        Heeds(r, e, c) <=> ~(c.at = "chat_template_kwargs" /\ "template_vars" \in r.objects)
  BY DEF Heeds
<1>4. \A c \in heeded : c.at \in {Template(r), "top", "reasoning"}
  BY <1>2, <1>3 DEF Template
<1>5. \A c \in DOMAIN r.controls : c.at \in {Template(r), "top", "reasoning"} => c \in heeded
  BY <1>3 DEF Template
<1>6. ASSUME NEW kind, NEW at \in {Template(r), "top", "reasoning"}
      PROVE  \/ Said(r, at, kind) = "absent"
             \/ Said(r, at, kind) \in said
  BY <1>5 DEF Said
<1>8. \A kind \in {"effort", "enabled"} :
        /\ Resolved(r, kind) \in said \cup {"absent"}
        /\ Resolved(r, kind) = "absent" =>
             \A at \in {Template(r), "top", "reasoning"} : Said(r, at, kind) = "absent"
  <2> TAKE kind \in {"effort", "enabled"}
  <2>1. /\ Said(r, Template(r), kind) \in said \cup {"absent"}
        /\ Said(r, "top", kind) \in said \cup {"absent"}
        /\ Said(r, "reasoning", kind) \in said \cup {"absent"}
    BY <1>6
  <2>2. "absent" \notin said /\ "null" \notin said
    BY <1>1
  <2>3. Resolved(r, kind) =
           IF Said(r, Template(r), kind) # "absent" THEN Said(r, Template(r), kind)
           ELSE IF Said(r, "top", kind) \notin {"absent", "null"} THEN Said(r, "top", kind)
           ELSE Said(r, "reasoning", kind)
    BY <1>2, ResolvedIs
  <2> HIDE DEF said
  <2>4. QED
    BY <2>1, <2>2, <2>3
<1>9. CASE said = {"on"}
  <2>1. s = r
    BY <1>8, <1>9 DEF SwitchOff
  <2>2. Resolved(r, "enabled") # "off"
    BY <1>8, <1>9
  <2>3. QED
    BY <1>1, <1>9, <2>1, <2>2
<1>10. CASE said = {"off"}
  <2>1. \E kind \in {"effort", "enabled"} : Resolved(r, kind) # "absent"
    <3>1. PICK c \in heeded : TRUE
      BY <1>10
    <3>2. /\ c.at \in {Template(r), "top", "reasoning"} /\ c.kind \in {"effort", "enabled"}
          /\ Said(r, c.at, c.kind) = r.controls[c] /\ r.controls[c] \in Stances
      BY <1>2, <1>4, <3>1 DEF Said
    <3>3. Said(r, c.at, c.kind) # "absent"
      BY <3>2 DEF Stances
    <3>4. QED
      BY <1>8, <3>2, <3>3
  <2>2. CASE Resolved(r, "enabled") = "off"
    <3>1. s = r
      BY <2>2 DEF SwitchOff
    <3>2. QED
      BY <1>1, <1>10, <2>2, <3>1
  <2>3. CASE Resolved(r, "enabled") # "off"
    <3>1. Resolved(r, "enabled") = "absent" /\ Resolved(r, "effort") = "off"
      BY <1>8, <1>10, <2>1, <2>3
    <3>2. Said(r, Template(r), "enabled") = "absent"
      BY <1>8, <3>1
    <3>3. s = [r EXCEPT !.controls = (toggle :> "off") @@ r.controls]
      BY <3>1, <3>2 DEF SwitchOff, RequestOK, IsRequest
    <3>4. s.controls = (toggle :> "off") @@ r.controls /\ s.objects = r.objects
      BY <3>3, ControlsWritten DEF RequestOK
    <3>5. /\ DOMAIN s.controls = DOMAIN r.controls \cup {toggle}
          /\ s.controls[toggle] = "off"
          /\ \A c \in DOMAIN r.controls \ {toggle} : s.controls[c] = r.controls[c]
      BY <3>4 DEF @@, :>
    <3>6. \A c \in DOMAIN s.controls : s.controls[c] \in Stances
      BY <1>2, <3>5 DEF Stances
    <3>7. Template(s) = Template(r) /\ Template(r) # "top"
      BY <3>4 DEF Template
    <3>8. Said(s, Template(s), "enabled") = "absent"
      <4>1. At(Template(r), "enabled") # toggle
        BY <3>7
      <4>2. At(Template(r), "enabled") \notin DOMAIN r.controls
        BY <1>2, <3>2 DEF Said, Stances
      <4>3. QED
        BY <3>5, <3>7, <4>1, <4>2 DEF Said
    <3>9. Said(s, "top", "enabled") = "off"
      BY <3>5 DEF Said
    <3>10. Resolved(s, "enabled") = "off"
      BY <3>6, <3>8, <3>9, ResolvedIs
    <3>11. QED
      BY <1>1, <1>10, <3>10
  <2>4. QED
    BY <2>2, <2>3
<1>11. QED
  BY <1>1, <1>9, <1>10

\* Only the controls and the objects of a request say what a template reads.
LEMMA SameControls ==
  ASSUME NEW r, IsRequest(r), NEW a, IsRequest(a), a.controls = r.controls, a.objects = r.objects
  PROVE  /\ \A kind : Resolved(a, kind) = Resolved(r, kind)
         /\ SwitchOff(a).controls = SwitchOff(r).controls
         /\ SwitchOff(a).objects = SwitchOff(r).objects
<1>1. /\ \A kind : Resolved(a, kind) = Resolved(r, kind)
      /\ Said(a, Template(a), "enabled") = Said(r, Template(r), "enabled")
  BY DEF Resolved, Said, Template
<1>2. QED
  BY <1>1, ControlsWritten DEF SwitchOff

LEMMA BlockFits ==
  ASSUME NEW r \in Requests, LET t == Forward(r, "tabbyapi") IN "temperature" \in DOMAIN t.fields
  PROVE  LET t == Forward(r, "tabbyapi") IN
         /\ t.fields["temperature"] = "thinking" => Resolved(t, "enabled") # "off"
         /\ t.fields["temperature"] = "non_thinking" => Resolved(t, "enabled") = "off"
<1> DEFINE a == Apply(r, "tabbyapi")
           t == Adapt(a)
           mode == Mode(r, "tabbyapi")
<1>1. RequestOK(r) /\ IsRequest(r)
  BY RequestShape DEF RequestOK
<1>2. /\ IsRequest(a) /\ a.controls = r.controls /\ a.objects = r.objects /\ a.alien = r.alien
      /\ a.fields["temperature"] \in {"temperature", mode}
  BY <1>1, ApplyShape DEF Engines
<1>3. /\ t.objects = a.objects
      /\ ~a.alien => t.controls = SwitchOff(a).controls
      /\ "temperature" \in DOMAIN t.fields => t.fields["temperature"] = a.fields["temperature"]
  BY <1>2, AdaptShape DEF Native, Alias
<1>4. SwitchOff(a).controls = SwitchOff(r).controls /\ SwitchOff(r).objects = r.objects
  <2>1. SwitchOff(r).objects = r.objects
    BY <1>1, ControlsWritten DEF SwitchOff
  <2>2. QED
    BY <1>1, <1>2, <2>1, SameControls
<1>5. ASSUME mode # "common" PROVE Resolved(t, "enabled") = Resolved(SwitchOff(r), "enabled")
  <2>1. ~r.alien
    BY <1>5 DEF Mode, Foreign
  <2>2. t.controls = SwitchOff(r).controls /\ t.objects = SwitchOff(r).objects
    BY <1>2, <1>3, <1>4, <2>1
  <2>3. QED
    BY <2>2 DEF Resolved, Said, Template
<1>6. Forward(r, "tabbyapi") = t
  BY DEF Forward
<1>7. t.fields["temperature"] \in {"temperature", mode}
  BY <1>2, <1>3, <1>6
<1>8. /\ mode = "thinking" => Resolved(t, "enabled") # "off"
      /\ mode = "non_thinking" => Resolved(t, "enabled") = "off"
  BY <1>1, <1>5, ToggleFollows
<1> HIDE DEF t, mode
<1>9. QED
  BY <1>6, <1>7, <1>8

LEMMA CallerKept ==
  ASSUME NEW r \in Requests, NEW e \in Engines
  PROVE  LET t == Forward(r, e) IN
    /\ \A f \in DOMAIN r.fields :
         \/ f \in DOMAIN t.fields /\ t.fields[f] = r.fields[f]
         \/ e = "tabbyapi" /\ f \in {Native, Alias}
    /\ Spellings \cap DOMAIN r.fields # {}
         => Wire(e) \in DOMAIN t.fields /\ t.fields[Wire(e)] \in Spellings
    /\ Budgets \cap DOMAIN r.fields # {} /\ Native \in DOMAIN t.fields
         => t.fields[Native] \notin {"common", "derived"}
<1> DEFINE a == Apply(r, e)
           t == Forward(r, e)
<1>1. RequestOK(r)
  BY RequestShape
<1>2. /\ IsRequest(a)
      /\ \A f \in DOMAIN r.fields : f \in DOMAIN a.fields /\ a.fields[f] = r.fields[f]
      /\ Spellings \cap DOMAIN r.fields # {}
              => Wire(e) \in DOMAIN a.fields /\ a.fields[Wire(e)] \in Spellings
      /\ \A f \in Budgets \cap DOMAIN a.fields : f \in DOMAIN r.fields \/ ~HasThinkingControl(r)
  BY <1>1, ApplyShape
<1>3. Budgets \cap DOMAIN r.fields # {} =>
        \A f \in {Native, Alias} \cap DOMAIN a.fields : a.fields[f] \in {Native, Alias, "null"}
  BY <1>1, <1>2 DEF HasThinkingControl, RequestOK, Budgets, Native, Alias
<1>4. Budgets \cap DOMAIN r.fields # {} => Budgets \cap DOMAIN a.fields # {}
  BY <1>2
<1>5. CASE e # "tabbyapi"
  <2>1. t = a
    BY <1>5 DEF Forward
  <2>2. QED
    BY <1>2, <1>3, <2>1 DEF Native, Alias
<1>6. CASE e = "tabbyapi"
  <2>1. t = Adapt(a)
    BY <1>6 DEF Forward
  <2>2. /\ \A f \in DOMAIN a.fields \ {Native, Alias} :
              f \in DOMAIN t.fields /\ t.fields[f] = a.fields[f]
        /\ Native \in DOMAIN t.fields =>
              \/ Native \in DOMAIN a.fields /\ t.fields[Native] = a.fields[Native]
              \/ Alias \in DOMAIN a.fields /\ t.fields[Native] = a.fields[Alias]
              \/ Budgets \cap DOMAIN a.fields = {} /\ t.fields[Native] = "derived"
    BY <1>2, <2>1, AdaptShape
  <2>3. Wire(e) \notin {Native, Alias}
    BY DEF Wire, Native, Alias
  <2> HIDE DEF t, a
  <2>4. \A f \in DOMAIN r.fields :
         \/ f \in DOMAIN t.fields /\ t.fields[f] = r.fields[f]
         \/ e = "tabbyapi" /\ f \in {Native, Alias}
    BY <1>2, <1>6, <2>2
  <2>5. Spellings \cap DOMAIN r.fields # {}
          => Wire(e) \in DOMAIN t.fields /\ t.fields[Wire(e)] \in Spellings
    BY <1>2, <2>2, <2>3
  <2>6. Budgets \cap DOMAIN r.fields # {} /\ Native \in DOMAIN t.fields
          => t.fields[Native] \notin {"common", "derived"}
    BY <1>3, <1>4, <2>2 DEF Native, Alias
  <2>7. QED
    BY <2>4, <2>5, <2>6 DEF t
<1>7. QED
  BY <1>5, <1>6

LEMMA NoProfileBudget ==
  ASSUME NEW r \in Requests, NEW e \in Engines, DOMAIN r.controls # {}
  PROVE  LET t == Forward(r, e) IN Native \in DOMAIN t.fields => t.fields[Native] # "common"
<1> DEFINE a == Apply(r, e)
<1>1. RequestOK(r) /\ HasThinkingControl(r)
  BY RequestShape DEF HasThinkingControl
<1>2. /\ IsRequest(a)
      /\ \A f \in DOMAIN r.fields : f \in DOMAIN a.fields /\ a.fields[f] = r.fields[f]
      /\ \A f \in Budgets \cap DOMAIN a.fields : f \in DOMAIN r.fields
  BY <1>1, ApplyShape
<1>3. \A f \in {Native, Alias} \cap DOMAIN a.fields : a.fields[f] \in {Native, Alias, "null"}
  BY <1>1, <1>2 DEF RequestOK, Budgets, Native, Alias
<1> HIDE DEF a
<1>4. CASE e # "tabbyapi"
  BY <1>3, <1>4 DEF Forward, Native, Alias, a
<1>5. CASE e = "tabbyapi"
  <2>1. Forward(r, e) = Adapt(a)
    BY <1>5 DEF Forward, a
  <2>2. Native \in DOMAIN Adapt(a).fields =>
              \/ Native \in DOMAIN a.fields /\ Adapt(a).fields[Native] = a.fields[Native]
              \/ Alias \in DOMAIN a.fields /\ Adapt(a).fields[Native] = a.fields[Alias]
              \/ Budgets \cap DOMAIN a.fields = {} /\ Adapt(a).fields[Native] = "derived"
    BY <1>2, AdaptShape
  <2>3. QED
    BY <1>3, <2>1, <2>2 DEF Native, Alias
<1>6. QED
  BY <1>4, <1>5

-----------------------------------------------------------------------------
(* The chats, one after the other.                                         *)

ForwardInv ==
  /\ engine \in Engines
  /\ posted \in {Blank} \cup Requests
  /\ sent # Blank => posted \in Requests /\ sent = Forward(posted, engine)

LEMMA ChatInvariant == ChatSpec => []ForwardInv
<1>1. ChatInit => ForwardInv
  BY DEF ChatInit, ForwardInv, Engines
<1>2. ForwardInv /\ [ChatNext]_chatVars => ForwardInv'
  BY DEF ForwardInv, ChatNext, PostChat, ForwardChat, ChatDone, chatVars
<1>3. QED
  BY <1>1, <1>2, PTL DEF ChatSpec

\* The sampling fits the thinking of every chat for TabbyAPI, however many
\* controls a caller combines.
THEOREM BlockAlwaysFits == ChatSpec => []BlockFitsRequest
<1>1. ForwardInv => BlockFitsRequest
  BY BlockFits DEF ForwardInv, BlockFitsRequest
<1>2. QED
  BY <1>1, ChatInvariant, PTL

\* Nothing the broker adds to a chat takes the place of what the caller has said.
THEOREM CallerAlwaysDecides == ChatSpec => []CallerDecides
<1>1. ForwardInv => CallerDecides
  <2> SUFFICES ASSUME ForwardInv, sent # Blank PROVE CallerDecides
    BY DEF CallerDecides
  <2>1. posted \in Requests /\ engine \in Engines /\ sent = Forward(posted, engine)
    BY DEF ForwardInv
  <2>2. /\ \A f \in DOMAIN posted.fields :
             \/ f \in DOMAIN sent.fields /\ sent.fields[f] = posted.fields[f]
             \/ engine = "tabbyapi" /\ f \in {Native, Alias}
        /\ Spellings \cap DOMAIN posted.fields # {}
             => Wire(engine) \in DOMAIN sent.fields /\ sent.fields[Wire(engine)] \in Spellings
        /\ Budgets \cap DOMAIN posted.fields # {} /\ Native \in DOMAIN sent.fields
             => sent.fields[Native] \notin {"common", "derived"}
    BY <2>1, CallerKept
  <2>3. DOMAIN posted.controls # {} /\ Native \in DOMAIN sent.fields => sent.fields[Native] # "common"
    BY <2>1, NoProfileBudget
  <2>4. QED
    BY <2>2, <2>3 DEF CallerDecides, Native, Alias
<1>2. QED
  BY <1>1, ChatInvariant, PTL

-----------------------------------------------------------------------------
(* The workflows of the media jobs.                                        *)

\* A manifest that load() accepts, and an item that is accepted for it.
BuiltInv ==
  order # Nothing =>
    /\ manifest \in Manifests /\ Loads(manifest)
    /\ order \in Orders /\ Accepts(order) /\ graph = Build(order)

\* The inputs in question, by name.
LEMMA InputFacts ==
  /\ DOMAIN Export = {ReferenceOnly, Row, Input("sampler", "image1"), Input("sampler", "text"),
                      Input("loader", "filename")}
  /\ \A i \in DOMAIN Export : Export[i] = "export"
  /\ Slots \subseteq Inputs /\ DOMAIN Export \subseteq Inputs
  /\ \A s \in Slots : Loader(s) \notin Inputs
  /\ \A i \in Inputs : i.node = "saver" <=> i = ReferenceOnly
BY DEF Export, Inputs, Slots, Loader, Input, ReferenceOnly, Row

\* What load() has checked.
LEMMA ManifestFacts ==
  ASSUME NEW m \in Manifests, Loads(m)
  PROVE  /\ m.prompt \in DOMAIN Export /\ m.seed \in DOMAIN Export /\ m.prompt # m.seed
         /\ m.nsfw \subseteq DOMAIN Export /\ m.slots \subseteq Slots
         /\ m.set \subseteq Inputs /\ m.remove \subseteq Inputs
         /\ {m.prompt, m.seed} \cap m.nsfw = {}
         /\ ({m.prompt, m.seed} \cup m.nsfw) \cap m.slots = {}
         /\ (m.set \cup m.remove) \cap ({m.prompt, m.seed} \cup m.nsfw \cup m.slots) = {}
         /\ m.set \cap m.remove = {}
         /\ ReferenceOnly \notin m.set \cup m.remove \cup m.slots
         /\ m.saved => ReferenceOnly \notin {m.prompt, m.seed} \cup m.nsfw
<1>1. /\ m.prompt \in DOMAIN Export /\ m.seed \in DOMAIN Export
      /\ m.nsfw \subseteq DOMAIN Export /\ m.slots \subseteq Slots
      /\ m.set \subseteq Inputs /\ m.remove \subseteq Inputs
  BY InputFacts DEF Manifests
<1>2. ReferenceOnly.node = "saver" /\ ReferenceOnly \notin Slots
  BY DEF ReferenceOnly, Input, Slots
<1>3. QED
  BY <1>1, <1>2 DEF Loads, ModesMustSpare

\* What the five writers of build() leave, one after the other.
LEMMA BuildShape ==
  ASSUME manifest \in Manifests, Loads(manifest), NEW o \in Orders
  PROVE  LET draft == ModeOf(o) = "draft"
             used == Used(o.references)
             patched == IF draft THEN manifest.set ELSE {}
             removed == IF draft THEN manifest.remove ELSE {}
             built == Build(o)
         IN /\ DOMAIN built = (((DOMAIN Export \cup patched) \ removed) \ manifest.slots) \cup used
                                 \cup {Loader(s) : s \in used}
            /\ \A i \in DOMAIN built \cap Inputs :
                 /\ i = manifest.prompt => built[i] = "prompt"
                 /\ i = manifest.seed => built[i] = SeedOf(o)
                 /\ i \in manifest.nsfw => built[i] = Switch(o)
                 /\ i \in used => built[i] = "link"
                 /\ i \in patched => built[i] = "draft"
                 /\ manifest.saved /\ i = ReferenceOnly => built[i] = "true"
                 /\ \/ i \in {manifest.prompt, manifest.seed} \cup manifest.nsfw \cup used \cup patched
                    \/ manifest.saved /\ i = ReferenceOnly
                    \/ built[i] = "export"
<1> DEFINE m == manifest
           used == Used(o.references)
           loaders == {Loader(s) : s \in used}
           draft == ModeOf(o) = "draft"
           patched == IF draft THEN m.set ELSE {}
           removed == IF draft THEN m.remove ELSE {}
           g1 == Moded(Export, o)
           g2 == Switched(g1, o)
           g3 == Referencing(g2, o)
           g4 == Filled(g3, o)
           g5 == Saved(g4)
<1>1. /\ m.prompt \in DOMAIN Export /\ m.seed \in DOMAIN Export /\ m.prompt # m.seed
      /\ m.nsfw \subseteq DOMAIN Export /\ m.slots \subseteq Slots
      /\ patched \subseteq Inputs /\ removed \subseteq Inputs
      /\ {m.prompt, m.seed} \cap m.nsfw = {}
      /\ ({m.prompt, m.seed} \cup m.nsfw) \cap m.slots = {}
      /\ (patched \cup removed) \cap ({m.prompt, m.seed} \cup m.nsfw \cup m.slots) = {}
      /\ patched \cap removed = {}
      /\ ReferenceOnly \notin patched \cup removed \cup m.slots
      /\ m.saved => ReferenceOnly \notin {m.prompt, m.seed} \cup m.nsfw
  BY ManifestFacts
<1>2. used \subseteq m.slots
  BY DEF Used
<1>3. loaders \cap Inputs = {} /\ ReferenceOnly \in DOMAIN Export /\ DOMAIN Export \subseteq Inputs
  BY <1>1, <1>2, InputFacts
<1>4. /\ DOMAIN g1 = (DOMAIN Export \cup patched) \ removed
      /\ \A i \in DOMAIN g1 : g1[i] = IF i \in patched THEN "draft" ELSE "export"
  <2>1. CASE draft
    <3> DEFINE h == Constantly(m.set, "draft") @@ Export
    <3>1. /\ DOMAIN h = m.set \cup DOMAIN Export
          /\ \A i \in DOMAIN h : h[i] = IF i \in m.set THEN "draft" ELSE "export"
      BY InputFacts DEF Constantly, @@
    <3>2. g1 = Less(h, m.remove)
      BY <2>1 DEF Moded
    <3> HIDE DEF h
    <3>3. QED
      BY <2>1, <3>1, <3>2 DEF Less
  <2>2. CASE ~draft
    BY <2>2, InputFacts DEF Moded
  <2>3. QED
    BY <2>1, <2>2
<1> HIDE DEF g1, patched, removed, draft
<1>5. /\ DOMAIN g2 = DOMAIN g1
      /\ \A i \in DOMAIN g2 : g2[i] = IF i \in m.nsfw THEN Switch(o) ELSE g1[i]
  <2>1. /\ DOMAIN g2 = m.nsfw \cup DOMAIN g1
        /\ \A i \in DOMAIN g2 : g2[i] = IF i \in m.nsfw THEN Switch(o) ELSE g1[i]
    BY DEF Switched, Constantly, @@
  <2>2. QED
    BY <1>1, <1>4, <2>1
<1> HIDE DEF g2
<1>6. /\ DOMAIN g3 = (DOMAIN g2 \ m.slots) \cup used \cup loaders
      /\ \A i \in used : g3[i] = "link"
      /\ \A i \in DOMAIN g2 \ m.slots : i \notin loaders => g3[i] = g2[i]
  <2> DEFINE h == Constantly(used, "link") @@ Constantly(loaders, "reference")
             l == Less(g2, m.slots)
  <2>1. /\ DOMAIN h = used \cup loaders
        /\ \A i \in used : h[i] = "link"
    BY DEF Constantly, @@
  <2>2. DOMAIN l = DOMAIN g2 \ m.slots /\ \A i \in DOMAIN l : l[i] = g2[i]
    BY DEF Less
  <2>3. g3 = h @@ l
    BY DEF Referencing
  <2> HIDE DEF h, l
  <2>4. QED
    BY <1>2, <2>1, <2>2, <2>3 DEF @@
<1> HIDE DEF g3
<1>7. /\ DOMAIN g4 = {m.prompt, m.seed} \cup DOMAIN g3
      /\ g4[m.prompt] = "prompt" /\ g4[m.seed] = SeedOf(o)
      /\ \A i \in DOMAIN g3 \ {m.prompt, m.seed} : g4[i] = g3[i]
  BY <1>1 DEF Filled, @@, :>
<1> HIDE DEF g4
<1>8. /\ DOMAIN g5 = (IF m.saved THEN {ReferenceOnly} ELSE {}) \cup DOMAIN g4
      /\ m.saved => g5[ReferenceOnly] = "true"
      /\ \A i \in DOMAIN g4 : (m.saved /\ i = ReferenceOnly) \/ g5[i] = g4[i]
  BY DEF Saved, @@, :>
<1> HIDE DEF g5
<1>9. Build(o) = g5
  BY DEF Build, g1, g2, g3, g4, g5
<1> HIDE DEF loaders, used
<1>10. DOMAIN g5 = (((DOMAIN Export \cup patched) \ removed) \ m.slots) \cup used \cup loaders
  BY <1>1, <1>2, <1>3, <1>4, <1>5, <1>6, <1>7, <1>8
<1>11. ASSUME NEW i \in DOMAIN g5 \cap Inputs
       PROVE  /\ i = m.prompt => g5[i] = "prompt"
              /\ i = m.seed => g5[i] = SeedOf(o)
              /\ i \in m.nsfw => g5[i] = Switch(o)
              /\ i \in used => g5[i] = "link"
              /\ i \in patched => g5[i] = "draft"
              /\ m.saved /\ i = ReferenceOnly => g5[i] = "true"
              /\ \/ i \in {m.prompt, m.seed} \cup m.nsfw \cup used \cup patched
                 \/ m.saved /\ i = ReferenceOnly
                 \/ g5[i] = "export"
  BY <1>1, <1>2, <1>3, <1>4, <1>5, <1>6, <1>7, <1>8, <1>10
<1>12. QED
  BY <1>9, <1>10, <1>11 DEF used, loaders, patched, removed, draft

LEMMA ControlsLand ==
  ASSUME manifest \in Manifests, Loads(manifest), order \in Orders, graph = Build(order)
  PROVE  EveryControlLands
<1> DEFINE draft == ModeOf(order) = "draft"
           used == Used(order.references)
           patched == IF draft THEN manifest.set ELSE {}
           removed == IF draft THEN manifest.remove ELSE {}
           loaders == {Loader(s) : s \in used}
           cut == (manifest.slots \ used) \cup removed
<1>1. /\ used \subseteq manifest.slots /\ manifest.slots \subseteq Slots
      /\ patched \cap manifest.slots = {} /\ removed \cap manifest.slots = {}
      /\ patched \cap removed = {}
      /\ {manifest.prompt, manifest.seed} \cap (manifest.nsfw \cup manifest.slots) = {}
      /\ manifest.prompt # manifest.seed
      /\ manifest.nsfw \cap manifest.slots = {}
      /\ patched \cap ({manifest.prompt, manifest.seed} \cup manifest.nsfw) = {}
  BY ManifestFacts DEF Used
<1>2. /\ DOMAIN graph = (((DOMAIN Export \cup patched) \ removed) \ manifest.slots) \cup used \cup loaders
      /\ \A i \in DOMAIN graph \cap Inputs :
                 /\ i = manifest.prompt => graph[i] = "prompt"
                 /\ i = manifest.seed => graph[i] = SeedOf(order)
                 /\ i \in manifest.nsfw => graph[i] = Switch(order)
                 /\ i \in used => graph[i] = "link"
                 /\ i \in patched => graph[i] = "draft"
                 /\ manifest.saved /\ i = ReferenceOnly => graph[i] = "true"
                 /\ \/ i \in {manifest.prompt, manifest.seed} \cup manifest.nsfw \cup used \cup patched
                    \/ manifest.saved /\ i = ReferenceOnly
                    \/ graph[i] = "export"
  BY BuildShape
<1> HIDE DEF used, patched, removed, loaders
<1>3. DOMAIN graph = ((DOMAIN Export \cup used \cup patched) \ cut) \cup loaders
  BY <1>1, <1>2
<1>4. QED
  BY <1>2, <1>3 DEF EveryControlLands, used, patched, removed, loaders

LoadedInv == manifest \in Manifests /\ Loads(manifest) /\ BuiltInv

LEMMA WorkflowInitInv == WorkflowInit => LoadedInv
BY DEF WorkflowInit, BuiltInv, LoadedInv

LEMMA WorkflowStep ==
  ASSUME LoadedInv, [WorkflowNext]_workflowVars PROVE LoadedInv'
<1> USE DEF LoadedInv
<1>1. CASE BuildOrder
  <2>1. manifest' = manifest /\ order' \in Orders /\ Accepts(order') /\ graph' = Build(order')
    BY <1>1 DEF BuildOrder
  <2>2. Accepts(order)' /\ Loads(manifest)' /\ graph' = Build(order)'
    BY <2>1 DEF Accepts, Loads, ModesMustSpare, Build, Saved, Filled, Referencing, Switched, Moded,
                Used
  <2>3. QED
    BY <2>1, <2>2 DEF BuiltInv, Manifests
<1>2. CASE EndOrder
  BY <1>2 DEF EndOrder, BuiltInv, Loads, ModesMustSpare
<1>3. CASE UNCHANGED workflowVars
  BY <1>3 DEF workflowVars, BuiltInv, Loads, ModesMustSpare, Accepts, Build, Saved, Filled,
              Referencing, Switched, Moded, Used
<1>4. QED
  BY <1>1, <1>2, <1>3 DEF WorkflowNext

LEMMA LoadedLands == LoadedInv => EveryControlLands
BY ControlsLand DEF LoadedInv, BuiltInv, EveryControlLands

\* The graph of every job has each value where its manifest maps it, of whatever
\* manifest that loads.
THEOREM ControlsAlwaysLand == WorkflowSpec => []EveryControlLands
BY WorkflowInitInv, WorkflowStep, LoadedLands, PTL DEF WorkflowSpec

-----------------------------------------------------------------------------
(* The composition.                                                        *)

\* Only a behaviour in which it moves begins with a workflow for its part.
WorkflowsIdle == part # "workflows" /\ order = Nothing

LEMMA PartsStep ==
  ASSUME [ClientsNext]_clientVars
  PROVE  /\ [Next]_vars /\ [PollNext]_pollVars /\ [RelayNext]_sessionVars
         /\ [RoutesNext]_routeVars /\ [ChatNext]_chatVars /\ [WorkflowNext]_workflowVars
         /\ part' = part /\ (part # "workflows" => order' = order)
BY DEF ClientsNext, clientVars, workflowVars

LEMMA Parts == ClientsSpec => Spec /\ PollSpec /\ RelaySpec /\ RoutesSpec /\ ChatSpec
<1>1. ClientsInit => Init /\ PollInit /\ RelayInit /\ RoutesInit /\ ChatInit
  BY DEF ClientsInit
<1>2. QED
  BY <1>1, PartsStep, PTL DEF ClientsSpec, Spec, PollSpec, RelaySpec, RoutesSpec, ChatSpec

LEMMA WorkflowsPart == ClientsSpec => [](WorkflowsIdle \/ LoadedInv)
<1>1. ClientsInit => WorkflowsIdle \/ LoadedInv
  BY WorkflowInitInv DEF ClientsInit, WorkflowsIdle
<1>2. (WorkflowsIdle \/ LoadedInv) /\ [ClientsNext]_clientVars => (WorkflowsIdle \/ LoadedInv)'
  BY PartsStep, WorkflowStep DEF WorkflowsIdle
<1>3. QED
  BY <1>1, <1>2, PTL DEF ClientsSpec

\* The types of the parts and TabbyAPI's inductive invariant hold throughout.
THEOREM ClientsInvariant == ClientsSpec => []ClientsInv
<1>1. IInv /\ PollInv /\ RelayInv => ClientsInv
  BY DEF PollInv, RelayInv, ClientsInv
<1>2. QED
  BY <1>1, Parts, AdapterInvariant, PollingInvariant, RelayInvariant, PTL

\* What each part promises, it keeps as the runs compose it.
THEOREM ClientsSafety ==
  ClientsSpec => /\ []AbortedOnlyBlind /\ []FreedMeansFree /\ []SocketsOutliveTasks
                 /\ []EffectsCoordinated /\ []BlockFitsRequest /\ []CallerDecides
                 /\ []EveryControlLands /\ OneJobAtATime /\ ImplementsContract
<1>1. WorkflowsIdle \/ LoadedInv => EveryControlLands
  <2>1. WorkflowsIdle => EveryControlLands
    BY DEF WorkflowsIdle, EveryControlLands
  <2>2. QED
    BY <2>1, LoadedLands
<1>2. QED
  BY <1>1, Parts, WorkflowsPart, GivenUpBlind, FreedIsFree, TasksFirst, EffectsTreated,
     BlockAlwaysFits, CallerAlwaysDecides, OneJobHolds, ContractKept, PTL
=============================================================================
