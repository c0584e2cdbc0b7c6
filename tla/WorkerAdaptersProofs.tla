------------------------ MODULE WorkerAdaptersProofs ------------------------
(* Proofs about the Prism and Strata adapters: the latch is sound and the  *)
(* contract is kept, for any models.                                       *)
EXTENDS WorkerAdaptersProps, TLAPS

LEMMA InitInv == Init => IInv
<1> SUFFICES ASSUME Init PROVE IInv
  OBVIOUS
<1>1. FlagsOK
  BY DEF Init, FlagsOK
<1>2. QED
  BY <1>1, WorkerAssumption DEF Init, IInv, TypeOK, LatchSound, JobInv, AwaitInv, AnswerInv, GrantInv

\* The flags are flags.
LEMMA FlagsStep ==
  ASSUME TypeOK, [Next]_vars PROVE FlagsOK'
<1> USE DEF TypeOK, FlagsOK, serverVars, askVars, Ask, Return, Raise, Found, Fail, Post
<1>1. CASE Server
  BY <1>1 DEF Server, WorkerStarts, WorkerSleepsOrWakes, Accepts, JobEnds, Refuses
<1>2. CASE Answer \/ Calling
  BY <1>2 DEF Answer, Calling, Call
<1>3. CASE Look \/ Abort \/ Observe \/ ObserveUnstable
  BY <1>3 DEF Look, Abort, Observe, ObserveUnstable
<1>4. CASE ReleaseNothing \/ ReleaseUnload
  BY <1>4 DEF ReleaseNothing, ReleaseUnload
<1>5. CASE AcquireRefuses \/ AcquireLoaded \/ AcquireOther \/ AcquireLoad
  BY <1>5 DEF AcquireRefuses, AcquireLoaded, AcquireOther, AcquireLoad
<1>6. CASE PostAccepted \/ PostRefused \/ ConfirmAgain \/ ConfirmFails
  BY <1>6 DEF PostAccepted, PostRefused, ConfirmAgain, ConfirmFails
<1>7. CASE ReleaseConfirmed \/ OtherConfirmed \/ AcquireConfirmed
  BY <1>7 DEF ReleaseConfirmed, OtherConfirmed, AcquireConfirmed
<1>8. CASE UNCHANGED vars
  BY <1>8 DEF vars
<1>9. QED
  BY <1>1, <1>2, <1>3, <1>4, <1>5, <1>6, <1>7, <1>8 DEF Next, Working

LEMMA ServerInv ==
  ASSUME IInv, Server \/ Answer \/ Calling PROVE IInv'
<1>0. FlagsOK'
  BY FlagsStep DEF IInv, Next
<1> USE WorkerAssumption
    DEF IInv, TypeOK, LatchSound, JobInv, AwaitInv, AnswerInv, GrantInv, Restore, configVars, serverVars,
        callVars, askVars
<1>1. CASE Server
  <2>1. CASE WorkerStarts
    BY <1>0, <1>1, <2>1 DEF Server, WorkerStarts
  <2>2. CASE WorkerSleepsOrWakes
    BY <1>0, <1>1, <2>2 DEF Server, WorkerSleepsOrWakes
  <2>3. CASE Accepts
    BY <1>0, <1>1, <2>3 DEF Server, Accepts
  <2>4. CASE JobEnds
    BY <1>0, <1>1, <2>4 DEF Server, JobEnds
  <2>5. CASE Refuses
    BY <1>0, <1>1, <2>5 DEF Server, Refuses
  <2>6. QED
    BY <1>1, <2>1, <2>2, <2>3, <2>4, <2>5 DEF Server
<1>2. CASE Answer
  <2>1. seenStable' => stable
    BY <1>2, Zenon DEF Answer
  <2>2. QED
    BY <1>0, <1>2, <2>1 DEF Answer
<1>3. CASE Calling
  BY <1>0, <1>3 DEF Calling, Call
<1>4. QED
  BY <1>1, <1>2, <1>3

LEMMA WorkingInv ==
  ASSUME IInv, Working PROVE IInv'
<1>0. FlagsOK'
  BY FlagsStep DEF IInv, Next
<1> USE WorkerAssumption
    DEF IInv, TypeOK, LatchSound, JobInv, AwaitInv, AnswerInv, GrantInv, Restore, configVars, serverVars,
        callVars, askVars, Ask, Return, Raise, Found, Fail, Looked
<1>1. CASE Look
  BY <1>0, <1>1 DEF Look
<1>2. CASE Abort \/ PostRefused \/ ConfirmFails \/ ObserveUnstable \/ AcquireRefuses
  BY <1>0, <1>2 DEF Abort, PostRefused, ConfirmFails, ObserveUnstable, AcquireRefuses
<1>3. CASE Observe
  BY <1>0, <1>3 DEF Observe
<1>4. CASE ReleaseNothing
  BY <1>0, <1>4 DEF ReleaseNothing
<1>5. CASE ReleaseUnload
  BY <1>0, <1>5 DEF ReleaseUnload, Post
<1>6. CASE AcquireLoaded
  BY <1>0, <1>6 DEF AcquireLoaded
<1>7. CASE AcquireOther
  <2>1. kind = "prism" /\ seen = worker /\ worker # None
    BY <1>7 DEF AcquireOther, Mismatch
  <2>2. QED
    BY <1>0, <1>7, <2>1 DEF AcquireOther, Post
<1>8. CASE AcquireLoad
  BY <1>0, <1>8 DEF AcquireLoad, Post, Mismatch
<1>9. CASE PostAccepted
  BY <1>0, <1>9 DEF PostAccepted
<1>10. CASE ConfirmAgain
  BY <1>0, <1>10 DEF ConfirmAgain
<1>11. CASE ReleaseConfirmed
  BY <1>0, <1>11 DEF ReleaseConfirmed, Confirmed
<1>12. CASE OtherConfirmed
  BY <1>0, <1>12 DEF OtherConfirmed, Confirmed, Post
<1>13. CASE AcquireConfirmed
  BY <1>0, <1>13 DEF AcquireConfirmed, Confirmed
<1>14. QED
  BY <1>1, <1>2, <1>3, <1>4, <1>5, <1>6, <1>7, <1>8, <1>9, <1>10, <1>11, <1>12, <1>13 DEF Working

\* The invariant of the latch is inductive.
THEOREM WorkerInvariant == Spec => []IInv
<1>1. IInv /\ UNCHANGED vars => IInv'
  BY DEF IInv, TypeOK, FlagsOK, LatchSound, JobInv, AwaitInv, AnswerInv, GrantInv, Restore, vars
<1>2. IInv /\ [Next]_vars => IInv'
  BY <1>1, ServerInv, WorkingInv DEF Next
<1>3. QED
  BY InitInv, <1>2, PTL DEF Spec

\* Whatever was given up before, the latch is only off over an idle server.
THEOREM WorkerLatchSound == Spec => []LatchSound
<1>1. IInv => LatchSound
  BY DEF IInv
<1>2. QED
  BY <1>1, WorkerInvariant, PTL

\* The server is never asked for a second change while it works on one.
THEOREM WorkerOneJob == Spec => OneJobAtATime
<1>1. IInv /\ [Next]_vars => [await' = "post" /\ await # "post" => job = "idle"]_vars
  <2> SUFFICES ASSUME IInv, Next, await' = "post", await # "post" PROVE job = "idle"
    BY DEF vars
  <2>1. ReleaseUnload \/ AcquireOther \/ AcquireLoad \/ OtherConfirmed
    BY DEF Next, Server, Answer, Calling, Call, Working, Look, Abort, Observe, ObserveUnstable,
           ReleaseNothing, AcquireRefuses, AcquireLoaded, PostAccepted, PostRefused,
           ConfirmAgain, ConfirmFails, ReleaseConfirmed, AcquireConfirmed, Ask, Return, Raise,
           Found, Fail, callVars
  <2>2. CASE ReleaseUnload \/ AcquireOther \/ AcquireLoad
    BY <2>2 DEF ReleaseUnload, AcquireOther, AcquireLoad, Looked, IInv, LatchSound, AwaitInv
  <2>3. CASE OtherConfirmed
    BY <2>3 DEF OtherConfirmed, Confirmed, IInv, AnswerInv
  <2>4. QED
    BY <2>1, <2>2, <2>3
<1>2. QED
  BY <1>1, WorkerInvariant, PTL DEF Spec, OneJobAtATime

-----------------------------------------------------------------------------
(* The contract.                                                           *)

LEMMA ServerContract ==
  ASSUME IInv, Server \/ Answer \/ Calling
  PROVE  [Contract!ContractNext]_(Contract!contractVars)
<1> USE WorkerAssumption
    DEF IInv, TypeOK, LatchSound, JobInv, AwaitInv, GrantInv, Phase, Llm, Late, configVars,
        serverVars, callVars, askVars
<1>1. CASE Server
  <2>1. UNCHANGED <<Phase, point, goal>>
    BY <1>1 DEF Server
  <2>2. CASE WorkerStarts \/ WorkerSleepsOrWakes \/ Accepts
    <3>1. UNCHANGED <<Llm, Late>>
      BY <2>2 DEF WorkerStarts, WorkerSleepsOrWakes, Accepts
    <3>2. QED
      BY <2>1, <3>1 DEF Contract!contractVars
  <2>3. CASE JobEnds \/ Refuses
    <3>1. Phase \notin {"released", "granted"}
      BY <2>3 DEF JobEnds, Refuses
    <3>2. Contract!LateLoad \/ (Llm' = None /\ UNCHANGED Late) \/ UNCHANGED <<Llm, Late>>
      BY <2>3 DEF JobEnds, Refuses, Contract!LateLoad, Contract!comfyVars
    <3>3. QED
      BY <2>1, <3>1, <3>2
         DEF Contract!ContractNext, Contract!Aftermath, Contract!contractVars
  <2>4. QED
    BY <1>1, <2>2, <2>3 DEF Server
<1>2. CASE Answer
  BY <1>2 DEF Answer, Contract!contractVars
<1>3. CASE Calling
  <2>1. PICK kind_ \in Contract!Calls : Contract!Call(kind_)
    BY <1>3 DEF Calling, Call, Contract!Call, Contract!Calls
  <2>2. QED
    BY <2>1 DEF Contract!ContractNext
<1>4. QED
  BY <1>1, <1>2, <1>3

LEMMA WorkingContract ==
  ASSUME IInv, Working PROVE [Contract!ContractNext]_(Contract!contractVars)
<1> USE WorkerAssumption
    DEF IInv, TypeOK, LatchSound, JobInv, AwaitInv, AnswerInv, Phase, Llm, Late, configVars,
        serverVars, callVars, askVars, Ask, Return, Raise, Found, Fail, Looked
<1>1. CASE Look \/ PostAccepted \/ ConfirmAgain
  BY <1>1 DEF Look, PostAccepted, ConfirmAgain, Contract!contractVars
<1>2. CASE Abort \/ PostRefused \/ ConfirmFails \/ ObserveUnstable \/ AcquireRefuses
  <2>1. Contract!CallFails
    BY <1>2 DEF Abort, PostRefused, ConfirmFails, ObserveUnstable, AcquireRefuses,
                Contract!CallFails, Contract!Calls
  <2>2. QED
    BY <2>1 DEF Contract!ContractNext
<1>3. CASE Observe
  <2>1. Contract!Observed(seen)
    BY <1>3 DEF Observe, Contract!Observed, Contract!ObserveOk, Contract!ObserveModelOk,
                Contract!llmVars
  <2>2. QED
    BY <1>3, <2>1 DEF Contract!ContractNext
<1>4. CASE ReleaseNothing \/ ReleaseConfirmed
  <2>1. worker = None /\ ~Late /\ UNCHANGED <<Llm, Late>>
    BY <1>4 DEF ReleaseNothing, ReleaseConfirmed, Confirmed
  <2>2. Contract!Released
    BY <1>4, <2>1 DEF ReleaseNothing, ReleaseConfirmed, Contract!Released, Contract!ReleaseOk
  <2>3. QED
    BY <2>2 DEF Contract!ContractNext
<1>5. CASE ReleaseUnload
  <2>1. Phase = "releasing" /\ UNCHANGED <<Phase, Llm, Late, point, goal>>
    BY <1>5 DEF ReleaseUnload, Post
  <2>2. QED
    BY <2>1 DEF Contract!contractVars
<1>6. CASE AcquireOther \/ AcquireLoad \/ OtherConfirmed
  <2>1. Contract!Acquiring
    BY <1>6 DEF AcquireOther, AcquireLoad, OtherConfirmed, Post, Confirmed, Contract!Acquiring,
                Contract!AcquireFails
  <2>2. QED
    BY <2>1 DEF Contract!ContractNext
<1>7. CASE AcquireLoaded \/ AcquireConfirmed
  <2>1. /\ worker = Restore /\ Restore \in Models /\ ~Late
        /\ UNCHANGED <<Llm, Late>> /\ point' = Restore
    BY <1>7 DEF AcquireLoaded, AcquireConfirmed, Confirmed, Restore
  <2>2. Contract!Acquired(Restore)
    BY <1>7, <2>1
       DEF AcquireLoaded, AcquireConfirmed, Restore, Contract!Acquired, Contract!AcquireOk,
           Contract!AcquireModelOk, Contract!Reserving
  <2>3. QED
    BY <2>1, <2>2 DEF Contract!ContractNext
<1>8. QED
  BY <1>1, <1>2, <1>3, <1>4, <1>5, <1>6, <1>7 DEF Working

\* The adapters implement the contract that Coordinator is built on: the
\* initial states map to initial states, each step to a step or a stutter.
THEOREM WorkerContractKept == Spec => ImplementsContract
<1>1. Init => Contract!ContractInit
  BY DEF Init, Contract!ContractInit, Phase, Llm, Late
<1>2. IInv /\ [Next]_vars => [Contract!ContractNext]_(Contract!contractVars)
  <2>1. CASE UNCHANGED vars
    BY <2>1 DEF vars, Contract!contractVars, Phase, Llm, Late
  <2>2. QED
    BY <2>1, ServerContract, WorkingContract DEF Next
<1>3. QED
  BY <1>1, <1>2, WorkerInvariant, PTL DEF Spec, ImplementsContract, Contract!ContractSpec
=============================================================================
