-------------------------- MODULE CoordinatorTypes --------------------------
(* Type correctness of the coordinator, for every value of the constants.  *)
EXTENDS CoordinatorProps, FiniteSetTheorems, TLAPS

-----------------------------------------------------------------------------
(* What the helpers return.                                                *)

\* Settling futures gives futures.
LEMMA SettleType ==
  ASSUME NEW D, NEW f \in [D -> Futures], NEW S, NEW v \in Futures
  PROVE  Settle(f, S, v) \in [D -> Futures]
BY DEF Settle

\* Assigning a value of the range keeps the range.
LEMMA AssignType ==
  ASSUME NEW D, NEW R, NEW f \in [D -> R], NEW S, NEW v \in R
  PROVE  Assign(f, S, v) \in [D -> R]
BY DEF Assign

\* A FIFO without some of its places is a FIFO.
LEMMA RemoveQueuedType ==
  ASSUME queue \in Seq(Work), NEW S, RemoveQueued(S)
  PROVE  queue' \in Seq(Work)
<1>1. CASE QueuedIn(S) = {}
  BY <1>1 DEF RemoveQueued
<1>2. CASE QueuedIn(S) # {}
  <2>1. PICK lo, hi \in DOMAIN queue : lo <= hi /\ queue' = Cut(queue, lo, hi)
    BY <1>2 DEF RemoveQueued
  <2>2. QED
    BY <2>1 DEF Cut
<1>3. QED
  BY <1>1, <1>2

\* How many of some requests are queued is a number.
LEMMA QueuedInType ==
  ASSUME NEW S, S \subseteq Chats \/ S \subseteq Images
  PROVE  Cardinality(QueuedIn(S)) \in Nat
<1>1. IsFiniteSet(S)
  BY WorkAssumption, FS_Subset
<1>2. QueuedIn(S) \subseteq S
  BY DEF QueuedIn
<1>3. QED
  BY <1>1, <1>2, FS_Subset, FS_CardinalityType

\* The calls of the two programs keep the types of GpuBackends.
LEMMA ReleaseType ==
  ASSUME GpuTypeOK, ReleaseOk \/ ReleaseFails
  PROVE  llm' \in Models \cup {None} /\ late' \in BOOLEAN
BY DEF ReleaseOk, ReleaseFails, GpuTypeOK

LEMMA AcquireType ==
  ASSUME GpuTypeOK, NEW arg, NEW p, AcquireOk(arg, p) \/ AcquireFails
  PROVE  llm' \in Models \cup {None} /\ late' \in BOOLEAN
<1>1. CASE AcquireOk(arg, p)
  BY <1>1 DEF AcquireOk, ReserveOk, AcquireCombinedOk, AcquireModelOk, GpuTypeOK, llmVars
<1>2. CASE AcquireFails
  BY <1>2 DEF AcquireFails, GpuTypeOK, llmVars
<1>3. QED
  BY <1>1, <1>2

LEMMA FreeType ==
  ASSUME GpuTypeOK, FreeOk \/ FreeFails
  PROVE  comfyClean' \in BOOLEAN /\ running' = running
<1>1. CASE FreeOk
  BY <1>1 DEF FreeOk
<1>2. CASE FreeFails
  BY <1>2 DEF FreeFails, GpuTypeOK
<1>3. QED
  BY <1>1, <1>2

-----------------------------------------------------------------------------
(* What the parts of an action leave in the variables they set.            *)

LEMMA NextWorkType ==
  ASSUME NextWork
  PROVE  DispatcherTypeOK'
BY DEF NextWork, DispatcherTypeOK, IdlePCs, ChatPCs, ImagePCs, RestoreCalls, ActivateCalls

LEMMA GoToType ==
  ASSUME DispatcherTypeOK, NEW p, GoTo(p),
         \/ pc \in ChatPCs /\ p \in ChatPCs
         \/ pc \in ImagePCs /\ p \in ImagePCs
  PROVE  DispatcherTypeOK'
BY DEF GoTo, DispatcherTypeOK, IdlePCs, ChatPCs, ImagePCs, RestoreCalls, ActivateCalls

LEMMA GrantType ==
  ASSUME GrantTypeOK, DispatcherTypeOK, NEW c \in Chats, NEW s \in HandoffStates, Grant(c, s)
  PROVE  DispatcherTypeOK' /\ GrantTypeOK' /\ state' \in HandoffStates
<1>1. DispatcherTypeOK'
  BY NextWorkType DEF Grant
<1>2. CASE cancelled
  BY <1>1, <1>2 DEF Grant, grantVars, GrantTypeOK
<1>3. CASE ~cancelled
  <2>1. ready' \in [Chats -> Futures]
    BY <1>3, SettleType DEF Grant, GrantTypeOK, Futures
  <2>2. /\ granted' = [granted EXCEPT ![c] = TRUE]
        /\ activeChats' = activeChats + 1
        /\ state' \in HandoffStates
    BY <1>3 DEF Grant, HandoffStates
  <2>3. granted' \in [Chats -> BOOLEAN] /\ activeChats' \in Int
    BY <2>2 DEF GrantTypeOK
  <2>4. QED
    BY <1>1, <2>1, <2>2, <2>3 DEF GrantTypeOK
<1>4. QED
  BY <1>2, <1>3 DEF DispatcherTypeOK

LEMMA PrepareType ==
  ASSUME TypeOK, NEW c \in Chats, NEW s \in HandoffStates, PrepareChat(c, s)
  PROVE  DispatcherTypeOK' /\ GrantTypeOK' /\ state' \in HandoffStates /\ owner' \in Owners
<1>1. CASE NeedsRestore(c)
  <2>1. BeginRestore(c, s)
    BY <1>1 DEF PrepareChat
  <2>2. DispatcherTypeOK'
    <3>1. /\ pc' \in {"controlDrain", "restoreValidate"} /\ current' = c
          /\ notified' = TRUE /\ cancelled' = cancelled
      BY <2>1 DEF BeginRestore
    <3>2. QED
      BY <3>1 DEF TypeOK, DispatcherTypeOK, ChatPCs, ImagePCs, IdlePCs, RestoreCalls, ActivateCalls
  <2>3. GrantTypeOK'
    BY <2>1 DEF BeginRestore, TypeOK, GrantTypeOK, grantVars
  <2>4. state' \in HandoffStates /\ owner' \in Owners
    BY <2>1 DEF BeginRestore, TypeOK, OwnerTypeOK, HandoffStates, Owners
  <2>5. QED
    BY <2>2, <2>3, <2>4
<1>2. CASE ~NeedsRestore(c)
  BY <1>2, GrantType DEF PrepareChat, TypeOK, OwnerTypeOK
<1>3. QED
  BY <1>1, <1>2

-----------------------------------------------------------------------------
(* Init and the requests' steps.                                           *)

LEMMA InitType == Init => TypeOK
<1> SUFFICES ASSUME Init PROVE TypeOK
  OBVIOUS
<1>1. GpuTypeOK
  BY DEF Init, GpuInit, GpuTypeOK
<1>2. DispatcherTypeOK
  BY DEF Init, DispatcherTypeOK, ChatPCs, ImagePCs, IdlePCs, RestoreCalls, ActivateCalls
<1>3. OwnerTypeOK
  BY DEF Init, OwnerTypeOK, Owners, HandoffStates, RestorePoints
<1>4. QueueTypeOK
  BY DEF Init, QueueTypeOK
<1>5. ChatTypeOK /\ GrantTypeOK
  BY DEF Init, ChatTypeOK, GrantTypeOK, Futures
<1>6. ImageTypeOK
  BY DEF Init, ImageTypeOK, Futures
<1>7. SideTypeOK /\ LifeTypeOK
  BY DEF Init, SideTypeOK, LifeTypeOK
<1>8. QED
  BY <1>1, <1>2, <1>3, <1>4, <1>5, <1>6, <1>7 DEF TypeOK

LEMMA ChatStepType ==
  ASSUME TypeOK, NEW c \in Chats, ChatStep(c)
  PROVE  TypeOK'
<1>0. /\ ChatFrame
      /\ \/ \E t \in Targets : ChatEnqueue(c, t)
         \/ ChatEnter(c) \/ ChatAbandon(c) \/ ChatExit(c) \/ ChatFails(c)
  BY DEF ChatStep
<1>1. ImageTypeOK' /\ SideTypeOK' /\ LifeTypeOK'
  BY <1>0 DEF TypeOK, ChatFrame, ImageTypeOK, SideTypeOK, LifeTypeOK, futureVars, sideVars, promptVars,
              lifeVars
<1>2. late' \in BOOLEAN /\ recoverable' \in BOOLEAN /\ state' \in HandoffStates
  <2>1. UNCHANGED <<late, recoverable, state>> \/ ChatFails(c)
    BY <1>0, Zenon DEF ChatEnqueue, ChatEnter, ChatAbandon, ChatExit
  <2>2. CASE UNCHANGED <<late, recoverable, state>>
    BY <2>2 DEF TypeOK, GpuTypeOK, OwnerTypeOK
  <2>3. CASE ChatFails(c)
    <3>1. late' \in BOOLEAN /\ recoverable' \in BOOLEAN
      BY <2>3, Zenon DEF TypeOK, GpuTypeOK, ChatFails
    <3>2. state' \in HandoffStates
      BY <2>3 DEF ChatFails, HandoffStates
    <3>3. QED
      BY <3>1, <3>2
  <2>4. QED
    BY <2>1, <2>2, <2>3
<1>3. GpuTypeOK' /\ OwnerTypeOK'
  BY <1>0, <1>2 DEF TypeOK, GpuTypeOK, OwnerTypeOK, ChatFrame, comfyVars
<1>4. cancelled' \in BOOLEAN /\ notified' \in BOOLEAN
  <2>1. notified' = notified \/ notified' = TRUE
    BY <1>0, Zenon DEF ChatEnqueue, ChatEnter, ChatAbandon, ChatExit, ChatFails, LeaveLease, Notify
  <2>2. cancelled' = cancelled \/ cancelled' = (cancelled \/ current = c)
    BY <1>0, Zenon DEF ChatEnqueue, ChatEnter, ChatAbandon, ChatExit, ChatFails
  <2>3. QED
    BY <2>1, <2>2 DEF TypeOK, DispatcherTypeOK
<1>5. DispatcherTypeOK'
  BY <1>0, <1>4 DEF TypeOK, DispatcherTypeOK, ChatFrame
<1>6. QueueTypeOK' /\ ChatTypeOK' /\ GrantTypeOK'
  <2> USE DEF TypeOK, QueueTypeOK, ChatTypeOK, GrantTypeOK
  <2>1. ASSUME NEW t \in Targets, ChatEnqueue(c, t)
        PROVE  QueueTypeOK' /\ ChatTypeOK' /\ GrantTypeOK'
    BY <2>1, <1>0 DEF ChatEnqueue, ChatFrame, Targets, Futures, Work
  <2>2. CASE ChatEnter(c)
    BY <2>2, <1>0 DEF ChatEnter, ChatFrame, grantVars
  <2>3. ASSUME LeaveLease(c) PROVE ChatTypeOK' /\ GrantTypeOK'
    BY <2>3 DEF LeaveLease, Futures
  <2>4. CASE ChatAbandon(c)
    <3>1. queue' \in Seq(Work)
      BY <2>4, RemoveQueuedType DEF ChatAbandon
    <3>2. waitingChats' \in Int
      BY <2>4, QueuedInType DEF ChatAbandon
    <3>3. QED
      BY <3>1, <3>2, <2>3, <2>4, <1>0 DEF ChatAbandon, ChatFrame
  <2>5. CASE ChatExit(c)
    BY <2>5, <2>3, <1>0 DEF ChatExit, ChatFrame
  <2>6. CASE ChatFails(c)
    BY <2>6, <2>3, <1>0 DEF ChatFails, ChatFrame
  <2>7. QED
    BY <1>0, <2>1, <2>2, <2>4, <2>5, <2>6
<1>7. QED
  BY <1>1, <1>3, <1>5, <1>6 DEF TypeOK

LEMMA ImageStepType ==
  ASSUME TypeOK, ImageStep
  PROVE  TypeOK'
<1>0. RequestFrame
  BY DEF ImageStep
<1>1. SUFFICES /\ QueueTypeOK' /\ ImageTypeOK'
               /\ cancelled' \in BOOLEAN /\ notified' \in BOOLEAN
  <2>1. GpuTypeOK' /\ OwnerTypeOK' /\ LifeTypeOK'
    BY <1>0 DEF TypeOK, RequestFrame, GpuTypeOK, OwnerTypeOK, LifeTypeOK, gpuVars, ownerVars, lifeVars
  <2>2. ChatTypeOK' /\ GrantTypeOK' /\ SideTypeOK'
    BY <1>0 DEF TypeOK, RequestFrame, ChatTypeOK, GrantTypeOK, SideTypeOK, grantVars, sideVars, promptVars
  <2>3. cancelled' \in BOOLEAN /\ notified' \in BOOLEAN => DispatcherTypeOK'
    BY <1>0 DEF TypeOK, RequestFrame, DispatcherTypeOK
  <2>4. QED
    BY <2>1, <2>2, <2>3 DEF TypeOK
<1>2. waitingChats' = waitingChats
  BY <1>0 DEF RequestFrame
<1>3. ASSUME NEW s \in Seq(Images), NEW v \in {"waiting", "batch"}, ImageEnqueue(s, v)
      PROVE  QueueTypeOK' /\ ImageTypeOK' /\ cancelled' \in BOOLEAN /\ notified' \in BOOLEAN
  <2>1. Elements(s) \subseteq Images
    BY DEF Elements
  <2>2. Cardinality(Elements(s)) \in Nat
    BY <2>1, WorkAssumption, FS_Subset, FS_CardinalityType
  <2>3. ImageTypeOK'
    BY <1>3, AssignType DEF TypeOK, ImageTypeOK, ImageEnqueue, Futures
  <2>4. QueueTypeOK'
    BY <1>2, <1>3, <2>2 DEF TypeOK, QueueTypeOK, ImageEnqueue, Work
  <2>5. QED
    BY <1>3, <2>3, <2>4 DEF TypeOK, DispatcherTypeOK, ImageEnqueue, Notify
<1>4. ASSUME NEW i \in Images, ImageReply(i)
      PROVE  QueueTypeOK' /\ ImageTypeOK' /\ cancelled' \in BOOLEAN /\ notified' \in BOOLEAN
  BY <1>2, <1>4 DEF TypeOK, QueueTypeOK, ImageTypeOK, DispatcherTypeOK, ImageReply, futureVars
<1>5. ASSUME NEW S, ForgetImages(S)
      PROVE  ImageTypeOK'
  BY <1>5, AssignType DEF TypeOK, ImageTypeOK, ForgetImages, Futures
<1>6. ASSUME NEW S \in SUBSET Images, CancelImages(S)
      PROVE  QueueTypeOK' /\ cancelled' \in BOOLEAN /\ notified' \in BOOLEAN
  <2>1. queue' \in Seq(Work)
    BY <1>6, RemoveQueuedType DEF TypeOK, QueueTypeOK, CancelImages
  <2>2. waitingImages' \in Int
    BY <1>6, QueuedInType DEF TypeOK, QueueTypeOK, CancelImages
  <2>3. QED
    BY <1>2, <1>6, <2>1, <2>2 DEF TypeOK, QueueTypeOK, DispatcherTypeOK, CancelImages, Notify
<1>7. ASSUME NEW i \in Images, ImageFinish(i)
      PROVE  QueueTypeOK' /\ ImageTypeOK' /\ cancelled' \in BOOLEAN /\ notified' \in BOOLEAN
  BY <1>2, <1>5, <1>7 DEF TypeOK, QueueTypeOK, DispatcherTypeOK, ImageFinish
<1>8. ASSUME NEW i \in Images, ImageAbandon(i)
      PROVE  QueueTypeOK' /\ ImageTypeOK' /\ cancelled' \in BOOLEAN /\ notified' \in BOOLEAN
  <2>1. CancelImages({i}) /\ ForgetImages({i})
    BY <1>8 DEF ImageAbandon
  <2>2. QED
    BY <2>1, <1>5, <1>6
<1>9. ASSUME NEW b \in Batches, BatchLeave(b)
      PROVE  QueueTypeOK' /\ ImageTypeOK' /\ cancelled' \in BOOLEAN /\ notified' \in BOOLEAN
  <2>1. Elements(b) \subseteq Images
    BY BatchAssumption DEF Elements
  <2> DEFINE S == {i \in Elements(b) : completion[i] = "pending"}
  <2>2. CancelImages(S) /\ ForgetImages(Elements(b))
    BY <1>9, Zenon DEF BatchLeave
  <2>3. S \subseteq Images
    BY <2>1
  <2> HIDE DEF S
  <2>4. QED
    BY <2>2, <2>3, <1>5, <1>6
<1>10. QED
  <2>1. ASSUME NEW i \in Images, ImageEnqueue(<<i>>, "waiting")
        PROVE  QueueTypeOK' /\ ImageTypeOK' /\ cancelled' \in BOOLEAN /\ notified' \in BOOLEAN
    <3>1. <<i>> \in Seq(Images)
      OBVIOUS
    <3>2. QED
      BY <2>1, <3>1, <1>3
  <2>2. ASSUME NEW b \in Batches, ImageEnqueue(b, "batch")
        PROVE  QueueTypeOK' /\ ImageTypeOK' /\ cancelled' \in BOOLEAN /\ notified' \in BOOLEAN
    BY <2>2, <1>3, BatchAssumption
  <2>3. QED
    BY <2>1, <2>2, <1>4, <1>7, <1>8, <1>9 DEF ImageStep

LEMMA SideStepType ==
  ASSUME TypeOK, SideStep
  PROVE  TypeOK'
<1>0. SideFrame
  BY DEF SideStep
<1>1. SUFFICES SideTypeOK' /\ notified' \in BOOLEAN
  <2>1. GpuTypeOK' /\ OwnerTypeOK' /\ LifeTypeOK' /\ QueueTypeOK'
    BY <1>0 DEF TypeOK, SideFrame, GpuTypeOK, OwnerTypeOK, LifeTypeOK, QueueTypeOK, gpuVars, ownerVars,
                lifeVars, queueVars
  <2>2. ChatTypeOK' /\ GrantTypeOK' /\ ImageTypeOK'
    BY <1>0 DEF TypeOK, SideFrame, ChatTypeOK, GrantTypeOK, ImageTypeOK, grantVars, futureVars
  <2>3. notified' \in BOOLEAN => DispatcherTypeOK'
    BY <1>0 DEF TypeOK, SideFrame, DispatcherTypeOK
  <2>4. QED
    BY <2>1, <2>2, <2>3 DEF TypeOK
<1> USE <1>0 DEF TypeOK, SideTypeOK, DispatcherTypeOK, SideFrame, sideVars
<1>2. CASE MetadataBegin
  BY <1>2 DEF MetadataBegin
<1>3. CASE MetadataDone
  BY <1>3 DEF MetadataDone, Notify
<1>4. CASE ControlBegin
  BY <1>4 DEF ControlBegin
<1>5. CASE ControlDone
  BY <1>5 DEF ControlDone, Notify
<1>6. CASE HistoryDelete
  BY <1>6 DEF HistoryDelete
<1>7. CASE HistoryProceed
  BY <1>7 DEF HistoryProceed
<1>8. QED
  BY <1>2, <1>3, <1>4, <1>5, <1>6, <1>7 DEF SideStep, PassiveMetadata, RouterControl

-----------------------------------------------------------------------------
(* The dispatcher's steps.                                                 *)

LEMMA TakeChatType ==
  ASSUME TypeOK, TakeChat
  PROVE  TypeOK'
<1>1. Head(queue) \in Chats /\ queue # <<>>
  BY DEF TakeChat
<1>2. QueueTypeOK'
  BY DEF TakeChat, TypeOK, QueueTypeOK, ServeFrame
<1>3. DispatcherTypeOK' /\ GrantTypeOK' /\ state' \in HandoffStates /\ owner' \in Owners
  <2>1. CASE Serial
    BY <2>1, <1>1 DEF TakeChat, grantVars, TypeOK, DispatcherTypeOK, GrantTypeOK, OwnerTypeOK, ChatPCs,
       ImagePCs, IdlePCs, RestoreCalls, ActivateCalls
  <2>2. CASE ~Serial
    BY <2>2, <1>1, PrepareType DEF TakeChat, TypeOK, OwnerTypeOK
  <2>3. QED
    BY <2>1, <2>2
<1>4. GpuTypeOK' /\ OwnerTypeOK' /\ LifeTypeOK'
  BY <1>3 DEF TakeChat, ServeFrame, TypeOK, GpuTypeOK, OwnerTypeOK, LifeTypeOK, gpuVars, lifeVars
<1>5. ChatTypeOK' /\ ImageTypeOK' /\ SideTypeOK'
  BY DEF TakeChat, ServeFrame, TypeOK, ChatTypeOK, ImageTypeOK, SideTypeOK, futureVars, sideVars,
     promptVars
<1>6. QED
  BY <1>2, <1>3, <1>4, <1>5 DEF TypeOK

\* The LLM owns the GPU again, and the chat gets its lease.
LEMMA RestoredType ==
  ASSUME TypeOK, current \in Chats, NEW p \in RestorePoints, Restored(p)
  PROVE  DispatcherTypeOK' /\ GrantTypeOK' /\ OwnerTypeOK'
<1>1. DispatcherTypeOK' /\ GrantTypeOK' /\ state' \in HandoffStates
  BY GrantType DEF Restored, TypeOK, HandoffStates
<1>2. QED
  BY <1>1 DEF Restored, OwnerTypeOK, Owners

LEMMA RestoreStepType ==
  ASSUME TypeOK, RestoreStep
  PROVE  TypeOK'
<1>0. RestoreFrame
  BY DEF RestoreStep
<1>1. SUFFICES GpuTypeOK' /\ DispatcherTypeOK' /\ GrantTypeOK' /\ OwnerTypeOK' /\ validated' \in BOOLEAN
  <2>1. QueueTypeOK' /\ ChatTypeOK' /\ ImageTypeOK' /\ SideTypeOK'
    BY <1>0 DEF RestoreFrame, ServeFrame, TypeOK, QueueTypeOK, ChatTypeOK, ImageTypeOK, SideTypeOK,
                futureVars, sideVars, promptVars
  <2>2. validated' \in BOOLEAN => LifeTypeOK'
    BY <1>0 DEF RestoreFrame, ServeFrame, TypeOK, LifeTypeOK, lifeVars
  <2>3. QED
    BY <2>1, <2>2 DEF TypeOK
<1>p. /\ {"chatDrain", "controlDrain", "cleanup", "restoreValidate", "restoreRelease",
          "restoreObserve", "acquire"} \subseteq ChatPCs
      /\ RestoreCall \in ChatPCs
  BY DEF ChatPCs, RestoreCalls, RestoreCall
<1>c. pc \in ChatPCs => current \in Chats
  BY DEF TypeOK, DispatcherTypeOK
<1>g. UNCHANGED gpuVars => GpuTypeOK'
  BY DEF TypeOK, GpuTypeOK, gpuVars
<1>o. UNCHANGED <<owner, recoverable, restorePoint>> /\ state' \in HandoffStates => OwnerTypeOK'
  BY DEF TypeOK, OwnerTypeOK
<1>v. UNCHANGED validated => validated' \in BOOLEAN
  BY DEF TypeOK, LifeTypeOK
<1>r. UNCHANGED grantVars => GrantTypeOK'
  BY DEF TypeOK, GrantTypeOK, grantVars
<1>2. CASE ChatDrained
  <2>1. /\ UNCHANGED <<gpuVars, recoverable, restorePoint, validated>>
        /\ \/ NextWork /\ UNCHANGED <<grantVars, owner, state>>
           \/ PrepareChat(current, "draining_llm")
        /\ current \in Chats
    BY <1>2, <1>p, <1>c DEF ChatDrained, Awake, At
  <2>2. CASE NextWork /\ UNCHANGED <<grantVars, owner, state>>
    BY <2>1, <2>2, <1>g, <1>o, <1>v, <1>r, NextWorkType DEF TypeOK, OwnerTypeOK
  <2>3. CASE PrepareChat(current, "draining_llm")
    <3>1. DispatcherTypeOK' /\ GrantTypeOK' /\ state' \in HandoffStates /\ owner' \in Owners
      BY <2>1, <2>3, PrepareType DEF HandoffStates
    <3>2. QED
      BY <2>1, <3>1, <1>g, <1>v DEF TypeOK, OwnerTypeOK
  <2>4. QED
    BY <2>1, <2>2, <2>3
<1>3. CASE ControlsDrained
  BY <1>3, <1>p, <1>g, <1>o, <1>v, <1>r, GoToType DEF ControlsDrained, Awake, At, TypeOK, OwnerTypeOK,
     ownerVars
<1>4. CASE CleanupReturns
  <2>1. DispatcherTypeOK'
    BY <1>4, <1>p, GoToType DEF CleanupReturns, At, TypeOK
  <2>2. GpuTypeOK'
    BY <1>4, FreeType DEF CleanupReturns, TypeOK, GpuTypeOK, llmVars
  <2>3. QED
    BY <1>4, <2>1, <2>2, <1>v, <1>r DEF CleanupReturns, TypeOK, OwnerTypeOK, Owners
<1>5. CASE RestoreValidated
  <2>1. DispatcherTypeOK'
    BY <1>5, <1>p, GoToType DEF RestoreValidated, At, TypeOK
  <2>2. state' \in HandoffStates
    BY <1>5 DEF RestoreValidated, TypeOK, OwnerTypeOK, HandoffStates
  <2>3. QED
    BY <1>5, <2>1, <2>2, <1>g, <1>o, <1>r DEF RestoreValidated
<1>6. CASE RestoreReleased
  <2>1. DispatcherTypeOK'
    BY <1>6, <1>p, GoToType DEF RestoreReleased, At, TypeOK
  <2>2. GpuTypeOK'
    BY <1>6, ReleaseType DEF RestoreReleased, TypeOK, GpuTypeOK, comfyVars
  <2>3. QED
    BY <1>6, <2>1, <2>2, <1>o, <1>v, <1>r DEF RestoreReleased, ownerVars, TypeOK, OwnerTypeOK
<1>7. CASE RestoreObserved
  <2>1. PICK p \in RestorePoints :
          /\ UNCHANGED llmVars
          /\ \/ Restored(p)
             \/ /\ GoTo("acquire") /\ state' = "reloading_llm"
                /\ UNCHANGED <<owner, recoverable, restorePoint, grantVars>>
    <3>1. PICK p \in RestorePoints :
            /\ ObserveOk(p)
            /\ IF p # None
                 THEN Restored(p)
                 ELSE /\ GoTo("acquire") /\ state' = "reloading_llm"
                      /\ UNCHANGED <<owner, recoverable, restorePoint, grantVars>>
      BY <1>7, Zenon DEF RestoreObserved
    <3>2. UNCHANGED llmVars
      BY <3>1 DEF ObserveOk
    <3>3. QED
      BY <3>1, <3>2, Zenon
  <2>2. current \in Chats /\ pc \in ChatPCs
    BY <1>7, <1>p, <1>c DEF RestoreObserved, At
  <2>3. GpuTypeOK' /\ validated' \in BOOLEAN
    BY <1>7, <2>1, <1>g, <1>v DEF RestoreObserved, gpuVars, llmVars, comfyVars
  <2>4. CASE Restored(p)
    BY <2>2, <2>3, <2>4, RestoredType, Zenon
  <2>5. CASE /\ GoTo("acquire") /\ state' = "reloading_llm"
             /\ UNCHANGED <<owner, recoverable, restorePoint, grantVars>>
    <3>1. DispatcherTypeOK'
      BY <2>2, <2>5, <1>p, GoToType DEF TypeOK
    <3>2. QED
      BY <2>3, <2>5, <3>1, <1>o, <1>r DEF HandoffStates
  <2>6. QED
    BY <2>1, <2>4, <2>5
<1>8. CASE RestoreAcquired
  <2>1. PICK p \in RestorePoints : AcquireOk(AcquireTarget, p) /\ Restored(p)
    BY <1>8 DEF RestoreAcquired
  <2>2. GpuTypeOK'
    BY <1>8, <2>1, AcquireType DEF RestoreAcquired, TypeOK, GpuTypeOK, comfyVars
  <2>3. current \in Chats
    BY <1>8, <1>p, <1>c DEF RestoreAcquired, At
  <2>4. QED
    BY <1>8, <2>1, <2>2, <2>3, <1>v, RestoredType DEF RestoreAcquired
<1>9. CASE RestoreFails
  <2>1. GpuTypeOK'
    BY <1>9, <1>g, FreeType, ReleaseType, AcquireType
       DEF RestoreFails, TypeOK, GpuTypeOK, comfyVars, llmVars
  <2>2. DispatcherTypeOK'
    BY <1>9, NextWorkType DEF RestoreFails
  <2>3. GrantTypeOK'
    BY <1>9, SettleType DEF RestoreFails, TypeOK, GrantTypeOK, Futures
  <2>4. OwnerTypeOK' /\ validated' \in BOOLEAN
    BY <1>9, <1>v DEF RestoreFails, TypeOK, OwnerTypeOK, HandoffStates
  <2>5. QED
    BY <2>1, <2>2, <2>3, <2>4
<1>10. QED
  BY <1>2, <1>3, <1>4, <1>5, <1>6, <1>7, <1>8, <1>9 DEF RestoreStep

LEMMA TakeImageType ==
  ASSUME TypeOK, TakeImage
  PROVE  TypeOK'
<1>1. Head(queue) \in Images /\ queue # <<>>
  BY DEF TakeImage
<1>2. QueueTypeOK'
  BY DEF TakeImage, TypeOK, QueueTypeOK, PopFrame
<1>3. pc' \in {"submit", "imageDrain"} /\ state' \in {"image_active", "draining_llm"}
  BY DEF TakeImage
<1>4. DispatcherTypeOK'
  BY <1>1, <1>3 DEF TakeImage, TypeOK, DispatcherTypeOK, ChatPCs, ImagePCs, IdlePCs, RestoreCalls,
                    ActivateCalls
<1>5. GpuTypeOK'
  <2>1. comfyClean' = FALSE \/ comfyClean' = comfyClean
    BY Zenon DEF TakeImage, Occupy
  <2>2. QED
    BY <2>1 DEF TakeImage, TypeOK, GpuTypeOK, llmVars
<1>6. OwnerTypeOK' /\ LifeTypeOK'
  BY <1>3 DEF TakeImage, PopFrame, TypeOK, OwnerTypeOK, HandoffStates, LifeTypeOK, lifeVars
<1>7. ChatTypeOK' /\ GrantTypeOK' /\ ImageTypeOK' /\ SideTypeOK'
  BY DEF TakeImage, PopFrame, TypeOK, ChatTypeOK, GrantTypeOK, ImageTypeOK, SideTypeOK, grantVars,
     futureVars, sideVars, promptVars
<1>8. QED
  BY <1>2, <1>4, <1>5, <1>6, <1>7 DEF TypeOK

\* What an image's turn sets, whatever it ends in.
ServeTypeOK == GpuTypeOK /\ DispatcherTypeOK /\ OwnerTypeOK /\ ImageTypeOK /\ SideTypeOK

LEMMA EndImageType ==
  ASSUME SideTypeOK, EndImage, UNCHANGED sideVars
  PROVE  DispatcherTypeOK' /\ SideTypeOK'
BY NextWorkType DEF EndImage, SideTypeOK, sideVars

LEMMA StartImageType ==
  ASSUME TypeOK, pc \in ImagePCs, StartImage, UNCHANGED <<sideVars, image>>,
         restorePoint' \in RestorePoints, llm' \in Models \cup {None}, late' \in BOOLEAN
  PROVE  ServeTypeOK'
<1>1. CASE cancelled
  <2>1. DispatcherTypeOK' /\ SideTypeOK'
    BY <1>1, EndImageType DEF StartImage, TypeOK
  <2>2. ImageTypeOK'
    BY <1>1, SettleType DEF StartImage, ResolveImageError, TypeOK, ImageTypeOK, Futures
  <2>3. GpuTypeOK'
    BY <1>1 DEF StartImage, TypeOK, GpuTypeOK, comfyVars
  <2>4. OwnerTypeOK'
    BY <1>1 DEF StartImage, OwnerTypeOK, Owners, HandoffStates
  <2>5. QED
    BY <2>1, <2>2, <2>3, <2>4 DEF ServeTypeOK
<1>2. CASE ~cancelled
  <2>1. DispatcherTypeOK'
    BY <1>2, GoToType DEF StartImage, TypeOK, ImagePCs
  <2>2. ImageTypeOK' /\ SideTypeOK'
    BY <1>2 DEF StartImage, TypeOK, ImageTypeOK, SideTypeOK, futureVars, promptVars, sideVars
  <2>3. GpuTypeOK'
    BY <1>2 DEF StartImage, Occupy, TypeOK, GpuTypeOK
  <2>4. OwnerTypeOK'
    BY <1>2 DEF StartImage, OwnerTypeOK, Owners, HandoffStates
  <2>5. QED
    BY <2>1, <2>2, <2>3, <2>4 DEF ServeTypeOK
<1>3. QED
  BY <1>1, <1>2 DEF TypeOK, DispatcherTypeOK

LEMMA BeginReleaseType ==
  ASSUME TypeOK, pc \in ImagePCs, BeginRelease, restorePoint' \in RestorePoints,
         recoverable' \in BOOLEAN
  PROVE  DispatcherTypeOK' /\ OwnerTypeOK'
BY GoToType DEF BeginRelease, TypeOK, OwnerTypeOK, Owners, HandoffStates, ImagePCs, ActivateCalls

LEMMA ServeImageStepType ==
  ASSUME TypeOK, ServeImageStep
  PROVE  TypeOK'
<1>0. ImageFrame
  BY DEF ServeImageStep
<1>1. SUFFICES ServeTypeOK' /\ validated' \in BOOLEAN
  <2>1. QueueTypeOK' /\ ChatTypeOK' /\ GrantTypeOK'
    BY <1>0 DEF ImageFrame, PopFrame, TypeOK, QueueTypeOK, ChatTypeOK, GrantTypeOK, grantVars
  <2>2. validated' \in BOOLEAN => LifeTypeOK'
    BY <1>0 DEF ImageFrame, PopFrame, TypeOK, LifeTypeOK, lifeVars
  <2>3. QED
    BY <2>1, <2>2 DEF TypeOK, ServeTypeOK
<1>p. {"imageDrain", "imageValidate", "imageAcquire", "imageObserve", "release", "submit",
       "prompt"} \subseteq ImagePCs
  BY DEF ImagePCs, ActivateCalls
<1>c. pc \in ImagePCs => current \in Images
  BY DEF TypeOK, DispatcherTypeOK
<1>f. UNCHANGED sideVars /\ UNCHANGED image
  BY <1>0 DEF ImageFrame, PopFrame
<1>g. UNCHANGED gpuVars => GpuTypeOK'
  BY DEF TypeOK, GpuTypeOK, gpuVars
<1>i. UNCHANGED futureVars => ImageTypeOK'
  BY <1>f DEF TypeOK, ImageTypeOK, futureVars
<1>s. UNCHANGED promptVars => SideTypeOK'
  BY <1>f DEF TypeOK, SideTypeOK, promptVars, sideVars
<1>v. validated \in BOOLEAN /\ restorePoint \in RestorePoints /\ recoverable \in BOOLEAN
  BY DEF TypeOK, LifeTypeOK, OwnerTypeOK
<1>l. UNCHANGED llmVars => llm' \in Models \cup {None} /\ late' \in BOOLEAN
  BY DEF TypeOK, GpuTypeOK, llmVars
<1>2. CASE ImageDrained
  <2>1. pc \in ImagePCs /\ UNCHANGED <<llmVars, restorePoint, validated>>
    BY <1>2, <1>p DEF ImageDrained, Awake, At
  <2>2. CASE /\ state' = IF owner = "llm" THEN "llm_ready" ELSE "awaiting_request"
             /\ ResolveImageError /\ EndImage
             /\ UNCHANGED <<comfyVars, owner, recoverable>>
    <3>1. GpuTypeOK'
      BY <2>1, <2>2, <1>g DEF gpuVars, llmVars, comfyVars
    <3>2. ImageTypeOK'
      BY <2>2, <1>f, SettleType DEF ResolveImageError, TypeOK, ImageTypeOK, Futures
    <3>3. OwnerTypeOK'
      BY <2>1, <2>2 DEF TypeOK, OwnerTypeOK, HandoffStates
    <3>4. QED
      BY <2>1, <2>2, <3>1, <3>2, <3>3, <1>f, <1>v, EndImageType DEF ServeTypeOK, TypeOK
  <2>3. CASE /\ GoTo("imageValidate")
             /\ UNCHANGED <<comfyVars, futureVars, promptVars, owner, state, recoverable>>
    <3>1. GpuTypeOK' /\ OwnerTypeOK'
      BY <2>1, <2>3, <1>g DEF gpuVars, llmVars, comfyVars, TypeOK, OwnerTypeOK
    <3>2. DispatcherTypeOK'
      BY <2>1, <2>3, <1>p, GoToType DEF TypeOK
    <3>3. QED
      BY <2>1, <2>3, <3>1, <3>2, <1>i, <1>s, <1>v DEF ServeTypeOK
  <2>4. CASE /\ BeginRelease
             /\ UNCHANGED <<comfyVars, futureVars, promptVars, recoverable>>
    <3>1. GpuTypeOK'
      BY <2>1, <2>4, <1>g DEF gpuVars, llmVars, comfyVars
    <3>2. QED
      BY <2>1, <2>4, <3>1, <1>i, <1>s, <1>v, BeginReleaseType DEF ServeTypeOK
  <2>5. CASE StartImage
    BY <2>1, <2>5, <1>f, <1>v, <1>l, StartImageType
  <2>6. QED
    BY <1>2, <2>2, <2>3, <2>4, <2>5, Zenon DEF ImageDrained
<1>3. CASE ImageValidated
  <2>1. /\ pc \in ImagePCs /\ validated' = TRUE
        /\ UNCHANGED <<gpuVars, futureVars, promptVars, recoverable, restorePoint>>
    BY <1>3, <1>p DEF ImageValidated, At
  <2>2. DispatcherTypeOK' /\ OwnerTypeOK'
    <3>1. CASE BeginRelease
      BY <2>1, <3>1, <1>v, BeginReleaseType
    <3>2. CASE ~BeginRelease
      <4>1. /\ GoTo("imageAcquire") \/ GoTo("imageObserve")
            /\ UNCHANGED <<owner, state>>
        BY <1>3, <3>2 DEF ImageValidated
      <4>2. QED
        BY <2>1, <4>1, <1>p, GoToType DEF TypeOK, OwnerTypeOK
    <3>3. QED
      BY <3>1, <3>2
  <2>3. QED
    BY <2>1, <2>2, <1>g, <1>i, <1>s DEF ServeTypeOK
<1>4. CASE ImageAcquired
  <2>1. PICK p \in RestorePoints : AcquireOk(None, p) /\ restorePoint' = p
    BY <1>4 DEF ImageAcquired
  <2>2. pc \in ImagePCs /\ UNCHANGED <<comfyVars, futureVars, promptVars, recoverable, validated>>
    BY <1>4, <1>p DEF ImageAcquired, At
  <2>3. GpuTypeOK'
    BY <2>1, <2>2, AcquireType DEF TypeOK, GpuTypeOK, comfyVars
  <2>4. QED
    BY <1>4, <2>1, <2>2, <2>3, <1>i, <1>s, <1>v, BeginReleaseType DEF ImageAcquired, ServeTypeOK
<1>5. CASE ImageObserved
  <2>1. PICK p \in RestorePoints :
          /\ ObserveOk(p)
          /\ IF p # None
               THEN /\ restorePoint' = p /\ BeginRelease
                    /\ UNCHANGED <<comfyVars, recoverable, futureVars, promptVars>>
               ELSE StartImage /\ UNCHANGED restorePoint
    BY <1>5, Zenon DEF ImageObserved
  <2>2. pc \in ImagePCs /\ UNCHANGED validated
    BY <1>5, <1>p DEF ImageObserved, At
  <2>3. UNCHANGED llmVars
    BY <2>1 DEF ObserveOk
  <2>4. CASE p = None
    BY <2>1, <2>2, <2>3, <2>4, <1>f, <1>v, <1>l, StartImageType
  <2>5. CASE p # None
    <3>1. GpuTypeOK'
      BY <2>1, <2>3, <2>5, <1>g DEF gpuVars, llmVars, comfyVars
    <3>2. QED
      BY <2>1, <2>2, <2>5, <3>1, <1>i, <1>s, <1>v, BeginReleaseType DEF ServeTypeOK
  <2>6. QED
    BY <2>4, <2>5
<1>y. SyncedPoint \in RestorePoints
  BY DEF SyncedPoint, RestorePoints, TypeOK, OwnerTypeOK, GpuTypeOK
<1>6. CASE ImageReleased
  <2>1. pc \in ImagePCs /\ UNCHANGED validated /\ restorePoint' \in RestorePoints
    BY <1>6, <1>p, <1>y DEF ImageReleased, At
  <2>2. llm' \in Models \cup {None} /\ late' \in BOOLEAN
    BY <1>6, ReleaseType DEF ImageReleased, TypeOK
  <2>3. QED
    BY <1>6, <2>1, <2>2, <1>f, <1>v, StartImageType DEF ImageReleased
<1>7. CASE SubmitAccepted
  <2>1. pc \in ImagePCs /\ current \in Images
    BY <1>7, <1>p, <1>c DEF SubmitAccepted, At
  <2>2. GpuTypeOK' /\ OwnerTypeOK' /\ validated' \in BOOLEAN
    BY <1>7, <2>1, <1>v DEF SubmitAccepted, TypeOK, GpuTypeOK, OwnerTypeOK, llmVars, ownerVars
  <2>3. DispatcherTypeOK'
    BY <1>7, <2>1, <1>p, GoToType DEF SubmitAccepted, TypeOK
  <2>4. ImageTypeOK'
    BY <1>7, <1>f, SettleType DEF SubmitAccepted, TypeOK, ImageTypeOK, Futures
  <2>5. SideTypeOK'
    BY <1>7, <2>1, <1>f DEF SubmitAccepted, TypeOK, SideTypeOK, sideVars
  <2>6. QED
    BY <2>2, <2>3, <2>4, <2>5 DEF ServeTypeOK
<1>8. CASE PromptSucceeds
  <2>1. GpuTypeOK' /\ validated' \in BOOLEAN
    BY <1>8, <1>g, <1>v DEF PromptSucceeds
  <2>2. OwnerTypeOK'
    BY <1>8 DEF PromptSucceeds, TypeOK, OwnerTypeOK, HandoffStates
  <2>3. ImageTypeOK'
    BY <1>8, <1>f, SettleType DEF PromptSucceeds, TypeOK, ImageTypeOK, Futures
  <2>4. QED
    BY <1>8, <2>1, <2>2, <2>3, <1>f, EndImageType DEF PromptSucceeds, ServeTypeOK, TypeOK
<1>9. CASE ImageFails
  <2>1. GpuTypeOK' /\ restorePoint' \in RestorePoints /\ submitted' \in [Images -> Futures]
    <3>1. CASE ActivationFails
      <4>1. llm' \in Models \cup {None} /\ late' \in BOOLEAN /\ UNCHANGED comfyVars
        BY <3>1, ReleaseType, AcquireType DEF ActivationFails, llmVars, TypeOK, GpuTypeOK
      <4>2. restorePoint' \in RestorePoints
        BY <3>1, <1>v, <1>y DEF ActivationFails
      <4>3. QED
        BY <3>1, <4>1, <4>2, SettleType DEF ActivationFails, TypeOK, GpuTypeOK, ImageTypeOK, comfyVars,
                                            Futures
    <3>2. CASE SubmitFails
      <4>1. current \in Images
        BY <3>2, <1>p, <1>c DEF SubmitFails, At
      <4>2. GpuTypeOK' /\ restorePoint' \in RestorePoints
        BY <3>2, <4>1, <1>v DEF SubmitFails, TypeOK, GpuTypeOK, llmVars
      <4>3. QED
        BY <3>2, <4>2, SettleType DEF SubmitFails, TypeOK, ImageTypeOK, Futures
    <3>3. CASE PromptFails
      BY <3>3, <1>v DEF PromptFails, InterruptPrompt, TypeOK, GpuTypeOK, ImageTypeOK, llmVars, comfyVars
    <3>4. QED
      BY <1>9, <3>1, <3>2, <3>3 DEF ImageFails
  <2>2. recoverable' \in BOOLEAN
    BY <1>9, Zenon DEF ImageFails
  <2>3. state' \in HandoffStates /\ owner' \in Owners
    BY <1>9 DEF ImageFails, HandoffStates, TypeOK, OwnerTypeOK, Owners
  <2>4. ImageTypeOK'
    BY <1>9, <2>1, <1>f, SettleType DEF ImageFails, TypeOK, ImageTypeOK, Futures
  <2>5. QED
    BY <1>9, <2>1, <2>2, <2>3, <2>4, <1>f, <1>v, EndImageType
       DEF ImageFails, ServeTypeOK, OwnerTypeOK, TypeOK
<1>10. QED
  BY <1>2, <1>3, <1>4, <1>5, <1>6, <1>7, <1>8, <1>9 DEF ServeImageStep

-----------------------------------------------------------------------------
(* The remaining steps.                                                    *)

LEMMA InitializeType ==
  ASSUME TypeOK, Initialize
  PROVE  TypeOK'
<1>0. BootFrame /\ pc = "boot"
  BY DEF Initialize
<1>1. pc' \in {"next", "dead"} /\ state' \in {"awaiting_request", "llm_ready", "error"}
  BY DEF Initialize
<1>2. DispatcherTypeOK'
  BY <1>0, <1>1 DEF BootFrame, TypeOK, DispatcherTypeOK, ChatPCs, ImagePCs, IdlePCs, RestoreCalls,
                    ActivateCalls
<1>3. comfyClean' \in BOOLEAN
  <2>1. UNCHANGED comfyClean \/ FreeOk \/ comfyClean' \in BOOLEAN
    BY DEF Initialize
  <2>2. QED
    BY <2>1, FreeType DEF TypeOK, GpuTypeOK
<1>4. GpuTypeOK'
  BY <1>0, <1>3 DEF BootFrame, TypeOK, GpuTypeOK, llmVars
<1>5. /\ owner' \in {owner, "llm"} /\ restorePoint' \in {restorePoint, llm}
  BY DEF Initialize
<1>6. OwnerTypeOK'
  BY <1>0, <1>1, <1>5 DEF BootFrame, TypeOK, OwnerTypeOK, Owners, HandoffStates, GpuTypeOK, RestorePoints
<1>7. fatal' \in BOOLEAN /\ validated' \in BOOLEAN
  <2>1. \/ UNCHANGED <<fatal, validated>>
        \/ validated' = TRUE /\ UNCHANGED fatal
        \/ fatal' = TRUE /\ validated' \in BOOLEAN
    BY Zenon DEF Initialize
  <2>2. QED
    BY <2>1 DEF TypeOK, LifeTypeOK
<1>8. QueueTypeOK' /\ ChatTypeOK' /\ GrantTypeOK' /\ ImageTypeOK' /\ SideTypeOK' /\ LifeTypeOK'
  BY <1>0, <1>7 DEF BootFrame, TypeOK, QueueTypeOK, ChatTypeOK, GrantTypeOK, ImageTypeOK, SideTypeOK,
     LifeTypeOK, queueVars, grantVars, futureVars, sideVars, promptVars
<1>9. QED
  BY <1>2, <1>4, <1>6, <1>8 DEF TypeOK

LEMMA CloseType ==
  ASSUME TypeOK, Close
  PROVE  TypeOK'
<1>1. GpuTypeOK' /\ DispatcherTypeOK'
  BY DEF Close, TypeOK, GpuTypeOK, DispatcherTypeOK, gpuVars, Notify
<1>2. OwnerTypeOK'
  BY DEF Close, TypeOK, OwnerTypeOK, HandoffStates
<1>3. waitingChats' \in Int /\ waitingImages' \in Int
  BY QueuedInType DEF Close, TypeOK, QueueTypeOK
<1>4. QueueTypeOK'
  BY <1>3 DEF Close, QueueTypeOK
<1>5. ready' \in [Chats -> Futures] /\ ImageTypeOK'
  BY SettleType DEF Close, TypeOK, GrantTypeOK, ImageTypeOK, Futures
<1>6. ChatTypeOK' /\ GrantTypeOK' /\ SideTypeOK' /\ LifeTypeOK'
  BY <1>5 DEF Close, TypeOK, ChatTypeOK, GrantTypeOK, SideTypeOK, LifeTypeOK, sideVars, promptVars
<1>7. QED
  BY <1>1, <1>2, <1>4, <1>5, <1>6 DEF TypeOK

LEMMA ShutdownType ==
  ASSUME TypeOK, Shutdown
  PROVE  TypeOK'
<1>0. StopFrame
  BY DEF Shutdown
<1>1. OwnerTypeOK' /\ QueueTypeOK' /\ ChatTypeOK' /\ LifeTypeOK'
  BY <1>0 DEF StopFrame, TypeOK, OwnerTypeOK, QueueTypeOK, ChatTypeOK, LifeTypeOK, ownerVars, queueVars,
     lifeVars
<1>2. pc = "submit" \/ pc = "interrupt" => current \in Images
  BY DEF TypeOK, DispatcherTypeOK, ImagePCs
<1>3. late' \in BOOLEAN /\ running' \subseteq Images
  <2>1. CASE DispatcherCancelled
    <3>1. late' \in BOOLEAN
      BY <2>1, Zenon DEF DispatcherCancelled, TypeOK, GpuTypeOK
    <3>2. running' \subseteq Images
      BY <2>1, <1>2 DEF DispatcherCancelled, TypeOK, GpuTypeOK
    <3>3. QED
      BY <3>1, <3>2
  <2>2. CASE PromptCancelled
    BY <2>2 DEF PromptCancelled, TypeOK, GpuTypeOK
  <2>3. CASE InterruptReturns
    BY <2>3 DEF InterruptReturns, InterruptPrompt, TypeOK, GpuTypeOK
  <2>4. QED
    BY <2>1, <2>2, <2>3 DEF Shutdown
<1>4. GpuTypeOK'
  BY <1>0, <1>3 DEF StopFrame, TypeOK, GpuTypeOK
<1>5. CASE StopDispatcher
  <2>1. DispatcherTypeOK'
    BY <1>5 DEF StopDispatcher, DispatcherTypeOK, ChatPCs, ImagePCs, IdlePCs, RestoreCalls, ActivateCalls
  <2>2. GrantTypeOK'
    BY <1>0, <1>5, SettleType DEF StopFrame, StopDispatcher, TypeOK, GrantTypeOK, Futures
  <2>3. ImageTypeOK'
    BY <1>0, <1>5, SettleType DEF StopFrame, StopDispatcher, ResolveImageError, TypeOK, ImageTypeOK,
       Futures
  <2>4. SideTypeOK'
    BY <1>0, <1>5 DEF StopFrame, StopDispatcher, TypeOK, SideTypeOK, sideVars
  <2>5. QED
    BY <1>1, <1>4, <2>1, <2>2, <2>3, <2>4 DEF TypeOK
<1>6. CASE PromptCancelled
  <2>1. DispatcherTypeOK'
    BY <1>6, GoToType DEF PromptCancelled, TypeOK, ImagePCs
  <2>2. GrantTypeOK' /\ ImageTypeOK' /\ SideTypeOK'
    BY <1>0, <1>6 DEF StopFrame, PromptCancelled, TypeOK, GrantTypeOK, ImageTypeOK, SideTypeOK,
       futureVars, promptVars, sideVars
  <2>3. QED
    BY <1>1, <1>4, <2>1, <2>2 DEF TypeOK
<1>7. QED
  BY <1>5, <1>6 DEF Shutdown, DispatcherCancelled, InterruptReturns

LEMMA EnvironmentType ==
  ASSUME TypeOK, Environment
  PROVE  TypeOK'
<1>1. GpuTypeOK'
  <2>1. CASE NativeLoad
    BY <2>1 DEF NativeLoad, TypeOK, GpuTypeOK, comfyVars
  <2>2. CASE LateLoad
    BY <2>2 DEF LateLoad, TypeOK, GpuTypeOK, comfyVars
  <2>3. CASE PromptFinishes
    BY <2>3 DEF PromptFinishes, TypeOK, GpuTypeOK
  <2>4. QED
    BY <2>1, <2>2, <2>3 DEF Environment
<1>2. DispatcherTypeOK' /\ OwnerTypeOK' /\ QueueTypeOK' /\ LifeTypeOK'
  BY DEF Environment, TypeOK, DispatcherTypeOK, OwnerTypeOK, QueueTypeOK, LifeTypeOK, dispatcherVars,
     ownerVars, queueVars, lifeVars
<1>3. ChatTypeOK' /\ GrantTypeOK' /\ ImageTypeOK' /\ SideTypeOK'
  BY DEF Environment, TypeOK, ChatTypeOK, GrantTypeOK, ImageTypeOK, SideTypeOK, grantVars, futureVars,
     sideVars, promptVars
<1>4. QED
  BY <1>1, <1>2, <1>3 DEF TypeOK

LEMMA WaitsType ==
  ASSUME TypeOK, DispatcherWaits
  PROVE  TypeOK'
<1>1. GpuTypeOK' /\ DispatcherTypeOK' /\ OwnerTypeOK' /\ QueueTypeOK' /\ LifeTypeOK'
  BY DEF DispatcherWaits, TypeOK, GpuTypeOK, DispatcherTypeOK, OwnerTypeOK, QueueTypeOK, LifeTypeOK,
     gpuVars, ownerVars, queueVars, lifeVars
<1>2. ChatTypeOK' /\ GrantTypeOK' /\ ImageTypeOK' /\ SideTypeOK'
  BY DEF DispatcherWaits, TypeOK, ChatTypeOK, GrantTypeOK, ImageTypeOK, SideTypeOK, grantVars,
     futureVars, sideVars, promptVars
<1>3. QED
  BY <1>1, <1>2 DEF TypeOK

LEMMA StutterType ==
  ASSUME TypeOK, UNCHANGED vars
  PROVE  TypeOK'
<1>1. GpuTypeOK' /\ DispatcherTypeOK' /\ OwnerTypeOK' /\ QueueTypeOK' /\ LifeTypeOK'
  BY DEF vars, TypeOK, GpuTypeOK, DispatcherTypeOK, OwnerTypeOK, QueueTypeOK, LifeTypeOK, gpuVars,
     dispatcherVars, ownerVars, queueVars, lifeVars
<1>2. ChatTypeOK' /\ GrantTypeOK' /\ ImageTypeOK' /\ SideTypeOK'
  BY DEF vars, TypeOK, ChatTypeOK, GrantTypeOK, ImageTypeOK, SideTypeOK, grantVars, futureVars, sideVars,
     promptVars
<1>3. QED
  BY <1>1, <1>2 DEF TypeOK

\* Type correctness: in particular, wherever the dispatcher is suspended, the
\* work in its hands is of the kind that suspension belongs to, and the leases
\* of metadata reads and ComfyUI controls are never given back twice.
THEOREM TypeCorrect == Spec => []TypeOK
<1>1. Init => TypeOK
  BY InitType
<1>2. TypeOK /\ [Next]_vars => TypeOK'
  <2> SUFFICES ASSUME TypeOK, [Next]_vars PROVE TypeOK'
    OBVIOUS
  <2>1. CASE Initialize
    BY <2>1, InitializeType
  <2>2. CASE \E c \in Chats : ChatStep(c)
    BY <2>2, ChatStepType
  <2>3. CASE ImageStep
    BY <2>3, ImageStepType
  <2>4. CASE SideStep
    BY <2>4, SideStepType
  <2>5. CASE Dispatcher
    BY <2>5, WaitsType, TakeChatType, RestoreStepType, TakeImageType, ServeImageStepType, ShutdownType
       DEF Dispatcher
  <2>6. CASE Close
    BY <2>6, CloseType
  <2>7. CASE Environment
    BY <2>7, EnvironmentType
  <2>8. CASE UNCHANGED vars
    BY <2>8, StutterType
  <2>9. QED
    BY <2>1, <2>2, <2>3, <2>4, <2>5, <2>6, <2>7, <2>8 DEF Next, Stopped
<1>3. QED
  BY <1>1, <1>2, PTL DEF Spec
=============================================================================
