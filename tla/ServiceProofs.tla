--------------------------- MODULE ServiceProofs ----------------------------
(* The service implements the coordinator's specification, so that what is *)
(* proved of the coordinator holds under it; and the lease outlives the    *)
(* LLM server's work.                                                      *)
EXTENDS ServiceProps, CoordinatorSafety

-----------------------------------------------------------------------------
(* Refinement.                                                             *)

LEMMA ServeChatStep ==
  ASSUME NEW c \in Chats, ServeChat(c)
  PROVE  ChatStep(c)
<1>0. ChatFrame
  BY DEF ServeChat
<1>1. CASE ChatArrives(c)
  BY <1>0, <1>1 DEF ChatArrives, ChatStep
<1>2. CASE LeaveQueue(c)
  BY <1>0, <1>2 DEF LeaveQueue, ChatStep
<1>3. CASE EnterLease(c)
  BY <1>0, <1>3 DEF EnterLease, ChatStep
<1>4. CASE RejectBody(c)
  BY <1>0, <1>4 DEF RejectBody, ChatStep
<1>5. CASE RelayEnds(c)
  BY <1>0, <1>5 DEF RelayEnds, Fail, ChatStep
<1>6. QED
  BY <1>1, <1>2, <1>3, <1>4, <1>5 DEF ServeChat

LEMMA ServeImageImages ==
  ASSUME ServeImage
  PROVE  ImageStep
BY DEF ServeImage, ImageArrives, ImageReturns, ImageLeaves, ImageStep

\* Every step of the service is one of the coordinator, or none.
LEMMA StepImplements ==
  ASSUME [ServiceNext]_serviceVars
  PROVE  [Next]_vars
<1>1. CASE \E w \in Work : Disconnect(w)
  BY <1>1 DEF Disconnect
<1>2. ASSUME NEW c \in Chats, ServeChat(c) \/ OpenUpstream(c) \/ ServerFinishes(c)
      PROVE  [Next]_vars
  <2>1. CASE ServeChat(c)
    BY <2>1, ServeChatStep DEF Next
  <2>2. CASE OpenUpstream(c) \/ ServerFinishes(c)
    BY <2>2 DEF OpenUpstream, ServerFinishes
  <2>3. QED
    BY <1>2, <2>1, <2>2
<1>3. CASE ServeImage
  BY <1>3, ServeImageImages DEF Next
<1>4. CASE Unseen
  BY <1>4 DEF Unseen, Next
<1>5. CASE UNCHANGED serviceVars
  <2>1. UNCHANGED vars
    BY <1>5 DEF serviceVars
  <2>2. QED
    BY <2>1
<1>6. QED
  BY <1>1, <1>2, <1>3, <1>4, <1>5 DEF ServiceNext

\* The service is an implementation of the coordinator's specification: its
\* handlers use the coordinator as that specification allows.
THEOREM ServiceImplements == ServiceSpec => Spec
<1>1. ServiceInit => Init
  BY DEF ServiceInit
<1>2. [ServiceNext]_serviceVars => [Next]_vars
  BY StepImplements
<1>3. QED
  BY <1>1, <1>2, PTL DEF ServiceSpec, Spec

-----------------------------------------------------------------------------
(* The relay.                                                              *)

\* Each chat that no step of its own concerns keeps its place in the relay.
RelayOK == ServiceTypeOK /\ RelayInv

LEMMA ServeChatRelay ==
  ASSUME RelayOK, TypeOK, NEW c \in Chats, ServeChat(c)
  PROVE  RelayOK'
<1> USE WorkAssumption DEF RelayOK, ServiceTypeOK, RelayInv, InProgress, Work
<1>0. /\ chat \in [Chats -> {"out", "waiting", "entered"}]
      /\ image' = image
  BY DEF TypeOK, ChatTypeOK, ServeChat, ChatFrame
<1>1. CASE ChatArrives(c)
  BY <1>0, <1>1 DEF ChatArrives, ChatEnqueue
<1>2. CASE LeaveQueue(c)
  BY <1>0, <1>2 DEF LeaveQueue, ChatAbandon, LeaveLease, Forget
<1>3. CASE EnterLease(c)
  BY <1>0, <1>3 DEF EnterLease, ChatEnter, Open
<1>4. CASE RejectBody(c)
  BY <1>0, <1>4 DEF RejectBody, ChatExit, LeaveLease, Forget
<1>5. CASE RelayEnds(c)
  <2>1. chat' = [chat EXCEPT ![c] = "out"]
    BY <1>5 DEF RelayEnds, Fail, ChatFails, ChatExit, LeaveLease
  <2>2. /\ relay' = relay \ {c} /\ gone' = gone \ {c}
        /\ serving' \subseteq serving /\ c \notin serving'
    BY <1>5 DEF RelayEnds, Forget, Drained
  <2>3. QED
    BY <1>0, <2>1, <2>2
<1>6. QED
  BY <1>1, <1>2, <1>3, <1>4, <1>5 DEF ServeChat

LEMMA ServeImageRelay ==
  ASSUME RelayOK, TypeOK, ServeImage
  PROVE  RelayOK'
<1> USE WorkAssumption DEF RelayOK, ServiceTypeOK, RelayInv, InProgress, Work
<1>0. /\ image \in [Images -> {"out", "waiting", "generating", "batch"}]
      /\ chat' = chat /\ relay' = relay /\ serving' = serving
  BY DEF TypeOK, ImageTypeOK, ServeImage, RequestFrame
<1>1. ASSUME NEW i \in Images, ImageReturns(i) \/ ImageLeaves(i)
      PROVE  RelayOK'
  <2>1. gone' = gone \ {i} /\ \A w \in Images : w # i => image'[w] = image[w]
    BY <1>0, <1>1 DEF ImageReturns, ImageLeaves, ImageReply, ImageAbandon, ForgetImages, Assign, Forget
  <2>2. QED
    BY <1>0, <2>1
<1>2. ASSUME NEW i \in Images, ImageFinish(i), UNCHANGED gone
      PROVE  RelayOK'
  <2>1. \A w \in Images : image[w] = "waiting" => image'[w] = "waiting"
    BY <1>0, <1>2 DEF ImageFinish, ForgetImages, Assign
  <2>2. QED
    BY <1>0, <1>2, <2>1
<1>3. ASSUME NEW s, ImageEnqueue(s, "waiting") \/ ImageEnqueue(s, "batch"), UNCHANGED gone
      PROVE  RelayOK'
  <2>1. \A w \in Images : image[w] = "waiting" => image'[w] = "waiting"
    BY <1>0, <1>3 DEF ImageEnqueue, Assign
  <2>2. QED
    BY <1>0, <1>3, <2>1
<1>4. ASSUME NEW b \in Batches, BatchLeave(b), UNCHANGED gone
      PROVE  RelayOK'
  <2>1. \A w \in Images : image[w] = "waiting" => image'[w] = "waiting"
    BY <1>0, <1>4 DEF BatchLeave, ForgetImages, Assign
  <2>2. QED
    BY <1>0, <1>4, <2>1
<1>5. QED
  BY <1>1, <1>2, <1>3, <1>4 DEF ServeImage, ImageArrives

\* The coordinator's own steps leave the requests where they are.
LEMMA UnseenKeepsRequests ==
  ASSUME Unseen
  PROVE  UNCHANGED <<chat, image>>
<1>1. CASE Dispatcher
  BY <1>1 DEF Dispatcher, DispatcherWaits, TakeChat, RestoreStep, RestoreFrame, ServeFrame,
              TakeImage, ServeImageStep, ImageFrame, PopFrame, Shutdown, StopFrame
<1>2. CASE ~Dispatcher
  BY <1>2 DEF Unseen, Initialize, BootFrame, SideStep, SideFrame, Close, Stopped, vars, Environment
<1>3. QED
  BY <1>1, <1>2

LEMMA RelayStep ==
  ASSUME RelayOK, TypeOK, [ServiceNext]_serviceVars
  PROVE  RelayOK'
<1> USE DEF RelayOK, ServiceTypeOK, RelayInv, InProgress
<1>1. CASE \E w \in Work : Disconnect(w)
  BY <1>1 DEF Disconnect, vars
<1>2. ASSUME NEW c \in Chats, ServeChat(c) \/ OpenUpstream(c) \/ ServerFinishes(c)
      PROVE  RelayOK'
  <2>1. CASE OpenUpstream(c) \/ ServerFinishes(c)
    BY <2>1 DEF OpenUpstream, Open, ServerFinishes, vars
  <2>2. QED
    BY <1>2, <2>1, ServeChatRelay
<1>3. CASE ServeImage
  BY <1>3, ServeImageRelay
<1>4. CASE Unseen
  <2>1. UNCHANGED <<chat, image>>
    BY <1>4, UnseenKeepsRequests
  <2>2. QED
    BY <1>4, <2>1 DEF Unseen
<1>5. CASE UNCHANGED serviceVars
  BY <1>5 DEF serviceVars, vars
<1>6. QED
  BY <1>1, <1>2, <1>3, <1>4, <1>5 DEF ServiceNext

\* The inductive invariant of the service: the coordinator's, and what ties
\* the relay to the leases.
THEOREM ServiceInvariant == ServiceSpec => []ServiceInv
<1>1. ServiceInit => RelayOK
  BY DEF ServiceInit, RelayOK, ServiceTypeOK, RelayInv
<1>2. RelayOK /\ TypeOK /\ [ServiceNext]_serviceVars => RelayOK'
  BY RelayStep
<1>3. ServiceSpec => []RelayOK
  BY <1>1, <1>2, ServiceImplements, TypeCorrect, PTL DEF ServiceSpec
<1>4. RelayOK /\ IInv => ServiceInv
  BY DEF RelayOK, ServiceInv
<1>5. QED
  BY <1>3, <1>4, ServiceImplements, InductiveInvariant, PTL

\* The LLM server only works under a lease, and never while ComfyUI does,
\* whichever clients leave and whichever exchanges break.
THEOREM WorkHasGpuHolds == ServiceSpec => []WorkHasGpu
<1>1. ServiceInv => WorkHasGpu
  <2> SUFFICES ASSUME ServiceInv, serving # {} PROVE serving \subseteq Granted /\ ~ComfyAtWork
    BY DEF WorkHasGpu
  <2>1. serving \subseteq Granted
    BY DEF ServiceInv, ServiceTypeOK, RelayInv, IInv, RequestInv, GrantInv, Granted
  <2>2. ~ComfyAtWork
    BY <2>1 DEF ServiceInv, IInv, OwnershipInv, LeaseInv, ComfyAtWork
  <2>3. QED
    BY <2>1, <2>2
<1>2. QED
  BY <1>1, ServiceInvariant, PTL
=============================================================================
