------------------------------ MODULE Service -------------------------------
(***************************************************************************)
(* BrokerService (src/st_proxy/service.py) around the coordinator: the     *)
(* handlers of chat completions and workflow submissions, and proxy_stream *)
(* (http.py), which relays the LLM server's answer under the chat lease.   *)
(*                                                                         *)
(* A handler is not cancelled when its client disconnects: it notices only *)
(* where it looks.  Every step is a step of the coordinator, or one that   *)
(* the coordinator does not see.                                           *)
(***************************************************************************)
EXTENDS CoordinatorInv

CONSTANT KoboldModels  \* the models of the combined backend that KoboldCpp serves

ASSUME KoboldAssumption == KoboldModels \subseteq Models

VARIABLES
  gone,    \* requests in progress whose client has disconnected
  relay,   \* chats with an upstream exchange open in proxy_stream
  serving  \* chats the LLM server is still working for

serviceVars == <<vars, gone, relay, serving>>

ServiceTypeOK ==
  /\ gone \subseteq Work
  /\ relay \subseteq Chats
  /\ serving \subseteq Chats

ServiceInit ==
  /\ Init
  /\ gone = {} /\ relay = {} /\ serving = {}

\* The handlers of serial backends run the lease in a task of its own, and
\* look after their client while that task waits for the lease.
Polls == Serial

\* The body is only read once the lease is held.
ReadsInLease == RouterMode \/ Kind = "tabbyapi"

\* KoboldCpp may go on loading for a request that failed.
AtKobold(c) == RouterMode \/ target[c] \in KoboldModels

-----------------------------------------------------------------------------
(* Clients.                                                                *)

InProgress(w) == IF w \in Chats THEN chat[w] # "out" ELSE image[w] = "waiting"

Disconnect(w) ==
  /\ InProgress(w) /\ w \notin gone
  /\ gone' = gone \cup {w}
  /\ UNCHANGED <<vars, relay, serving>>

\* The request of w is over, and its client no longer of interest.
Forget(w) == gone' = gone \ {w}

-----------------------------------------------------------------------------
(* Chat completions: _router_handler, _multi_handler and                   *)
(* _managed_model_handler, which poll, and the plain _chat_handler.        *)

ChatArrives(c) ==
  /\ \E t \in Targets : ChatEnqueue(c, t)
  /\ UNCHANGED <<gone, relay, serving>>

\* Refused with 503; or the handler sees that its client is gone, and cancels
\* the task that waits for the lease, even if the lease was just granted.
LeaveQueue(c) ==
  /\ ready[c] = "error" \/ (Polls /\ c \in gone)
  /\ ChatAbandon(c)
  /\ Forget(c)
  /\ UNCHANGED <<relay, serving>>

\* The client is looked after once more when the lease is entered.
Admits(c) == Polls => c \notin gone

\* session.request() is next.
Open(c) == relay' = relay \cup {c} /\ serving' = serving \cup {c}

\* The task holds the lease; what it does next depends on whether the body is
\* still to be read.
EnterLease(c) ==
  /\ Admits(c)
  /\ ChatEnter(c)
  /\ IF ReadsInLease THEN UNCHANGED <<relay, serving>> ELSE Open(c)
  /\ UNCHANGED gone

\* The body was read, within request_timeout and max_chat_body_bytes.
OpenUpstream(c) ==
  /\ chat[c] = "entered" /\ c \notin relay
  /\ Open(c)
  /\ UNCHANGED <<vars, gone>>

\* It could not be, or is no JSON object: 400, 413 or 502.
RejectBody(c) ==
  /\ chat[c] = "entered" /\ c \notin relay
  /\ ChatExit(c)
  /\ Forget(c)
  /\ UNCHANGED <<relay, serving>>

ServerFinishes(c) ==
  /\ c \in serving
  /\ serving' = serving \ {c}
  /\ UNCHANGED <<vars, gone, relay>>

\* Mutant: the relay ends with its client.
DrainedOrGone(c) == c \notin serving \/ c \in gone

\* The upstream answer was read to its end, whether or not the client still
\* takes it.
Drained(c) == c \notin serving

\* Mutant: the coordinator is not told of the failure.
FailUntold(c) ==
  /\ chat[c] = "entered"
  /\ late' \in {late, Reserving}
  /\ LeaveLease(c)
  /\ UNCHANGED <<cancelled, queue, waitingChats, state, recoverable>>

\* The exchange failed: the coordinator is told if KoboldCpp was asked.
Fail(c) == IF AtKobold(c) THEN ChatFails(c) ELSE ChatExit(c)

\* A complete answer; or a status of 500 and more, a timeout, a transport error
\* or the end of the service.  A server whose connection breaks stops working,
\* except that KoboldCpp may go on loading.
RelayEnds(c) ==
  /\ c \in relay
  /\ \/ Drained(c) /\ ChatExit(c) /\ UNCHANGED serving
     \/ Fail(c) /\ serving' = serving \ {c}
  /\ Forget(c)
  /\ relay' = relay \ {c}

ServeChat(c) ==
  /\ \/ ChatArrives(c) \/ LeaveQueue(c) \/ EnterLease(c)
     \/ RejectBody(c) \/ RelayEnds(c)
  /\ ChatFrame

-----------------------------------------------------------------------------
(* Workflow submissions: _image_handler, with the coordinator's            *)
(* submit_image in a task that _submit_image_until_disconnect watches.     *)
(* Batches come from media jobs, which have no client to lose.             *)

ImageArrives(i) == ImageEnqueue(<<i>>, "waiting") /\ UNCHANGED gone

\* The response is complete, an error included.
ImageReturns(i) == ImageReply(i) /\ Forget(i)

ImageLeaves(i) ==
  /\ submitted[i] = "error" \/ i \in gone
  /\ ImageAbandon(i)
  /\ Forget(i)

ServeImage ==
  /\ \/ \E i \in Images : \/ ImageArrives(i) \/ ImageReturns(i) \/ ImageLeaves(i)
                          \/ ImageFinish(i) /\ UNCHANGED gone
     \/ \E b \in Batches : /\ ImageEnqueue(b, "batch") \/ BatchLeave(b)
                           /\ UNCHANGED gone
  /\ RequestFrame
  /\ UNCHANGED <<relay, serving>>

-----------------------------------------------------------------------------
(* The system.                                                             *)

\* The coordinator's own steps, and those of the two servers: the LLM server
\* only loads a model for a request that reached it.
Unseen ==
  /\ \/ Initialize \/ SideStep \/ Dispatcher \/ Close \/ Stopped
     \/ Environment /\ (NativeLoad => serving # {})
  /\ UNCHANGED <<gone, relay, serving>>

ServiceNext ==
  \/ \E w \in Work : Disconnect(w)
  \/ \E c \in Chats : ServeChat(c) \/ OpenUpstream(c) \/ ServerFinishes(c)
  \/ ServeImage
  \/ Unseen

ServiceSpec == ServiceInit /\ [][ServiceNext]_serviceVars
=============================================================================
