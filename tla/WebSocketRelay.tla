--------------------------- MODULE WebSocketRelay ---------------------------
(***************************************************************************)
(* proxy_websocket() (src/st_proxy/http.py): two tasks carry the messages  *)
(* of one session, one in each direction, and the handler ends the session *)
(* when either of them is over.                                            *)
(***************************************************************************)
EXTENDS Naturals

CONSTANT InboxBound  \* bound: messages a peer is ahead of its reader

ASSUME InboxAssumption == InboxBound \in Nat \ {0}

VARIABLES
  handler,    \* the await the handler is in
  carrier,    \* the await each task is in
  cancelled,  \* the tasks that were told to stop
  socket,     \* the two ends; "gone": its peer has closed it, or is lost
  inbox,      \* messages received and not read
  stopped     \* the handler was cancelled while it waited for its tasks

sessionVars == <<handler, carrier, cancelled, socket, inbox, stopped>>

Directions == {"up", "down"}
Ends == {"client", "upstream"}
From(d) == IF d = "up" THEN "client" ELSE "upstream"
To(d) == IF d = "up" THEN "upstream" ELSE "client"

RelayTypeOK ==
  /\ handler \in {"connect", "prepare", "relay", "cancel", "close", "exit", "done"}
  /\ carrier \in [Directions -> {"none", "receive", "send", "over"}]
  /\ cancelled \subseteq Directions
  /\ socket \in [Ends -> {"none", "open", "gone", "closed", "dropped"}]
  /\ inbox \in [Ends -> 0 .. InboxBound]
  /\ stopped \in BOOLEAN

RelayInit ==
  /\ handler = "done"
  /\ carrier = [d \in Directions |-> "none"] /\ cancelled = {}
  /\ socket = [client |-> "open", upstream |-> "none"]
  /\ inbox = [s \in Ends |-> 0]
  /\ stopped = FALSE

Carrying == {d \in Directions : carrier[d] \in {"receive", "send"}}

-----------------------------------------------------------------------------
(* The peers.                                                              *)

Speaks(s) ==
  /\ socket[s] = "open" /\ inbox[s] < InboxBound
  /\ handler # "done" /\ (s = "client" => handler \notin {"connect", "prepare"})
  /\ inbox' = [inbox EXCEPT ![s] = @ + 1]
  /\ UNCHANGED <<handler, carrier, cancelled, socket, stopped>>

\* A close frame, a broken connection, or no answer to a heartbeat.
Leaves(s) ==
  /\ socket[s] = "open" /\ handler # "done"
  /\ socket' = [socket EXCEPT ![s] = "gone"]
  /\ UNCHANGED <<handler, carrier, cancelled, inbox, stopped>>

-----------------------------------------------------------------------------
(* _client_to_upstream() and _upstream_to_client().                        *)

Takes(d) ==
  /\ carrier[d] = "receive" /\ d \notin cancelled
  /\ inbox[From(d)] > 0
  /\ inbox' = [inbox EXCEPT ![From(d)] = @ - 1]
  /\ carrier' = [carrier EXCEPT ![d] = "send"]

\* Everything was read before the peer's end is seen.
SeesEnd(d) ==
  /\ carrier[d] = "receive" /\ d \notin cancelled
  /\ inbox[From(d)] = 0 /\ socket[From(d)] # "open"
  /\ carrier' = [carrier EXCEPT ![d] = "over"]
  /\ UNCHANGED inbox

\* A message to a peer that has left vanishes, or the task ends with the error.
Sends(d) ==
  /\ carrier[d] = "send" /\ d \notin cancelled
  /\ \/ carrier' = [carrier EXCEPT ![d] = "receive"]
     \/ socket[To(d)] # "open" /\ carrier' = [carrier EXCEPT ![d] = "over"]
  /\ UNCHANGED inbox

\* CancelledError, at whichever await.
Stops(d) ==
  /\ d \in cancelled /\ d \in Carrying
  /\ carrier' = [carrier EXCEPT ![d] = "over"]
  /\ UNCHANGED inbox

Carries(d) ==
  /\ Takes(d) \/ SeesEnd(d) \/ Sends(d) \/ Stops(d)
  /\ UNCHANGED <<handler, cancelled, socket, stopped>>

-----------------------------------------------------------------------------
(* The handler.                                                            *)

\* The next request to upgrade.
Upgrades ==
  /\ handler = "done"
  /\ handler' = "connect"
  /\ carrier' = [d \in Directions |-> "none"] /\ cancelled' = {}
  /\ socket' = [client |-> "open", upstream |-> "none"]
  /\ inbox' = [s \in Ends |-> 0]
  /\ stopped' = FALSE

Connects ==
  /\ handler = "connect"
  /\ \/ handler' = "prepare" /\ socket' = [socket EXCEPT !.upstream = "open"]
     \/ handler' = "done" /\ UNCHANGED socket
  /\ UNCHANGED <<carrier, cancelled, stopped>>

Prepares ==
  /\ handler = "prepare"
  /\ \/ handler' = "relay" /\ carrier' = [d \in Directions |-> "receive"]
     \/ socket.client # "open" /\ handler' = "exit" /\ UNCHANGED carrier
  /\ UNCHANGED <<cancelled, socket, stopped>>

\* Mutant: ALL_COMPLETED.
BothOver == Carrying = {}

\* FIRST_COMPLETED.
EitherOver == Carrying # Directions

WaitReturns ==
  /\ handler = "relay" /\ EitherOver
  /\ handler' = "cancel" /\ cancelled' = Carrying
  /\ UNCHANGED <<carrier, socket, stopped>>

\* Mutant: the tasks are cancelled and not gathered.
NotGathered == TRUE

Gathered == Carrying = {}

GatherReturns ==
  /\ handler = "cancel" /\ Gathered
  /\ handler' = IF stopped THEN "exit" ELSE "close"
  /\ UNCHANGED <<carrier, cancelled, socket, stopped>>

\* downstream.close() with the code of the other end.
Closes ==
  /\ handler = "close"
  /\ handler' = "exit" /\ socket' = [socket EXCEPT !.client = "closed"]
  /\ UNCHANGED <<carrier, cancelled, stopped>>

\* The end of "async with"; aiohttp then drops the client's connection.
Exits ==
  /\ handler = "exit"
  /\ handler' = "done"
  /\ socket' = [client |-> IF socket.client = "open" THEN "dropped" ELSE socket.client,
                upstream |-> "closed"]
  /\ UNCHANGED <<carrier, cancelled, stopped>>

\* The broker stops and cancels its handlers.
Cancelled ==
  /\ \/ handler = "connect" /\ handler' = "done" /\ UNCHANGED <<cancelled, stopped>>
     \/ handler \in {"prepare", "close"} /\ handler' = "exit" /\ UNCHANGED <<cancelled, stopped>>
     \/ handler = "relay" /\ handler' = "cancel" /\ cancelled' = Carrying /\ UNCHANGED stopped
     \/ handler = "cancel" /\ stopped' = TRUE /\ UNCHANGED <<handler, cancelled>>
  /\ UNCHANGED <<carrier, socket>>

Proceed == (Connects \/ Prepares \/ WaitReturns \/ GatherReturns \/ Closes \/ Exits) /\ UNCHANGED inbox

RelayNext ==
  \/ Upgrades
  \/ \E s \in Ends : Speaks(s) \/ Leaves(s)
  \/ \E d \in Directions : Carries(d)
  \/ Proceed
  \/ Cancelled /\ UNCHANGED inbox

RelaySpec == RelayInit /\ [][RelayNext]_sessionVars

\* The heartbeat of either end finds a peer that takes no more messages.
RelayFairness == WF_sessionVars(Proceed) /\ \A d \in Directions : WF_sessionVars(Carries(d))

-----------------------------------------------------------------------------
(* Properties.                                                             *)

\* No end is closed while a task may still read or write it, also when the
\* handler is cancelled at any of its awaits (gather before close, http.py).
SocketsOutliveTasks ==
  handler \in {"close", "exit", "done"} \/ socket.client \in {"closed", "dropped"}
      \/ socket.upstream = "closed"
    => Carrying = {}

\* When either peer leaves, the whole session ends, whatever the other one does
\* (FIRST_COMPLETED, the cancellation of the other task).
CloseSpreads == handler = "relay" /\ "gone" \in {socket[s] : s \in Ends} ~> handler = "done"
=============================================================================
