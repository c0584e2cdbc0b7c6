----------------------------- MODULE MCClients ------------------------------
(* Small instances of the parts that share no state with each other; one of *)
(* them moves in each behaviour, and the others stay as they begin.         *)
EXTENDS TabbyApiProps, ComfyPolling, WebSocketRelay, ComfyRoutes, ChatRequests, Workflows

VARIABLE part

clientVars == <<part, vars, pollVars, sessionVars, routeVars, chatVars, workflowVars>>

ClientsInit ==
  /\ part \in {"tabby", "polling", "relay", "routes", "chats", "workflows"}
  /\ Init /\ (part = "tabby" \/ (configured = None /\ card = None))
  /\ PollInit /\ (part = "polling" \/ (memory = 0 /\ ~settles))
  /\ RelayInit
  /\ RoutesInit /\ (part = "routes" \/ ~strict)
  /\ ChatInit
  /\ IF part = "workflows" THEN WorkflowInit
     ELSE manifest = Nothing /\ order = Nothing /\ graph = Export

ClientsNext ==
  /\ UNCHANGED part
  /\ \/ part = "tabby" /\ Next
     \/ part # "tabby" /\ UNCHANGED vars
  /\ \/ part = "polling" /\ PollNext
     \/ part # "polling" /\ UNCHANGED pollVars
  /\ \/ part = "relay" /\ RelayNext
     \/ part # "relay" /\ UNCHANGED sessionVars
  /\ \/ part = "routes" /\ RoutesNext
     \/ part # "routes" /\ UNCHANGED routeVars
  /\ \/ part = "chats" /\ ChatNext
     \/ part # "chats" /\ UNCHANGED chatVars
  /\ \/ part = "workflows" /\ WorkflowNext
     \/ part # "workflows" /\ UNCHANGED workflowVars

\* A session that does not move has nothing enabled for its fairness to ask for.
ClientsSpec == ClientsInit /\ [][ClientsNext]_clientVars /\ RelayFairness

\* The types of the parts, and the inductive invariant of TabbyAPI's adapter: its
\* latch, its memory of the pending load and the server's work fit together.
ClientsInv == IInv /\ PollTypeOK /\ RelayTypeOK
=============================================================================
