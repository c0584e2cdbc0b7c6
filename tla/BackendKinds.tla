---------------------------- MODULE BackendKinds ----------------------------
(***************************************************************************)
(* The LLM backend a broker was configured with, and the differences       *)
(* between backends that the coordinator (src/st_proxy/coordinator.py)     *)
(* decides by comparing BackendInfo.kind and kobold_router_mode.           *)
(***************************************************************************)
EXTENDS Naturals

CONSTANTS
  Kind,        \* BackendInfo.kind of the configured LLM backend
  RouterMode   \* BrokerConfig.kobold_router_mode

\* Strata's four kinds (STRATA_KINDS) are told apart nowhere in the
\* coordinator: "strata" stands for any of them.
Kinds == {"koboldcpp", "tabbyapi", "prism", "strata", "all", "ollama"}

\* Router mode is a mode of the KoboldCpp backend only.
ASSUME KindAssumption ==
  /\ Kind \in Kinds
  /\ RouterMode \in BOOLEAN
  /\ RouterMode => Kind = "koboldcpp"

\* Started without contacting the backend, observed on first use.
Passive == Kind # "ollama"

\* Chats of these backends are served one at a time.
Serial == RouterMode \/ Kind \in {"prism", "strata", "all"}

\* A lease is a reservation: the backend loads the model while it serves.
Reserving == RouterMode \/ Kind = "all"

\* The request names the model it needs, and its lease carries it.
Targeted == Kind \in {"prism", "strata", "all"}

\* ComfyUI cleanup first waits for an empty ComfyUI queue.
WaitsForIdle == Kind \in {"tabbyapi", "all"}
=============================================================================
