---------------------------- MODULE ServiceProps ----------------------------
(* What the service promises its clients and the GPU.                      *)
EXTENDS Service

\* The LLM server only ever works for a request while that request's lease is
\* held and ComfyUI has nothing to do for the dispatcher: a client that leaves
\* in the middle of a stream does not end the lease before the server has
\* finished (proxy_stream, "Drain upstream before releasing the chat lease").
WorkHasGpu ==
  serving # {} => /\ serving \subseteq Granted
                  /\ ~ComfyAtWork

\* The exchanges of proxy_stream are those of entered leases, and the servers
\* that wait for a handler to drain them have one.
RelayInv ==
  /\ serving \subseteq relay
  /\ \A c \in relay : chat[c] = "entered"
  /\ \A w \in gone : InProgress(w)

ServiceInv == ServiceTypeOK /\ RelayInv /\ IInv
=============================================================================
