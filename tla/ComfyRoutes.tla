----------------------------- MODULE ComfyRoutes -----------------------------
(***************************************************************************)
(* How the gateway treats a request for ComfyUI (src/st_proxy/             *)
(* comfy_routes.py and _image_handler): by the method and the path that    *)
(* the client has used, while ComfyUI gets the path that they stand for.   *)
(*                                                                         *)
(* A path is a name with or without "/api" before it and something more    *)
(* after it.  One name stands for the routes of a custom node that the     *)
(* tables list alike.                                                      *)
(***************************************************************************)

VARIABLES strict, asked, treatment

routeVars == <<strict, asked, treatment>>

Reading == {"GET", "HEAD", "OPTIONS"}
MUTATING_METHODS == {"POST", "PUT", "PATCH", "DELETE"}

Names == {"prompt", "interrupt", "queue", "free", "users", "settings", "userdata", "history",
          "upload", "assets", "jobs", "save_release", "unload", "optimize", "privacy",
          "library", "folders", "keystore", "load_video", "extension"}

\* Nothing; "/x"; "/cancel"; "/x/cancel"; "/x/use".
Tails == {"", "item", "cancel", "itemCancel", "itemUse"}

Paths == [api : BOOLEAN, name : Names, tail : Tails]
Routes == [method : Reading \cup MUTATING_METHODS \cup {"TRACE"}, path : Paths]

Path(api, names) == [api : api, name : names, tail : {""}]
Post(paths) == [method : {"POST"}, path : paths]

\* Mutant: the frontend's alias of /free is missing.
LifecycleUnaliased == Post(Path({FALSE}, {"free"}))

WORKFLOW_ROUTES == Post(Path(BOOLEAN, {"prompt"}))
CONTROL_ROUTES == Post(Path(BOOLEAN, {"interrupt", "queue"}) \cup Path({TRUE}, {"save_release"})
                         \cup Path({FALSE}, {"unload"}))
LIFECYCLE_ROUTES == Post(Path(BOOLEAN, {"free"}))
BLOCKED_GPU_ROUTES == Post(Path({FALSE}, {"optimize"}))

IsJobCancel(path) == path.api /\ path.name = "jobs" /\ path.tail \in {"cancel", "itemCancel"}

SafeCore(route) ==
  LET p == route.path IN
  /\ route.method \in MUTATING_METHODS
  /\ \/ p.name \in {"settings", "userdata"}
     \/ p.api /\ p.name = "assets"
     \/ p.name = "users" /\ (p.tail = "" \/ ~p.api)
     \/ ~p.api /\ p.tail = "" /\ p.name \in {"history", "upload"}

SafeCustom(route) ==
  LET m == route.method
      p == route.path
  IN /\ p.api <=> p.name = "load_video"
     /\ \/ p.name = "privacy" /\ p.tail = "" /\ m = "POST"
        \/ p.name = "keystore" /\ p.tail = "" /\ m = "PUT"
        \/ p.name = "library" /\ p.tail = "item" /\ m \in {"PUT", "PATCH", "DELETE"}
        \/ p.name = "library" /\ p.tail = "itemUse" /\ m = "POST"
        \/ p.name \in {"folders", "load_video"} /\ p.tail = "" /\ m \in {"POST", "DELETE"}

\* classify_comfy_route()
Kind(route) ==
  IF route.method \in Reading THEN "passthrough"
  ELSE IF route \in WORKFLOW_ROUTES THEN "workflow"
  ELSE IF route \in CONTROL_ROUTES \/ (route.method = "POST" /\ IsJobCancel(route.path)) THEN "control"
  ELSE IF route \in LIFECYCLE_ROUTES THEN "lifecycle"
  ELSE IF route \in BLOCKED_GPU_ROUTES THEN "blocked_gpu"
  ELSE IF SafeCore(route) \/ SafeCustom(route) THEN "passthrough"
  ELSE "unknown_mutation"

\* comfy_upstream_path()
Upstream(path) ==
  IF \/ path.tail = "" /\ path.name \in {"free", "interrupt", "prompt", "queue", "users"}
     \/ path.name \in {"settings", "userdata"}
    THEN [path EXCEPT !.api = FALSE]
    ELSE path

\* _image_handler()
Treatment(route, isStrict) ==
  LET kind == Kind(route) IN
  CASE kind = "workflow" -> "fifo"
    [] kind = "control" -> "lease"
    [] kind \in {"lifecycle", "blocked_gpu"} -> "refused"
    [] kind = "unknown_mutation" -> IF isStrict THEN "refused" ELSE "forwarded"
    [] kind = "passthrough" -> "forwarded"

Idle == [method |-> "GET", path |-> [api |-> FALSE, name |-> "history", tail |-> ""]]

RoutesInit == strict \in BOOLEAN /\ asked = Idle /\ treatment = "none"

AskComfy == treatment = "none" /\ asked' \in Routes /\ treatment' = Treatment(asked', strict)
AnswerComfy == treatment # "none" /\ asked' = Idle /\ treatment' = "none"

RoutesNext == (AskComfy \/ AnswerComfy) /\ UNCHANGED strict

RoutesSpec == RoutesInit /\ [][RoutesNext]_routeVars

-----------------------------------------------------------------------------
(* What is behind the gateway, told by the names of the routes and not by  *)
(* its tables.                                                             *)

\* The routes of ComfyUI itself; the others are those of custom nodes.
OwnRoutes == {"prompt", "interrupt", "queue", "free", "jobs"}

\* The frontend of a custom node asks for its routes in one spelling.
FrontendSpelling(path) == path.api <=> path.name = "save_release"

\* An older ComfyUI has its own routes without the prefix, and those of custom
\* nodes in their frontend's spelling; a newer one has every route in both, but
\* for /api/jobs (the comments at the tables of aliases and of custom routes).
Serves(path, older) ==
  /\ path.name = "jobs" => path.api
  /\ older => IF path.name \in OwnRoutes THEN path.name = "jobs" \/ ~path.api
                                        ELSE FrontendSpelling(path)

\* What asking for a route does on the GPU.
Effect(route, older) ==
  LET p == route.path IN
  IF route.method # "POST" \/ ~Serves(p, older) THEN "none"
  ELSE IF p.name = "jobs" THEN IF p.tail \in {"cancel", "itemCancel"} THEN "cancels" ELSE "none"
  ELSE IF p.tail # "" THEN "none"
  ELSE IF p.name = "prompt" THEN "executes"
  ELSE IF p.name \in {"interrupt", "queue"} THEN "cancels"
  ELSE IF p.name \in {"save_release", "unload"} THEN "releases"
  ELSE IF p.name = "free" THEN "frees"
  ELSE IF p.name = "optimize" THEN "executes unseen"
  ELSE "none"

\* The request that ComfyUI gets.
Forwarded(route) == [route EXCEPT !.path = Upstream(@)]

-----------------------------------------------------------------------------
(* Properties.                                                             *)

\* Whichever ComfyUI there is, and whatever spelling the client uses: what
\* executes is served by the FIFO, and only that, so that no GPU handoff is made
\* for a path that is not there; only what cancels or releases takes a control
\* lease.  Under the strict policy nothing that has an effect passes as it comes.
\* The transparent policy lets new routes through, and there a custom node's
\* route in the spelling its frontend does not use is one: of ComfyUI's own
\* routes either spelling, and of custom nodes the frontend's, has the treatment
\* its effect needs under both policies (classify_comfy_route,
\* comfy_upstream_path, _image_handler).
EffectsCoordinated ==
  treatment # "none" =>
    \A older \in BOOLEAN :
      LET effect == Effect(Forwarded(asked), older)
          known == asked.path.name \in OwnRoutes \/ FrontendSpelling(asked.path)
      IN /\ effect = "executes" <=> treatment = "fifo"
         /\ treatment = "lease" => effect \in {"cancels", "releases"}
         /\ strict /\ effect # "none" => treatment # "forwarded"
         /\ known /\ effect \in {"cancels", "releases"} => treatment = "lease"
         /\ known /\ effect \in {"frees", "executes unseen"} => treatment = "refused"
=============================================================================
