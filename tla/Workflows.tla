------------------------------ MODULE Workflows ------------------------------
(***************************************************************************)
(* A workflow of the media jobs (src/st_proxy/workflows.py): its manifest  *)
(* says which inputs of an exported ComfyUI graph are a caller's, and each *)
(* job gets a copy of the graph in which a generation mode                 *)
(* (workflow_modes.py), the LoRA switch, the references, the parameters    *)
(* and the output adapter write one after the other.                       *)
(*                                                                         *)
(* A graph is a function from the inputs that its nodes have to values.    *)
(***************************************************************************)
EXTENDS Naturals, FiniteSets, Sequences, Overlays

VARIABLES
  manifest,  \* the loaded workflow
  order,     \* the item of a job that is built, or Nothing
  graph      \* the graph that was built last

workflowVars == <<manifest, order, graph>>

Input(node, name) == [node |-> node, name |-> name]
ReferenceOnly == Input("saver", "reference_only")
Row == Input("loras", "lora_1")
Slots == {Input("sampler", "image1"), Input("sampler", "image2")}

\* The exported graph; image2 is a socket that is not connected in it.
Export == [i \in {ReferenceOnly, Row, Input("sampler", "image1"), Input("sampler", "text"),
                  Input("loader", "filename")} |-> "export"]
Inputs == DOMAIN Export \cup Slots

\* The generator is the sampler; the class of a node decides about the others.
Manifests ==
  [prompt : DOMAIN Export, seed : DOMAIN Export,
   nsfw : {{}, {Row}}, slots : SUBSET Slots, minItems : {0, 1},
   saved : BOOLEAN,  \* the saver's adapter is helto_saved_images, not comfy_images
   set : {{}} \cup {{i} : i \in Inputs}, remove : {{}} \cup {{i} : i \in Inputs}]

\* Mutant: the inputs that the LoRA switch controls are not handed over.
TakenFromModes(m) == {m.prompt, m.seed} \cup m.slots

\* validate_targets(): what a mode must not touch, besides adapters' nodes.
ModesMustSpare(m) == {m.prompt, m.seed} \cup m.nsfw \cup m.slots

\* Workflow.load(), WorkflowModes.read() and validate_targets()
Loads(m) ==
  LET mapped == {m.prompt, m.seed} \cup m.nsfw IN
  /\ m.prompt # m.seed /\ m.nsfw \cap {m.prompt, m.seed} = {}
  /\ m.minItems <= Cardinality(m.slots)
  /\ m.saved => \A i \in mapped : i.node # "saver"
  /\ m.slots # {} => \A i \in mapped : i.node # "loader" /\ i \notin m.slots
  /\ m.set \cap m.remove = {}
  /\ \A i \in m.set \cup m.remove :
       /\ i.node # "saver" /\ (i.node = "loader" => m.slots = {})
       /\ i \notin ModesMustSpare(m)

-----------------------------------------------------------------------------
(* A job's item.                                                           *)

Orders == [given : SUBSET {"prompt", "seed", "mode", "nsfw"}, nsfw : BOOLEAN,
           mode : {"standard", "draft"}, references : 0 .. 2]

\* An item without a prompt, which is required.
Nothing == [given |-> {}, nsfw |-> FALSE, mode |-> "standard", references |-> 0]

\* normalize(), validate_reference_count()
Accepts(o) ==
  /\ "prompt" \in o.given
  /\ "nsfw" \in o.given => manifest.nsfw # {}
  /\ o.references \in manifest.minItems .. Cardinality(manifest.slots)

ModeOf(o) == IF "mode" \in o.given THEN o.mode ELSE "standard"
Switch(o) == IF "nsfw" \in o.given /\ o.nsfw THEN "on" ELSE "off"

\* resolve_seed(): a seed that was not given is drawn.
SeedOf(o) == IF "seed" \in o.given THEN "given" ELSE "drawn"

\* The first n slots, in the manifest's order.
Used(n) == IF n = 1 /\ Input("sampler", "image1") \in manifest.slots
             THEN {Input("sampler", "image1")}
           ELSE IF n = 0 THEN {} ELSE manifest.slots

\* The node that is added for a slot, "mcp_reference_<n>", here has the slot's name.
Loader(slot) == Input(slot.name, "filename")

Constantly(S, value) == [i \in S |-> value]
Less(g, S) == [i \in DOMAIN g \ S |-> g[i]]

Moded(g, o) ==
  IF ModeOf(o) = "draft" THEN Less(Constantly(manifest.set, "draft") @@ g, manifest.remove) ELSE g

Switched(g, o) == Constantly(manifest.nsfw, Switch(o)) @@ g

Referencing(g, o) ==
  LET used == Used(o.references) IN
  Constantly(used, "link") @@ Constantly({Loader(s) : s \in used}, "reference") @@ Less(g, manifest.slots)

Filled(g, o) == (manifest.prompt :> "prompt") @@ (manifest.seed :> SeedOf(o)) @@ g

Saved(g) == IF manifest.saved THEN (ReferenceOnly :> "true") @@ g ELSE g

\* Workflow.build()
Build(o) == Saved(Filled(Referencing(Switched(Moded(Export, o), o), o), o))

WorkflowInit == manifest \in {m \in Manifests : Loads(m)} /\ order = Nothing /\ graph = Export

BuildOrder ==
  /\ order = Nothing
  /\ order' \in {o \in Orders : Accepts(o)}
  /\ graph' = Build(order')
  /\ UNCHANGED manifest

EndOrder == order # Nothing /\ order' = Nothing /\ UNCHANGED <<manifest, graph>>

WorkflowNext == BuildOrder \/ EndOrder

WorkflowSpec == WorkflowInit /\ [][WorkflowNext]_workflowVars

-----------------------------------------------------------------------------
(* Properties.                                                             *)

\* Of whatever manifest is loaded, each job's graph has every value where the
\* manifest maps it, none of it overwritten by what is written later, and is
\* the export in all its other inputs, whatever was built before: the checks of
\* load() keep the five writers of build() apart.
EveryControlLands ==
  order # Nothing =>
    LET draft == ModeOf(order) = "draft"
        used == Used(order.references)
        patched == IF draft THEN manifest.set ELSE {}
        Value(i) == CASE i = manifest.prompt -> "prompt"
                      [] i = manifest.seed -> SeedOf(order)
                      [] i \in manifest.nsfw -> Switch(order)
                      [] i \in used -> "link"
                      [] i \in patched -> "draft"
                      [] manifest.saved /\ i = ReferenceOnly -> "true"
                      [] OTHER -> "export"
        cut == (manifest.slots \ used) \cup (IF draft THEN manifest.remove ELSE {})
    IN /\ DOMAIN graph = ((DOMAIN Export \cup used \cup patched) \ cut) \cup {Loader(s) : s \in used}
       /\ \A i \in DOMAIN graph \cap Inputs : graph[i] = Value(i)
=============================================================================
