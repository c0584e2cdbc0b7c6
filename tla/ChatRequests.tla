---------------------------- MODULE ChatRequests ----------------------------
(***************************************************************************)
(* What the broker changes in a chat request before it forwards it:        *)
(* ModelProfiles.apply (model_profiles.py) adds the defaults of the model, *)
(* adapt_chat_request (llm/tabbyapi.py) then translates the thinking       *)
(* controls for TabbyAPI.  Each decides on its own which of the controls   *)
(* that a caller may combine is the one that counts.                       *)
(*                                                                         *)
(* A request is a function from the fields it has to their values, where   *)
(* the caller's value of a field is that field's name; the thinking        *)
(* controls, which are a toggle or an effort at one of four places; and    *)
(* the objects that it has at those places.                                *)
(***************************************************************************)
EXTENDS Naturals, FiniteSets, Sequences, Overlays

CONSTANT ControlBound  \* bound: thinking controls that one request combines

VARIABLES
  engine,  \* the engine of the request's target
  posted,  \* the request the client has sent
  sent     \* the request as it is forwarded, or the same as posted

chatVars == <<engine, posted, sent>>

Engines == {"tabbyapi", "prism", "strata"}

Spellings == {"repetition_penalty", "repeat_penalty", "rep_pen"}
\* One native spelling stands for the four that TabbyAPI knows.
Budgets == {"reasoning_budget_tokens", "thinking_budget_tokens", "reasoning.max_tokens"}
Fields == Spellings \cup Budgets \cup {"temperature", "max_tokens"}

Objects == {"reasoning", "template_vars", "chat_template_kwargs"}
Controls == [at : Objects \cup {"top"}, kind : {"effort", "enabled"}]
Stances == {"on", "off", "odd", "null"}

\* Functions from at most k elements of S to T.
Partial(S, T, k) == UNION {[U -> T] : U \in {V \in SUBSET S : Cardinality(V) <= k}}

Named(F) == [f \in F |-> f]
FieldChoices == {Named(F) : F \in SUBSET Fields}
                  \cup {("reasoning_budget_tokens" :> "null") @@ Named(F) :
                          F \in SUBSET {"thinking_budget_tokens", "max_tokens"}}

\* Requests with few controls and any fields, and the other way round.
Requests ==
  LET Of(fields, controls, alien) ==
        {[fields |-> f, controls |-> c, objects |-> o, alien |-> a] :
           f \in fields, c \in controls, o \in SUBSET Objects, a \in alien}
      Written(r) ==
        /\ \A c \in DOMAIN r.controls : c.at \in r.objects \cup {"top"}
        /\ "reasoning.max_tokens" \in DOMAIN r.fields => "reasoning" \in r.objects
      NoFields == {Named({})}
  IN {r \in Of(NoFields, Partial(Controls, Stances, ControlBound), BOOLEAN)
            \cup Of(FieldChoices, Partial(Controls, {"on", "off"}, 1), {FALSE}) : Written(r)}

-----------------------------------------------------------------------------
(* ModelProfiles: the profile of the model sets a temperature, another one *)
(* in each of its two blocks, a repetition penalty and a thinking budget.  *)

\* Mutant: TabbyAPI's precedence of template_vars is not known.
HeedsBoth(r, e, c) == ~(e = "strata" /\ c.at = "chat_template_kwargs" /\ c.kind = "enabled"
                          /\ r.controls[c] = "on")

\* template_vars hides chat_template_kwargs from TabbyAPI, and Strata's template
\* knows no other toggle than an explicit false.
Heeds(r, e, c) ==
  /\ ~(e = "tabbyapi" /\ c.at = "chat_template_kwargs" /\ "template_vars" \in r.objects)
  /\ ~(e = "strata" /\ c.at = "chat_template_kwargs" /\ c.kind = "enabled"
         /\ r.controls[c] = "on")

\* Controls that this engine is not known to understand.
Foreign(r, e) ==
  \/ r.alien
  \/ e # "tabbyapi" /\ "template_vars" \in r.objects
  \/ \E c \in DOMAIN r.controls :
       \/ e # "tabbyapi" /\ c.kind = "enabled" /\ c.at \in {"top", "reasoning"}
       \/ e = "prism" /\ c.kind = "effort" /\ c.at = "reasoning"
       \/ e = "prism" /\ c.kind = "effort" /\ c.at # "top" /\ r.controls[c] = "off"

\* _mode()
Mode(r, e) ==
  LET said == {r.controls[c] : c \in {d \in DOMAIN r.controls : Heeds(r, e, d)}} IN
  IF Foreign(r, e) \/ said \notin {{"on"}, {"off"}} THEN "common"
  ELSE IF said = {"on"} THEN "thinking" ELSE "non_thinking"

\* Mutant: only the native spelling of a budget is known.
HasNativeControl(r) ==
  \/ r.alien \/ DOMAIN r.controls # {} \/ "reasoning" \in r.objects
  \/ "reasoning_budget_tokens" \in DOMAIN r.fields

HasThinkingControl(r) ==
  \/ r.alien \/ DOMAIN r.controls # {} \/ "reasoning" \in r.objects
  \/ Budgets \cap DOMAIN r.fields # {}

Wire(e) == IF e = "prism" THEN "repeat_penalty" ELSE "repetition_penalty"

\* A caller's spelling that the engine does not read natively, in the order of
\* its precedence.
Aliases(e) == IF e = "tabbyapi" THEN <<"rep_pen", "repeat_penalty">>
                                ELSE <<"repetition_penalty", "repeat_penalty", "rep_pen">>

\* What the profile adds, each value named by the block it comes from.
Defaults(r, e) ==
  (IF "temperature" \in DOMAIN r.fields THEN Named({}) ELSE "temperature" :> Mode(r, e))
    @@ (IF Spellings \cap DOMAIN r.fields # {} THEN Named({}) ELSE Wire(e) :> "common")
    @@ (IF HasThinkingControl(r) THEN Named({}) ELSE "reasoning_budget_tokens" :> "common")

Translation(r, e) ==
  LET given == {n \in DOMAIN Aliases(e) : Aliases(e)[n] \in DOMAIN r.fields}
      first == CHOOSE n \in given : \A m \in given : n <= m
  IN IF Wire(e) \in DOMAIN r.fields \/ given = {} THEN Named({})
     ELSE Wire(e) :> r.fields[Aliases(e)[first]]

Apply(r, e) == [r EXCEPT !.fields = Translation(r, e) @@ @ @@ Defaults(r, e)]

-----------------------------------------------------------------------------
(* adapt_chat_request()                                                    *)

Template(r) == IF "template_vars" \in r.objects THEN "template_vars" ELSE "chat_template_kwargs"

Said(r, at, kind) ==
  LET c == [at |-> at, kind |-> kind] IN
  IF c \in DOMAIN r.controls THEN r.controls[c] ELSE "absent"

\* The template's value counts even if it is null; then the top level's.
Resolved(r, kind) ==
  CHOOSE v \in Stances \cup {"absent"} :
    v = IF Said(r, Template(r), kind) # "absent" THEN Said(r, Template(r), kind)
        ELSE IF Said(r, "top", kind) \notin {"absent", "null"} THEN Said(r, "top", kind)
        ELSE Said(r, "reasoning", kind)

\* Spells an effort of "none" out as the toggle that TabbyAPI's templates read.
SwitchOff(r) ==
  IF /\ Resolved(r, "effort") = "off"
     /\ Resolved(r, "enabled") \in {"absent", "null"}
     /\ Said(r, Template(r), "enabled") = "absent"
    THEN [r EXCEPT !.controls = ([at |-> "top", kind |-> "enabled"] :> "off") @@ @]
    ELSE r

FallsBack(r, field) == field \notin DOMAIN r.fields \/ r.fields[field] = "null"

Without(f, x) == [y \in DOMAIN f \ {x} |-> f[y]]

TranslateBudget(r, enabled) ==
  LET native == "reasoning_budget_tokens"
      alias == "thinking_budget_tokens"
      wins == ~FallsBack(r, native) \/ ~FallsBack(r, "reasoning.max_tokens")
  IN IF ~wins /\ alias \in DOMAIN r.fields
       THEN [r EXCEPT !.fields = (native :> @[alias]) @@ Without(@, alias)]
     ELSE IF /\ {native, "reasoning.max_tokens"} \cap DOMAIN r.fields = {}
             /\ enabled # "off" /\ Resolved(r, "effort") = "on"
             /\ "max_tokens" \in DOMAIN r.fields
       THEN [r EXCEPT !.fields = (native :> "derived") @@ @]
     ELSE r

\* A value that should be an object and is none leaves the request alone.
Adapt(r) == IF r.alien THEN r ELSE TranslateBudget(SwitchOff(r), Resolved(r, "enabled"))

-----------------------------------------------------------------------------
(* The handlers of service.py forward one chat after the other.            *)

Blank == [fields |-> Named({}), controls |-> Named({}), objects |-> {}, alien |-> FALSE]

ChatInit == engine = "tabbyapi" /\ posted = Blank /\ sent = Blank

PostChat ==
  /\ posted = Blank
  /\ engine' \in Engines /\ posted' \in Requests /\ sent' = Blank

\* The request that the engine gets.
Forward(r, e) == IF e = "tabbyapi" THEN Adapt(Apply(r, e)) ELSE Apply(r, e)

ForwardChat ==
  /\ posted # Blank /\ sent = Blank
  /\ sent' = Forward(posted, engine)
  /\ UNCHANGED <<engine, posted>>

ChatDone == sent # Blank /\ posted' = Blank /\ sent' = Blank /\ UNCHANGED engine

ChatNext == PostChat \/ ForwardChat \/ ChatDone

ChatSpec == ChatInit /\ [][ChatNext]_chatVars

-----------------------------------------------------------------------------
(* Properties.                                                             *)

\* The block of the profile fits what TabbyAPI then does: the sampling for
\* thinking never goes with a request that switches it off, nor the other way
\* round, whichever controls the caller combines (_mode, adapt_chat_request).
BlockFitsRequest ==
  sent # Blank /\ engine = "tabbyapi" /\ "temperature" \in DOMAIN sent.fields =>
    /\ sent.fields["temperature"] = "thinking" => Resolved(sent, "enabled") # "off"
    /\ sent.fields["temperature"] = "non_thinking" => Resolved(sent, "enabled") = "off"

\* Nothing the profile or the adapter adds takes the place of what the caller
\* has said under any name: the engine reads a penalty of the caller's and not
\* the profile's, and the profile's budget only goes with no control at all.
CallerDecides ==
  LET Read(field) == IF field \in DOMAIN sent.fields THEN sent.fields[field] ELSE "nothing"
      Given(F) == F \cap DOMAIN posted.fields
  IN sent # Blank =>
    /\ \A f \in Given(Fields) :
         \/ f \in DOMAIN sent.fields /\ sent.fields[f] = posted.fields[f]
         \/ engine = "tabbyapi" /\ f \in {"thinking_budget_tokens", "reasoning_budget_tokens"}
    /\ Given(Spellings) # {} => Read(Wire(engine)) \in Spellings
    /\ Given(Budgets) # {} => Read("reasoning_budget_tokens") \notin {"common", "derived"}
    /\ DOMAIN posted.controls # {} => Read("reasoning_budget_tokens") # "common"
=============================================================================
