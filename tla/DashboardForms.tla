--------------------------- MODULE DashboardForms ---------------------------
(***************************************************************************)
(* The dashboard's forms (web/src/features): the dialogs that create       *)
(* things, the sign-in form, the set-up wizard and the confirmation of a   *)
(* deletion, each with the page that mounts it and sends what it emits.    *)
(*                                                                         *)
(* A form is a record: the drafts one user edit away, whether it may be    *)
(* submitted, and what it then emits.  Four protocols surround it:         *)
(*   controlled  the page holds `open'; closing by hand resets the draft,  *)
(*               success closes without resetting it                       *)
(*   self        the dialog holds `open'; opening resets, submitting closes*)
(*   standing    always on screen; the editors of a segment and of a       *)
(*               project start afresh when a new version is shown          *)
(*   inline      a rule of the list is edited in its place                 *)
(*   confirm     no draft; cannot be opened while its action is under way  *)
(* The server is what the form's endpoint reads and writes, shown is the   *)
(* copy in the query cache, and somebody else may write meanwhile.         *)
(* A text is a model of what is typed: Trim and Slug say what the code's   *)
(* trim() and slugify() make of it.                                        *)
(***************************************************************************)
EXTENDS TargetingForms

CONSTANTS
  Form,       \* the forms of this instance
  Texts,      \* what is typed into names and keys
  Notes,      \* what is typed into the other fields
  Trim, Slug, \* functions on texts: trim(), slugify()
  LongTexts,  \* the texts of at least eight characters
  Perms,      \* permissions, and events a webhook may want
  Roles,      \* roles offered by a dropdown
  Stored,     \* for an editor: what the server may hold at first
  MaxVars,    \* bound: variations of a flag
  MaxEdits,   \* bound: edits in an editor, all its drafts together
  MaxOthers,  \* bound: writes of somebody else
  MaxVersion, \* bound: versions of what an editor saves
  MaxAdrift   \* bound: requests whose page is gone

Editors == {"ruleNew", "ruleEdit", "segmentEdit", "projectName"}
Forms == Editors \cup {"flag", "segment", "project", "environment", "sdkKey", "member", "role",
          "trigger", "change", "schedule", "grant", "user", "webhook",
          "login", "setup", "confirm"}

ASSUME FormsAssumption ==
  /\ Form \subseteq Forms
  /\ "" \in Texts /\ "" \in Notes
  /\ \A t \in Texts \cup Notes : Trim[Trim[t]] = Trim[t]
  /\ Slug \in [Texts -> Texts] /\ \A t \in Texts : Trim[t] \in Texts
  /\ \A t \in Texts : Slug[Slug[t]] = Slug[t] /\ Trim[Slug[t]] = Slug[t]
  /\ Slug[""] = "" /\ Trim[""] = ""
  /\ LongTexts \subseteq Texts /\ "" \notin Roles
  /\ MaxVars \in Nat /\ MaxEdits \in [Editors -> Nat] /\ MaxOthers \in Nat
  /\ MaxVersion \in Nat /\ MaxAdrift \in Nat

\* Creating: a flag and a segment are PUT under their key, and take the place of
\* what has it; the others are posted, and refused when the key is taken.
Puts == {"flag", "segment"}
Posts == {"project", "environment", "role"}

\* What the editors load: a rule and a segment, as types/flag.ts and types/segment.ts have them.
\* A rollout is kept as the weight of each variation, 0 for one it does not name.
Clause == [attribute : Attributes, how : Hows, values : DOMAIN DisplayValues]
RuleOf == [id : Nat, clauses : Seq(Clause)]
IsServed(x) == \/ \E v \in Variation : x = ServeVariation(v)
               \/ x.weights \in [1..NVariations -> Nat] /\ x = ServeRollout(x.weights, x.seed)
IsRule(s) == /\ DOMAIN s = {"version", "gone", "clauses", "served"}
             /\ s.clauses \in Seq(Clause) /\ IsServed(s.served)
IsSegment(s) == /\ DOMAIN s = {"version", "name", "included", "excluded", "rules"}
                /\ s.included \in Seq(KeyTexts) /\ s.excluded \in Seq(KeyTexts)
                /\ s.rules \in Seq(RuleOf)

\* What the server may hold, by the form that reads or writes it.
IsStored(f, s) ==
  /\ s.version \in Nat
  /\ CASE f = "ruleEdit" -> IsRule(s)
       [] f = "segmentEdit" -> IsSegment(s)
       [] f = "projectName" -> s \in [version : Nat, name : Texts]
       [] f \in {"change", "schedule"} -> s \in [version : Nat, on : BOOLEAN]
       [] f \in Puts \cup Posts -> s \in [version : Nat, taken : SUBSET Texts]
       [] OTHER -> s \in [version : Nat]

ASSUME StoredAssumption ==
  \A f \in Form :
    IF f \in DOMAIN Stored THEN \A s \in Stored[f] : s.version = 1 /\ IsStored(f, s)
    ELSE f \notin {"ruleEdit", "segmentEdit", "projectName", "change", "schedule"} \cup Puts \cup Posts

VARIABLES
  form,      \* the form this behaviour is about
  mounted,   \* is its page on screen?
  open, draft,
  req,       \* the page's mutation: idle, pending, error
  sent,      \* what the request under way carries, None if there is none
  server, shown,
  adrift,    \* what requests carry whose page was left
  kept,      \* history: the dialog was closed by a success, draft and all
  touched,   \* history: the parts of an editor's draft the user changed
  base,      \* history: the version the draft was made from
  origin,    \* history: touched and base of the request under way
  moved,     \* history: a clause took the place of another
  edits, others

request == <<req, sent, origin>>
work == <<draft, touched, base, moved, edits>>
data == <<server, shown, others>>
vars == <<form, mounted, open, req, sent, origin, draft, touched, base, moved, edits,
          server, shown, others, adrift, kept>>

None == [none |-> TRUE]
Written(t) == Trim[t] # ""

----------------------------------------------------------------------------
(* Edits, as sets of drafts.                                               *)

Toggle(d, field, values) ==
  {[d EXCEPT ![field] = IF v \in @ THEN @ \ {v} ELSE @ \cup {v}] : v \in values}

\* handleNameChange: until the key was edited it mirrors the name.
HandleNameChange(d) ==
  {[d EXCEPT !.name = t, !.key = IF d.keyEdited THEN @ ELSE Slug[t]] : t \in Texts}

HandleKeyChange(d) == {[d EXCEPT !.key = Slug[t], !.keyEdited = TRUE] : t \in Texts}

Keyed(d) == Written(d.name) /\ Written(d.key)

----------------------------------------------------------------------------
(* The controlled dialogs.                                                 *)

BlankKeyed == [name |-> "", key |-> "", keyEdited |-> FALSE]

\* The input of each string variation: change it, remove it while there are
\* more than two, or add one.
NewVar == ""
StringVars(vs) ==
  {ReplaceAt(vs, i, t) : i \in DOMAIN vs, t \in Notes}
  \cup (IF Len(vs) > 2 THEN {RemoveAt(vs, i) : i \in DOMAIN vs} ELSE {})
  \cup (IF Len(vs) < MaxVars THEN {Append(vs, NewVar)} ELSE {})

StringVarEdits(d) == Put(d, "stringVars", StringVars(d.stringVars))

\* Trimmed, and without the ones that are empty.
CleanVars(d) ==
  FoldLeft(LAMBDA vs, t : IF Written(t) THEN Append(vs, Trim[t]) ELSE vs, <<>>, d.stringVars)

\* Wrong variant: the string variations left empty are sent with the others.
CreateFlagDialogUncleaned(d) ==
  [edits |-> StringVarEdits(d) \cup HandleNameChange(d) \cup Put(d, "type", {"boolean", "string"}),
   can   |-> Keyed(d),
   input |-> [key |-> d.key, name |-> d.name, temporary |-> d.temporary,
              variations |-> IF d.type = "boolean" THEN <<"true", "false">> ELSE d.stringVars]]

CreateFlagDialog(d) ==
  [edits |-> HandleNameChange(d) \cup HandleKeyChange(d)
               \cup Put(d, "type", {"boolean", "string"})
               \cup (IF d.type = "string" THEN StringVarEdits(d) ELSE {})
               \cup Put(d, "temporary", BOOLEAN),
   can   |-> Keyed(d) /\ (d.type = "boolean" \/ Len(CleanVars(d)) >= 2),
   input |-> [key |-> d.key, name |-> d.name, temporary |-> d.temporary,
              variations |-> IF d.type = "boolean" THEN <<"true", "false">> ELSE CleanVars(d)]]

CreateSegmentDialog(d) ==
  [edits |-> HandleNameChange(d) \cup HandleKeyChange(d) \cup Put(d, "description", Notes),
   can   |-> Keyed(d),
   input |-> [key |-> d.key, name |-> d.name, description |-> Trim[d.description]]]

CreateProjectDialog(d) ==
  [edits |-> HandleNameChange(d) \cup HandleKeyChange(d),
   can   |-> Keyed(d),
   input |-> [key |-> d.key, name |-> d.name]]

CreateEnvironmentDialog(d) ==
  [edits |-> HandleNameChange(d) \cup HandleKeyChange(d),
   can   |-> Keyed(d),
   input |-> [key |-> d.key, name |-> d.name]]

CreateSdkKeyDialog(d) ==
  [edits |-> Put(d, "kind", {"server", "client"}) \cup Put(d, "name", Notes),
   can   |-> TRUE,
   input |-> [kind |-> d.kind, name |-> Trim[d.name]]]

\* No role is "": it is sent as undefined.
AddMemberDialog(d) ==
  [edits |-> Put(d, "email", Notes) \cup Put(d, "role", Roles),
   can   |-> Written(d.email),
   input |-> [email |-> Trim[d.email], role |-> d.role]]

CreateRoleDialog(d) ==
  [edits |-> HandleNameChange(d) \cup HandleKeyChange(d) \cup Put(d, "description", Notes)
               \cup Put(d, "scope", {"project", "organization"})
               \cup Toggle(d, "selected", Perms),
   can   |-> Keyed(d) /\ d.selected # {},
   input |-> [key |-> d.key, name |-> d.name, description |-> Trim[d.description],
              scope |-> d.scope, permissions |-> d.selected]]

----------------------------------------------------------------------------
(* The dialogs that hold their own `open'.                                 *)

TurnFlag(target) == IF target = "on" THEN "turnFlagOn" ELSE "turnFlagOff"

CreateTriggerDialog(d) ==
  [edits |-> Put(d, "action", {"on", "off"}) \cup Put(d, "description", Notes),
   can   |-> TRUE,
   input |-> [action |-> d.action, description |-> Trim[d.description]]]

RequestChangeDialog(d) ==
  [edits |-> Put(d, "target", {"on", "off"}) \cup Put(d, "comment", Notes),
   can   |-> TRUE,
   input |-> [instructions |-> <<TurnFlag(d.target)>>, comment |-> Trim[d.comment]]]

\* A time is nothing, gone by, or ahead; an hour ahead is the default.
ScheduleChangeDialog(d) ==
  [edits |-> Put(d, "target", {"on", "off"}) \cup Put(d, "when", {"", "past", "ahead"})
               \cup Put(d, "comment", Notes),
   can   |-> d.when # "",
   input |-> [instructions |-> <<TurnFlag(d.target)>>, scheduled_for |-> d.when,
              comment |-> Trim[d.comment]]]

GrantProjectRoleDialog(d) ==
  [edits |-> Put(d, "email", Notes) \cup Put(d, "role", Roles),
   can   |-> Written(d.email) /\ d.role # "",
   input |-> [email |-> Trim[d.email], role |-> d.role]]

CreateUserDialog(d) ==
  [edits |-> Put(d, "email", Notes) \cup Put(d, "fullName", Notes)
               \cup Put(d, "password", Notes) \cup Put(d, "superuser", BOOLEAN),
   can   |-> Written(d.email) /\ Written(d.password),
   input |-> [email |-> Trim[d.email], password |-> d.password,
              full_name |-> Trim[d.fullName], is_superuser |-> d.superuser]]

CreateWebhookDialog(d) ==
  [edits |-> Put(d, "url", Notes) \cup Put(d, "description", Notes)
               \cup Put(d, "allEvents", BOOLEAN)
               \cup (IF d.allEvents THEN {} ELSE Toggle(d, "selected", Perms)),
   can   |-> Written(d.url) /\ (d.allEvents \/ d.selected # {}),
   input |-> [url |-> Trim[d.url], description |-> Trim[d.description],
              event_types |-> IF d.allEvents THEN {"*"} ELSE d.selected]]

----------------------------------------------------------------------------
(* The standing forms and the confirmation.                                *)

LoginForm(d) ==
  [edits |-> Put(d, "email", Notes) \cup Put(d, "password", Notes),
   can   |-> TRUE,
   input |-> [email |-> d.email, password |-> d.password]]

AccountValid(d) == Written(d.email) /\ d.password \in LongTexts

\* The wizard's inputs of the step on screen, Continue and, unless the request is
\* under way, Back.  The organization is the draft's name and key.
WizardEdits(d) ==
  IF d.step = 1
  THEN Put(d, "fullName", Notes) \cup Put(d, "email", Notes) \cup Put(d, "password", Texts)
         \cup (IF AccountValid(d) THEN Put(d, "step", {2}) ELSE {})
  ELSE HandleNameChange(d) \cup HandleKeyChange(d)
         \cup (IF req = "pending" THEN {} ELSE Put(d, "step", {1}))

\* Wrong variant: the wizard may be finished from any step.
SetupWizardAnyStep(d) ==
  [edits |-> WizardEdits(d),
   can   |-> Keyed(d),
   input |-> [email |-> d.email, password |-> d.password, full_name |-> d.fullName,
              organization_name |-> d.name, organization_slug |-> d.key]]

SetupWizard(d) ==
  [edits |-> WizardEdits(d),
   can   |-> d.step = 2 /\ Keyed(d),
   input |-> [email |-> d.email, password |-> d.password, full_name |-> d.fullName,
              organization_name |-> d.name, organization_slug |-> d.key]]

ConfirmDeleteDialog(d) == [edits |-> {}, can |-> TRUE, input |-> <<>>]

\* Rename a project.
ProjectGeneralForm(d) ==
  [edits |-> Put(d, "name", Texts),
   can   |-> Written(d.name) /\ Trim[d.name] # shown.name,
   input |-> [name |-> Trim[d.name]]]

----------------------------------------------------------------------------

FormOf(f, d) ==
  CASE f = "flag"        -> CreateFlagDialog(d)
    [] f = "segment"     -> CreateSegmentDialog(d)
    [] f = "project"     -> CreateProjectDialog(d)
    [] f = "environment" -> CreateEnvironmentDialog(d)
    [] f = "sdkKey"      -> CreateSdkKeyDialog(d)
    [] f = "member"      -> AddMemberDialog(d)
    [] f = "role"        -> CreateRoleDialog(d)
    [] f = "trigger"     -> CreateTriggerDialog(d)
    [] f = "change"      -> RequestChangeDialog(d)
    [] f = "schedule"    -> ScheduleChangeDialog(d)
    [] f = "grant"       -> GrantProjectRoleDialog(d)
    [] f = "user"        -> CreateUserDialog(d)
    [] f = "webhook"     -> CreateWebhookDialog(d)
    [] f = "login"       -> LoginForm(d)
    [] f = "setup"       -> SetupWizard(d)
    [] f = "confirm"     -> ConfirmDeleteDialog(d)
    [] f \in {"ruleNew", "ruleEdit"} -> RuleForm(d, req = "pending")
    [] f = "segmentEdit" -> SegmentEditor(d, shown, req = "pending")
    [] f = "projectName" -> ProjectGeneralForm(d)

Opposite(s) == IF s.on THEN "off" ELSE "on"

\* What reset(), or the first render, puts into the form while s is shown.
Blank(f, s) ==
  CASE f = "flag" -> [name |-> "", key |-> "", keyEdited |-> FALSE, type |-> "boolean",
                      stringVars |-> <<"", "">>, temporary |-> FALSE]
    [] f = "segment" -> [name |-> "", key |-> "", keyEdited |-> FALSE, description |-> ""]
    [] f \in {"project", "environment"} -> BlankKeyed
    [] f = "sdkKey" -> [kind |-> "server", name |-> ""]
    [] f \in {"member", "grant"} -> [email |-> "", role |-> ""]
    [] f = "role" -> [name |-> "", key |-> "", keyEdited |-> FALSE, description |-> "",
                      scope |-> "project", selected |-> {}]
    [] f = "trigger" -> [action |-> "on", description |-> ""]
    [] f = "change" -> [target |-> Opposite(s), comment |-> ""]
    [] f = "schedule" -> [target |-> Opposite(s), when |-> "ahead", comment |-> ""]
    [] f = "user" -> [email |-> "", fullName |-> "", password |-> "", superuser |-> FALSE]
    [] f = "webhook" -> [url |-> "", description |-> "", allEvents |-> TRUE, selected |-> {}]
    [] f = "login" -> [email |-> "", password |-> ""]
    [] f = "setup" -> [step |-> 1, email |-> "", password |-> "", fullName |-> "",
                       name |-> "", key |-> "", keyEdited |-> FALSE]
    [] f = "confirm" -> <<>>
    [] f = "ruleNew" -> RuleFormSeed(<<>>, ServeVariation(0))
    [] f = "ruleEdit" -> RuleFormSeed(s.clauses, s.served)
    [] f = "segmentEdit" -> SegmentSeed(s)
    [] f = "projectName" -> [name |-> s.name]

Protocol ==
  CASE form \in {"flag", "segment", "project", "environment", "sdkKey", "member", "role"}
         -> "controlled"
    [] form \in {"login", "setup", "ruleNew", "segmentEdit", "projectName"} -> "standing"
    [] form = "ruleEdit" -> "inline"
    [] form = "confirm" -> "confirm"
    [] OTHER -> "self"

\* The pages that navigate when their request succeeds.
LeavesOnSuccess == {"flag", "segment", "project", "login", "setup", "confirm"}

Init ==
  /\ form \in Form
  /\ mounted = TRUE
  /\ server \in IF form \in DOMAIN Stored THEN Stored[form] ELSE {[version |-> 1]}
  /\ shown = server
  /\ open = (Protocol = "standing")
  /\ draft = Blank(form, shown)
  /\ req = "idle" /\ sent = None /\ origin = None
  /\ adrift = <<>> /\ kept = FALSE
  /\ touched = {} /\ base = 1 /\ moved = FALSE
  /\ edits = 0 /\ others = 0

----------------------------------------------------------------------------
(* The protocol.                                                           *)

\* The form starts afresh from what is shown.
Start(s) ==
  /\ draft' = Blank(form, s)
  /\ touched' = {} /\ base' = s.version /\ moved' = FALSE /\ UNCHANGED edits

OpenForm ==
  /\ mounted /\ ~open
  /\ Protocol \in {"confirm", "inline"} => req # "pending"
  /\ form = "ruleEdit" => ~shown.gone
  /\ open' = TRUE
  /\ IF Protocol \in {"self", "inline"} THEN Start(shown) ELSE UNCHANGED work
  /\ UNCHANGED <<form, mounted, adrift, kept>> /\ UNCHANGED request /\ UNCHANGED data

\* Wrong variant: closing leaves the draft in place.
CloseFormKeepsDraft ==
  /\ mounted /\ open /\ Protocol # "standing"
  /\ open' = FALSE
  /\ kept' = FALSE
  /\ UNCHANGED <<form, mounted, adrift>>
  /\ UNCHANGED request /\ UNCHANGED data /\ UNCHANGED work

\* handleOpenChange(false), Cancel: the user closes the dialog, pending or not.
CloseForm ==
  /\ mounted /\ open /\ Protocol # "standing"
  /\ Protocol = "inline" => req # "pending"
  /\ open' = FALSE
  /\ kept' = FALSE
  /\ IF Protocol \in {"controlled", "inline"} THEN Start(shown) ELSE UNCHANGED work
  /\ UNCHANGED <<form, mounted, adrift>> /\ UNCHANGED request /\ UNCHANGED data

\* Some rule has fewer clauses, or there are fewer rules.
Removed(d, e) ==
  \/ Len(e.rules) < Len(d.rules)
  \/ \E i \in DOMAIN d.rules : Len(e.rules[i].clauses) < Len(d.rules[i].clauses)

\* The user changes one thing.
Edit ==
  /\ mounted /\ open
  /\ \E d \in FormOf(form, draft).edits :
       /\ draft' = d
       /\ IF form \in Editors
          THEN /\ edits < MaxEdits[form] /\ edits' = edits + 1
               /\ touched' = touched \cup {f \in DOMAIN d : d[f] # draft[f]}
               /\ moved' = (moved \/ (form # "projectName" /\ Removed(draft, d)))
          ELSE UNCHANGED <<edits, touched, moved>>
  /\ UNCHANGED <<form, mounted, open, base, adrift, kept>>
  /\ UNCHANGED request /\ UNCHANGED data

Send ==
  /\ req' = "pending" /\ sent' = FormOf(form, draft).input
  /\ origin' = [touched |-> touched, base |-> base]
  /\ open' = (Protocol \in {"controlled", "standing"})
  /\ IF form = "ruleEdit" THEN Start(shown)
     ELSE IF form # "ruleNew" THEN UNCHANGED work
     ELSE LET blank == Blank(form, shown)
          IN /\ draft' = [blank EXCEPT !.texts = RuleTexts(draft.texts, blank.rules)]
             /\ touched' = {} /\ moved' = TRUE /\ UNCHANGED <<base, edits>>
  /\ UNCHANGED <<form, mounted, adrift, kept>> /\ UNCHANGED data

\* handleSubmit: the button is disabled while the mutation is pending.  The add
\* builder is then reset, its clause editors staying as they are.
Submit ==
  /\ mounted /\ open /\ req # "pending" /\ FormOf(form, draft).can
  /\ form \in Editors => server.version < MaxVersion
  /\ Send

\* The page is gone, and with it the form.
Unmount(s) ==
  /\ mounted' = FALSE /\ open' = FALSE
  /\ Start(s)
  /\ req' = "idle" /\ sent' = None /\ origin' = None /\ kept' = FALSE

\* External: can the endpoint do what is asked, and what it then holds.
Accepts(input) ==
  /\ form \in Posts => input.key \notin server.taken
  /\ form = "ruleEdit" => ~server.gone

Holds(input) ==
  LET v == server.version + 1
  IN CASE form \in Puts \cup Posts ->
            [server EXCEPT !.taken = @ \cup {input.key}]
       [] form = "ruleEdit" -> [version |-> v, gone |-> FALSE, clauses |-> input.clauses,
                                served |-> input.served]
       [] form = "segmentEdit" -> [version |-> v, name |-> input.name,
                                   included |-> input.included, excluded |-> input.excluded,
                                   rules |-> input.rules]
       [] form = "projectName" -> [version |-> v, name |-> input.name]
       [] OTHER -> server

Write(input) ==
  /\ Accepts(input)
  /\ server' = Holds(input)
  /\ UNCHANGED others

\* mutate's onSuccess: setDialogOpen(false), or navigate; an editor's answer is put
\* into the cache, and a new version starts the editor afresh.
Succeed ==
  /\ req = "pending"
  /\ Write(sent)
  /\ shown' = IF form \in Editors THEN server' ELSE shown
  /\ \/ /\ form \in LeavesOnSuccess
        /\ Unmount(shown)
     \/ /\ form \notin LeavesOnSuccess
        /\ req' = "idle" /\ sent' = None /\ origin' = None
        /\ open' = (open /\ Protocol # "controlled")
        /\ kept' = (kept \/ (open /\ Protocol = "controlled"))
        /\ IF form \in {"segmentEdit", "projectName"} THEN Start(shown') ELSE UNCHANGED work
        /\ UNCHANGED mounted
  /\ UNCHANGED <<form, adrift>>

\* The error is shown by the form, which stays as it is.
Fail ==
  /\ req = "pending"
  /\ req' = "error" /\ sent' = None /\ origin' = None
  /\ UNCHANGED <<form, mounted, open, adrift, kept>> /\ UNCHANGED work /\ UNCHANGED data

\* What the endpoint's answer depends on.
Matters(input) ==
  CASE form \in Puts \cup Posts -> [key |-> input.key]
    [] form \in Editors -> input
    [] OTHER -> None

\* The user goes elsewhere; a request under way goes on without its page.
Leave ==
  /\ mounted
  /\ IF req = "pending" THEN Len(adrift) < MaxAdrift /\ adrift' = Append(adrift, Matters(sent))
                        ELSE adrift' = adrift
  /\ Unmount(shown)
  /\ UNCHANGED form /\ UNCHANGED data

ComeBack ==
  /\ ~mounted
  /\ mounted' = TRUE
  /\ open' = (Protocol = "standing")
  /\ Start(shown)
  /\ UNCHANGED <<form, adrift, kept>> /\ UNCHANGED request /\ UNCHANGED data

AdriftAnswered ==
  /\ adrift # <<>>
  /\ adrift' = Tail(adrift)
  /\ Write(Head(adrift)) \/ UNCHANGED <<server, others>>
  /\ UNCHANGED <<form, mounted, open, shown, kept>> /\ UNCHANGED request /\ UNCHANGED work

\* External: what somebody else may make of it.
OtherWrites ==
  LET v == server.version + 1
  IN CASE form \in {"change", "schedule"} -> {[version |-> v, on |-> b] : b \in BOOLEAN \ {server.on}}
       [] form \in Puts \cup Posts -> {[server EXCEPT !.taken = {Slug[t] : t \in Texts}]}
       [] form = "ruleEdit" -> {[server EXCEPT !.version = v, !.gone = TRUE],
                                [server EXCEPT !.version = v,
                                               !.served = ServeVariation(NVariations - 1)]}
       [] form = "segmentEdit" -> {[server EXCEPT !.version = v, !.included = <<>>],
                                   [server EXCEPT !.version = v, !.name = "renamed"]}
       [] form = "projectName" -> {[server EXCEPT !.version = v, !.name = Trim[t]] :
                                     t \in {x \in Texts : Written(x)}}
       [] OTHER -> {}

SomebodyElse ==
  /\ others < MaxOthers /\ others' = others + 1
  /\ server' \in OtherWrites
  /\ UNCHANGED <<form, mounted, open, shown, adrift, kept>>
  /\ UNCHANGED request /\ UNCHANGED work

\* The page's query is fetched again.  The editors of segment and project are keyed
\* by version; a rule that is gone takes the form in its place with it.
Refetch ==
  /\ mounted /\ shown # server
  /\ shown' = server
  /\ IF form \in {"segmentEdit", "projectName"} THEN Start(server) ELSE UNCHANGED work
  /\ open' = (open /\ ~(form = "ruleEdit" /\ server.gone))
  /\ UNCHANGED <<form, mounted, server, others, adrift, kept>> /\ UNCHANGED request

Next ==
  \/ OpenForm \/ CloseForm \/ Edit \/ Submit \/ Succeed \/ Fail
  \/ Leave \/ ComeBack \/ AdriftAnswered \/ SomebodyElse \/ Refetch

Spec == Init /\ [][Next]_vars

----------------------------------------------------------------------------
(* The inputs of types/*.ts.                                               *)

Note == Notes \cup {Trim[t] : t \in Notes}
Variations == ({Trim[t] : t \in Notes} \ {""}) \cup {"true", "false"}
CreateFlagInput == [key : Texts, name : Texts, temporary : BOOLEAN,
                    variations : Seq(Variations)]
CreateSegmentInput == [key : Texts, name : Texts, description : Note]
CreateProjectInput == [key : Texts, name : Texts]
CreateEnvironmentInput == [key : Texts, name : Texts]
CreateSdkKeyInput == [kind : {"server", "client"}, name : Note]
AddMemberInput == [email : Note, role : Roles \cup {""}]
CreateRoleInput == [key : Texts, name : Texts, description : Note,
                    scope : {"project", "organization"}, permissions : SUBSET Perms]
CreateUserInput == [email : Note, password : Note, full_name : Note, is_superuser : BOOLEAN]
CreateWebhookInput == [url : Note, description : Note, event_types : SUBSET (Perms \cup {"*"})]
CreateTriggerInput == [action : {"on", "off"}, description : Note]
CreateChangeInput == [instructions : {<<"turnFlagOn">>, <<"turnFlagOff">>}, comment : Note]
CreateScheduledChangeInput ==
  [instructions : {<<"turnFlagOn">>, <<"turnFlagOff">>}, scheduled_for : {"past", "ahead"},
   comment : Note]
LoginInput == [email : Note, password : Note]
SetupInput == [email : Note, password : Texts, full_name : Note,
               organization_name : Texts, organization_slug : Texts]

InputOf(f) ==
  CASE f = "flag" -> CreateFlagInput [] f = "segment" -> CreateSegmentInput
    [] f = "project" -> CreateProjectInput [] f = "environment" -> CreateEnvironmentInput
    [] f = "sdkKey" -> CreateSdkKeyInput [] f \in {"member", "grant"} -> AddMemberInput
    [] f = "role" -> CreateRoleInput [] f = "user" -> CreateUserInput
    [] f = "webhook" -> CreateWebhookInput [] f = "trigger" -> CreateTriggerInput
    [] f = "change" -> CreateChangeInput [] f = "schedule" -> CreateScheduledChangeInput
    [] f = "login" -> LoginInput [] f = "setup" -> SetupInput [] f = "confirm" -> {<<>>}

\* The payloads of the editors.
EditorInputOK(f, input) ==
  CASE f \in {"ruleNew", "ruleEdit"} ->
         input.clauses \in Seq(Clause) /\ IsServed(input.served)
    [] f = "segmentEdit" ->
         /\ input.included \in Seq(KeyTexts) /\ input.excluded \in Seq(KeyTexts)
         /\ input.rules \in Seq(RuleOf)
    [] f = "projectName" -> input.name \in Texts

----------------------------------------------------------------------------
(* Properties.                                                             *)

\* Types: what is sent has the type of its endpoint's payload.
TypeOK ==
  /\ form \in Forms /\ mounted \in BOOLEAN /\ open \in BOOLEAN
  /\ DOMAIN draft = DOMAIN Blank(form, shown)
  /\ req \in {"idle", "pending", "error"}
  /\ sent = None \/ (IF form \in Editors THEN EditorInputOK(form, sent) ELSE sent \in InputOf(form))
  /\ (sent # None) <=> (req = "pending")
  /\ DOMAIN shown = DOMAIN server /\ shown.version <= server.version
  /\ base <= server.version /\ touched \subseteq DOMAIN Blank(form, shown)
  /\ kept \in BOOLEAN /\ moved \in BOOLEAN
  /\ Len(adrift) <= MaxAdrift /\ edits \in Nat /\ others \in 0..MaxOthers

\* Whatever the user types, edits, closes and reopens, a request that leaves a
\* form is one its endpoint can take: the key is a slug and not empty, though the
\* name may hold nothing a slug keeps; a flag has two variations, a role a
\* permission, a webhook an event; the wizard's account was valid when it left
\* step 1 and cannot be changed from step 2; a rule has clauses with values, and the
\* weights of a rollout add up to the backend's 100000.
InputValid ==
  sent # None =>
    CASE form \in {"flag", "segment", "project", "environment", "role"} ->
           /\ sent.key # "" /\ Slug[sent.key] = sent.key /\ Written(sent.name)
           /\ form = "flag" => Len(sent.variations) >= 2
           /\ form = "role" => sent.permissions # {}
      [] form = "setup" ->
           /\ sent.organization_slug # "" /\ Slug[sent.organization_slug] = sent.organization_slug
           /\ Written(sent.organization_name)
           /\ Written(sent.email) /\ sent.password \in LongTexts
      [] form = "webhook" -> sent.url # "" /\ sent.event_types # {}
      [] form = "user" -> sent.email # "" /\ Written(sent.password)
      [] form = "grant" -> sent.email # "" /\ sent.role # ""
      [] form = "member" -> sent.email # ""
      [] form \in {"ruleNew", "ruleEdit"} ->
           /\ sent.clauses # <<>>
           /\ \A c \in Range(sent.clauses) : c.attribute # "" /\ c.values # <<>>
           /\ sent.served.mode = "rollout" => Total(sent.served.weights) = FullWeight
      [] OTHER -> TRUE

\* A dialog opens blank, with the default for the flag's present state, unless it
\* was closed by the success of its request: that leaves the old draft in place.
ReopensBlank == [][~open /\ open' => draft' = Blank(form, shown) \/ kept]_vars

\* An editor's Values inputs show the clauses they edit.  What breaks it is a
\* clause that took the place of another: index keys leave the text behind, after
\* a removal and after the add builder's reset.
TextIsClause ==
  form \in {"ruleNew", "ruleEdit", "segmentEdit"} /\ ~moved /\ DistinctKeys(draft.rules) =>
    \A i \in DOMAIN draft.rules : \A j \in DOMAIN draft.rules[i].clauses :
      LET text == draft.texts[RuleKey(draft.rules, i)][j]
          values == draft.rules[i].clauses[j].values
      IN ParseValues[text] = values \/ DisplayValues[values] = text

\* A segment that was changed can be saved: nothing but a key with a space in it
\* makes join(' ') take two lists for one.
DirtyIsDifferent ==
  form = "segmentEdit" /\ ~Dirty(draft, shown) =>
    \/ draft.included = shown.included /\ draft.excluded = shown.excluded
       /\ draft.rules = shown.rules
    \/ \E k \in Range(draft.included \o draft.excluded \o shown.included \o shown.excluded) :
         Len(Words[k]) > 1

WholePercents(served) == \A w \in Range(served.weights) : w % 1000 = 0

\* "Preserves everything not edited when saving": a save leaves what the user did
\* not touch as the server holds it, name, keys, rules and served value, unless
\* somebody else saved since the draft was made, or a rollout stored with finer
\* weights than whole percentages went through the form.
SavePreserves ==
  [][req = "pending" /\ req' = "idle" /\ server' # server /\ origin # None
       /\ origin.base = server.version =>
       /\ form = "segmentEdit" =>
            \A part \in {"name", "included", "excluded", "rules"} \ origin.touched :
              server'[part] = server[part]
       /\ form = "ruleEdit" =>
            /\ "rules" \notin origin.touched => server'.clauses = server.clauses
            /\ origin.touched \cap {"serve", "variation", "percents", "seed"} = {}
                 => server'.served = server.served \/ ~WholePercents(server.served)]_vars
=============================================================================
