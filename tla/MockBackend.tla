---------------------------- MODULE MockBackend ----------------------------
(***************************************************************************)
(* The API the dashboard is developed and tested against                   *)
(* (web/src/mocks/handlers.ts), as one operator per handler: the state it  *)
(* finds to its answer and the state it leaves.                            *)
(*                                                                         *)
(* A row keeps what the dashboard tells apart: `content' stands for names, *)
(* descriptions, variations, lists of keys and whether a flag is           *)
(* temporary, `secret' for the tokens and urls shown once (0 when they are *)
(* left out).  Lists are sets; ids grow, so the first environment is the   *)
(* one with the least id.  There is one organization, and the backend      *)
(* serves every project the same flags.                                    *)
(***************************************************************************)
EXTENDS Naturals, Sequences, FiniteSets, SequencesExt

Ok(s, shape, rows) == [ok |-> TRUE, body |-> [shape |-> shape, rows |-> rows], db |-> s]
NoContent(s) == Ok(s, "nothing", {})
Refused(s) == [ok |-> FALSE, body |-> [shape |-> "error", rows |-> {}], db |-> s]

\* Answers with the one row `rows' holds, 404 if it holds none.
One(s, shape, rows) == IF rows = {} THEN Refused(s) ELSE Ok(s, shape, rows)

Keyed(rows, k) == {r \in rows : r.key = k}
WithId(rows, i) == {r \in rows : r.id = i}
Add(s, field, row) == [s EXCEPT ![field] = @ \cup {row}, !.nextId = @ + 1]
Drop(s, field, rows) == NoContent([s EXCEPT ![field] = @ \ rows])
Put(s, field, old, new) == [s EXCEPT ![field] = (@ \ old) \cup {new}]

\* includesAny: the empty search matches everything, another what it names.
IncludesAny(q, rows) == {r \in rows : q \in {"", r.key}}

----------------------------------------------------------------------------
(* The rows, as web/src/types declares them.                               *)

User == [id : Nat]
Organization == [key : STRING]
Project == [key : STRING, content : STRING]
Flag == [key : STRING, content : {"temporary", "permanent"}]
FlagLifecycle == [key : STRING, content : STRING, status : {"new", "active", "inactive"}]
FlagWithState == [key : STRING, content : STRING, on : BOOLEAN]
FlagRule == [id : Nat, serves : {0, 1}]
FlagConfig == [on : BOOLEAN, off : {0, 1}, fallthrough : {0, 1}, targets : SUBSET ({0, 1} \X STRING),
               rules : Seq(FlagRule), version : Nat]
FlagInstruction == [kind : {"turnFlagOn", "turnFlagOff"}]    \* those that wait; patches do not
Environment == [key : STRING, id : Nat]
Segment == [key : STRING, content : STRING, version : Nat]
Role == [key : STRING]
Member == [id : Nat]
SdkKey == [id : Nat]
SeenContext == [key : STRING, kind : STRING]
ContextEvaluation == [key : STRING, content : STRING]
FlagStats == [flag : STRING]
EnvStats == [flag : STRING]
ChangeRequest == [id : Nat, flag : STRING, env : STRING, instructions : Seq(FlagInstruction),
                  status : {"pending", "approved", "rejected"}]
ScheduledChange == [id : Nat, flag : STRING, env : STRING, instructions : Seq(FlagInstruction),
                    status : {"pending", "applied", "cancelled", "failed"}]
FlagTrigger == [id : Nat, flag : STRING, env : STRING, enabled : BOOLEAN, secret : Nat]
Webhook == [id : Nat, enabled : BOOLEAN, secret : Nat]
WebhookDelivery == [hook : Nat, status : {"pending", "success", "failed"}]
AuditEntry == [key : STRING]

State ==
  [users : SUBSET User, organizations : SUBSET Organization, projects : SUBSET Project,
   flags : SUBSET Flag, environments : SUBSET Environment, segments : SUBSET Segment,
   roles : SUBSET Role, members : SUBSET Member, sdkKeys : SUBSET SdkKey,
   contexts : SUBSET SeenContext, configs : SUBSET [flag : STRING, env : STRING, config : FlagConfig],
   changes : SUBSET ChangeRequest, scheduled : SUBSET ScheduledChange,
   triggers : SUBSET FlagTrigger, webhooks : SUBSET Webhook, nextId : Nat, late : BOOLEAN]

\* What the api's generic parameters promise of an answer of each shape.
RowsOfShape ==
  [users |-> User, organizations |-> Organization, projects |-> Project, project |-> Project,
   flag |-> Flag, lifecycle |-> FlagLifecycle, envFlags |-> FlagWithState, config |-> FlagConfig,
   flagStats |-> FlagStats, envStats |-> EnvStats, environments |-> Environment,
   segments |-> Segment, segment |-> Segment, roles |-> Role, permissions |-> Role,
   members |-> Member, sdkKeys |-> SdkKey, contexts |-> SeenContext, context |-> ContextEvaluation,
   changes |-> ChangeRequest, scheduled |-> ScheduledChange, triggers |-> FlagTrigger,
   webhooks |-> Webhook, deliveries |-> WebhookDelivery, audit |-> AuditEntry]

----------------------------------------------------------------------------
(* State.                                                                  *)

NewConfig == [on |-> FALSE, off |-> 1, fallthrough |-> 0, targets |-> {}, rules |-> <<>>,
              version |-> 1]

mockMembers == {[id |-> 1]}
mockSdkKeys == {[id |-> 1]}
mockContexts == {[key |-> "alice", kind |-> "user"], [key |-> "acme-corp", kind |-> "account"]}

Seed ==
  [users |-> {[id |-> 1], [id |-> 2]},
   organizations |-> {[key |-> "acme"]},
   projects |-> {[key |-> "checkout", content |-> "Checkout"],
                 [key |-> "mobile-app", content |-> "Mobile App"]},
   flags |-> {[key |-> "new-checkout", content |-> "temporary"],
             [key |-> "pricing-tier", content |-> "permanent"]},
   environments |-> {[key |-> "production", id |-> 1], [key |-> "staging", id |-> 2]},
   segments |-> {[key |-> "beta-users", content |-> "old", version |-> 1]},
   roles |-> {[key |-> "writer"], [key |-> "reader"]},
   members |-> mockMembers, sdkKeys |-> mockSdkKeys, contexts |-> mockContexts,
   configs |-> {}, changes |-> {}, scheduled |-> {}, triggers |-> {}, webhooks |-> {},
   nextId |-> 3, late |-> FALSE]

\* flagConfigs[configKey(flag, env)] ?? newConfig().
ConfigOf(s, f, e) ==
  LET found == {c \in s.configs : c.flag = f /\ c.env = e}
  IN IF found = {} THEN NewConfig ELSE (CHOOSE c \in found : TRUE).config

SetConfig(s, f, e, config) ==
  [s EXCEPT !.configs = {c \in @ : ~(c.flag = f /\ c.env = e)}
                          \cup {[flag |-> f, env |-> e, config |-> config]}]

\* reorderRules: rules the order does not name come first.
Reordered(rules, order) ==
  LET rank(r) == IF \E i \in DOMAIN order : order[i] = r.id
                 THEN CHOOSE i \in DOMAIN order : order[i] = r.id ELSE 0
  IN SortSeq(rules, LAMBDA a, b : rank(a) < rank(b))

Apply(c, ins, id) ==
  CASE ins.kind = "turnFlagOn" -> [c EXCEPT !.on = TRUE]
    [] ins.kind = "turnFlagOff" -> [c EXCEPT !.on = FALSE]
    [] ins.kind = "updateOffVariation" -> [c EXCEPT !.off = ins.variation]
    [] ins.kind = "updateFallthroughVariation" -> [c EXCEPT !.fallthrough = ins.variation]
    [] ins.kind = "addTargets" -> [c EXCEPT !.targets = @ \cup {<<ins.variation, ins.value>>}]
    [] ins.kind = "removeTargets" -> [c EXCEPT !.targets = @ \ {<<ins.variation, ins.value>>}]
    [] ins.kind = "addRule" -> [c EXCEPT !.rules = Append(@, [id |-> id, serves |-> ins.serves])]
    [] ins.kind = "updateRule" ->
         [c EXCEPT !.rules = [i \in DOMAIN @ |->
                                IF @[i].id = ins.rule THEN [id |-> ins.rule, serves |-> ins.serves]
                                                      ELSE @[i]]]
    [] ins.kind = "removeRule" -> [c EXCEPT !.rules = SelectSeq(@, LAMBDA r : r.id # ins.rule)]
    [] ins.kind = "reorderRules" -> [c EXCEPT !.rules = Reordered(@, ins.order)]

\* The version grows once, however many instructions there are.
ApplyInstructions(s, f, e, instructions) ==
  LET c == FoldLeft(LAMBDA c, ins : Apply(c, ins, s.nextId), ConfigOf(s, f, e), instructions)
  IN [SetConfig(s, f, e, [c EXCEPT !.version = @ + 1]) EXCEPT !.nextId = @ + 1]

\* Newest first.  Every scheduled change is for the same moment, which `late' says is
\* past.
Due(s) == {c \in s.scheduled : s.late /\ c.status = "pending"}
RunDueScheduledChanges(s) ==
  LET runs == SetToSortSeq(Due(s), LAMBDA a, b : a.id > b.id)
      applied == FoldLeft(LAMBDA t, c : ApplyInstructions(t, c.flag, c.env, c.instructions), s, runs)
  IN [s EXCEPT !.configs = applied.configs, !.nextId = applied.nextId,
               !.scheduled = {IF c \in Due(s) THEN [c EXCEPT !.status = "applied"] ELSE c : c \in @}]

----------------------------------------------------------------------------
(* Users, organizations, projects.                                         *)

GetUsers(s) == Ok(s, "users", s.users)
PostUser(s) == Ok(Add(s, "users", [id |-> s.nextId]), "user", {[id |-> s.nextId]})
DeleteUser(s, i) == Drop(s, "users", WithId(s.users, i))

GetOrganizations(s) == Ok(s, "organizations", s.organizations)
DeleteOrganization(s, k) == Drop(s, "organizations", Keyed(s.organizations, k))

GetProjects(s) == Ok(s, "projects", s.projects)
PostProject(s, row) == Ok(Add(s, "projects", row), "project", {row})
GetProject(s, k) == One(s, "project", Keyed(s.projects, k))
DeleteProject(s, k) == Drop(s, "projects", Keyed(s.projects, k))

\* External: the mock has no such handler; the API renames the project.
PatchProject(s, k, name) ==
  LET row == [key |-> k, content |-> name]
  IN IF Keyed(s.projects, k) = {} THEN Refused(s)
     ELSE Ok(Put(s, "projects", Keyed(s.projects, k), row), "project", {row})

(* Roles, members.                                                         *)

GetPermissions(s) == Ok(s, "permissions", {[key |-> "flag.read"], [key |-> "flag.write"]})
GetRoles(s) == Ok(s, "roles", s.roles)
PostRole(s, row) == Ok(Add(s, "roles", row), "role", {row})
PostProjectRole(s) == Ok(s, "grant", {})
GetMembersEmpty(s) == Ok(s, "", {})    \* Wrong variant: no body.
GetMembers(s) == Ok(s, "members", s.members)
PostMember(s) == Ok(Add(s, "members", [id |-> s.nextId]), "member", {})

(* Flags and their configurations.                                         *)

GetLifecycle(s) ==
  Ok(s, "lifecycle",
     {[key |-> f.key, content |-> f.content,
       status |-> IF f.key = "pricing-tier" THEN "inactive" ELSE "active"] : f \in s.flags})

GetFlag(s, k) == One(s, "flag", Keyed(s.flags, k))

GetEnvFlags(s, e, q) ==
  Ok(s, "envFlags", {[key |-> f.key, content |-> f.content, on |-> ConfigOf(s, f.key, e).on] :
                       f \in IncludesAny(q, s.flags)})

\* The flag that has the key is replaced.
PutFlag(s, row) == Ok(Put(s, "flags", Keyed(s.flags, row.key), row), "flag", {row})

DeleteFlag(s, k) == Drop(s, "flags", Keyed(s.flags, k))

GetConfig(s, f, e) == Ok(s, "config", {ConfigOf(s, f, e)})

PatchConfig(s, f, e, instructions) ==
  LET t == ApplyInstructions(s, f, e, instructions)
  IN Ok(t, "config", {ConfigOf(t, f, e)})

GetFlagStats(s, f) == Ok(s, "flagStats", {[flag |-> f]})
GetEnvStats(s) == Ok(s, "envStats", {[flag |-> "new-checkout"], [flag |-> "pricing-tier"]})

(* Environments, SDK keys, contexts, segments.                             *)

GetEnvironments(s, q) == Ok(s, "environments", IncludesAny(q, s.environments))
PostEnvironment(s, k) ==
  LET row == [key |-> k, id |-> s.nextId]
  IN Ok(Add(s, "environments", row), "environment", {row})

GetSdkKeys(s) == Ok(s, "sdkKeys", s.sdkKeys)
PostSdkKey(s) == Ok(Add(s, "sdkKeys", [id |-> s.nextId]), "sdkKey", {[id |-> s.nextId]})
DeleteSdkKey(s, i) == Drop(s, "sdkKeys", WithId(s.sdkKeys, i))

GetContexts(s, q) == Ok(s, "contexts", IncludesAny(q, s.contexts))
GetContext(s, kind, k) ==
  IF \E c \in s.contexts : c.kind = kind /\ c.key = k
  THEN Ok(s, "context", {[key |-> f.key, content |-> f.content] : f \in s.flags})
  ELSE Refused(s)

GetSegments(s, q) == Ok(s, "segments", IncludesAny(q, s.segments))
GetSegment(s, k) == One(s, "segment", Keyed(s.segments, k))

\* Create or update: all but the version comes from the request.
PutSegment(s, k, content) ==
  LET old == Keyed(s.segments, k)
      version == IF old = {} THEN 1 ELSE (CHOOSE r \in old : TRUE).version + 1
      row == [key |-> k, content |-> content, version |-> version]
  IN Ok(Put(s, "segments", old, row), "segment", {row})

DeleteSegment(s, k) == Drop(s, "segments", Keyed(s.segments, k))

(* Approvals, scheduled changes.                                           *)

OfStatus(rows, status) == {r \in rows : status \in {"all", r.status}}
OfFlag(rows, f, e) == {r \in rows : r.flag = f /\ r.env = e}

GetChanges(s, status) == Ok(s, "changes", OfStatus(s.changes, status))

PostChange(s, f, e, instructions) ==
  LET row == [id |-> s.nextId, flag |-> f, env |-> e, instructions |-> instructions,
              status |-> "pending"]
  IN IF instructions = <<>> THEN Refused(s) ELSE Ok(Add(s, "changes", row), "change", {row})

\* Approve, reject and cancel: once, while it is pending.
Settled(s, field, i, status) ==
  LET found == {r \in WithId(s[field], i) : r.status = "pending"}
      row == CHOOSE r \in found : TRUE
  IN IF found = {} THEN Refused(s)
     ELSE Ok(Put(s, field, found, [row EXCEPT !.status = status]), "change",
             {[row EXCEPT !.status = status]})

RejectChange(s, i) == Settled(s, "changes", i, "rejected")

ApproveChange(s, i) ==
  LET reply == Settled(s, "changes", i, "approved")
      row == CHOOSE r \in WithId(s.changes, i) : TRUE
  IN IF ~reply.ok THEN reply
     ELSE [reply EXCEPT !.db = ApplyInstructions(@, row.flag, row.env, row.instructions)]

GetScheduledChanges(s, f, e) ==
  LET t == RunDueScheduledChanges(s) IN Ok(t, "scheduled", OfFlag(t.scheduled, f, e))

PostScheduledChange(s, f, e, instructions) ==
  LET row == [id |-> s.nextId, flag |-> f, env |-> e, instructions |-> instructions,
              status |-> "pending"]
  IN IF instructions = <<>> \/ s.late THEN Refused(s)
     ELSE Ok(Add(s, "scheduled", row), "change", {row})

CancelScheduledChange(s, i) == Settled(s, "scheduled", i, "cancelled")

(* Triggers and webhooks: the secret is in the answers that mint it only.  *)

WithoutSecret(rows) == {[r EXCEPT !.secret = 0] : r \in rows}

\* Enable, reset: row i of a list, changed by the handler.
SetEnabled(s, field, i, enabled) ==
  LET row == CHOOSE r \in WithId(s[field], i) : TRUE
      new == [row EXCEPT !.enabled = enabled]
  IN IF WithId(s[field], i) = {} THEN Refused(s)
     ELSE Ok(Put(s, field, {row}, new), field, WithoutSecret({new}))

ResetSecret(s, field, i) ==
  LET row == CHOOSE r \in WithId(s[field], i) : TRUE
      new == [row EXCEPT !.secret = s.nextId]
  IN IF WithId(s[field], i) = {} THEN Refused(s)
     ELSE Ok([Put(s, field, {row}, new) EXCEPT !.nextId = @ + 1], field, {new})

\* Wrong variant: the list shows the tokens.
GetTriggersWithSecret(s, f, e) == Ok(s, "triggers", OfFlag(s.triggers, f, e))

GetTriggers(s, f, e) == Ok(s, "triggers", WithoutSecret(OfFlag(s.triggers, f, e)))
PostTrigger(s, f, e) ==
  LET row == [id |-> s.nextId, flag |-> f, env |-> e, enabled |-> TRUE, secret |-> s.nextId]
  IN Ok(Add(s, "triggers", row), "triggers", {row})
DeleteTrigger(s, i) == Drop(s, "triggers", WithId(s.triggers, i))

GetWebhooks(s) == Ok(s, "webhooks", WithoutSecret(s.webhooks))
PostWebhook(s) ==
  LET row == [id |-> s.nextId, enabled |-> TRUE, secret |-> s.nextId]
  IN Ok(Add(s, "webhooks", row), "webhooks", {row})
TestWebhook(s, i) == IF WithId(s.webhooks, i) = {} THEN Refused(s) ELSE Ok(s, "delivery", {})
GetDeliveries(s, i) == Ok(s, "deliveries", {[hook |-> i, status |-> "success"],
                                            [hook |-> i, status |-> "failed"]})
DeleteWebhook(s, i) == Drop(s, "webhooks", WithId(s.webhooks, i))

GetAudit(s, q) == Ok(s, "audit", {r \in {[key |-> "flag"], [key |-> "sdk_key"], [key |-> "segment"]} :
                                    q \in {"", r.key}})

----------------------------------------------------------------------------
(* A request names its handler; a is what its path and body carry.  The    *)
(* first handler whose path matches answers: "lifecycle" is no flag's key. *)

Handle(r, s) ==
  LET a == r.with IN
  CASE r.on = "GET users" -> GetUsers(s)
    [] r.on = "POST users" -> PostUser(s)
    [] r.on = "DELETE user" -> DeleteUser(s, a.id)
    [] r.on = "GET organizations" -> GetOrganizations(s)
    [] r.on = "DELETE organization" -> DeleteOrganization(s, a.key)
    [] r.on = "GET projects" -> GetProjects(s)
    [] r.on = "POST projects" -> PostProject(s, a)
    [] r.on = "GET project" -> GetProject(s, a.key)
    [] r.on = "PATCH project" -> PatchProject(s, a.key, a.content)
    [] r.on = "DELETE project" -> DeleteProject(s, a.key)
    [] r.on = "GET permissions" -> GetPermissions(s)
    [] r.on = "GET roles" -> GetRoles(s)
    [] r.on = "POST roles" -> PostRole(s, a)
    [] r.on = "POST project roles" -> PostProjectRole(s)
    [] r.on = "GET members" -> GetMembers(s)
    [] r.on = "POST members" -> PostMember(s)
    [] r.on = "GET lifecycle" -> GetLifecycle(s)
    [] r.on = "GET flag" -> IF a.flag = "lifecycle" THEN GetLifecycle(s) ELSE GetFlag(s, a.flag)
    [] r.on = "GET env flags" -> GetEnvFlags(s, a.env, a.search)
    [] r.on = "PUT flag" -> PutFlag(s, a)
    [] r.on = "DELETE flag" -> DeleteFlag(s, a.flag)
    [] r.on = "GET config" -> GetConfig(s, a.flag, a.env)
    [] r.on = "PATCH config" -> PatchConfig(s, a.flag, a.env, a.instructions)
    [] r.on = "GET flag stats" -> GetFlagStats(s, a.flag)
    [] r.on = "GET env stats" -> GetEnvStats(s)
    [] r.on = "GET environments" -> GetEnvironments(s, a.search)
    [] r.on = "POST environments" -> PostEnvironment(s, a.key)
    [] r.on = "GET sdk-keys" -> GetSdkKeys(s)
    [] r.on = "POST sdk-keys" -> PostSdkKey(s)
    [] r.on = "DELETE sdk-key" -> DeleteSdkKey(s, a.id)
    [] r.on = "GET contexts" -> GetContexts(s, a.search)
    [] r.on = "GET context" -> GetContext(s, a.kind, a.key)
    [] r.on = "GET segments" -> GetSegments(s, a.search)
    [] r.on = "GET segment" -> GetSegment(s, a.key)
    [] r.on = "PUT segment" -> PutSegment(s, a.key, a.content)
    [] r.on = "DELETE segment" -> DeleteSegment(s, a.key)
    [] r.on = "GET changes" -> GetChanges(s, a.status)
    [] r.on = "POST changes" -> PostChange(s, a.flag, a.env, a.instructions)
    [] r.on = "POST approve" -> ApproveChange(s, a.id)
    [] r.on = "POST reject" -> RejectChange(s, a.id)
    [] r.on = "GET scheduled-changes" -> GetScheduledChanges(s, a.flag, a.env)
    [] r.on = "POST scheduled-changes" -> PostScheduledChange(s, a.flag, a.env, a.instructions)
    [] r.on = "POST cancel" -> CancelScheduledChange(s, a.id)
    [] r.on = "GET triggers" -> GetTriggers(s, a.flag, a.env)
    [] r.on = "POST triggers" -> PostTrigger(s, a.flag, a.env)
    [] r.on = "POST trigger enabled" -> SetEnabled(s, "triggers", a.id, a.enabled)
    [] r.on = "POST trigger reset" -> ResetSecret(s, "triggers", a.id)
    [] r.on = "DELETE trigger" -> DeleteTrigger(s, a.id)
    [] r.on = "GET audit" -> GetAudit(s, a.search)
    [] r.on = "GET webhooks" -> GetWebhooks(s)
    [] r.on = "POST webhooks" -> PostWebhook(s)
    [] r.on = "POST webhook enabled" -> SetEnabled(s, "webhooks", a.id, a.enabled)
    [] r.on = "POST webhook reset" -> ResetSecret(s, "webhooks", a.id)
    [] r.on = "POST test" -> TestWebhook(s, a.id)
    [] r.on = "GET deliveries" -> GetDeliveries(s, a.id)
    [] r.on = "DELETE webhook" -> DeleteWebhook(s, a.id)
=============================================================================
