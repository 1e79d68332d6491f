-------------------------- MODULE DashboardProofs ---------------------------
(***************************************************************************)
(* Proofs about the signed-in dashboard (Dashboard): what a page is handed *)
(* has the shape it asks for, secrets stay out of the query cache, and a   *)
(* mutation waits only for fetches that are under way.  They rest on one   *)
(* invariant, DashboardInv, which follows data from the backend through    *)
(* requests, answers and the cache to the pages and back.                  *)
(***************************************************************************)
EXTENDS Dashboard, SequenceTheorems, TLAPS
----------------------------------------------------------------------------
(* The invariant.  Every part of it is about data of one kind on its way   *)
(* from the backend through a request, an answer and the cache to a page.  *)

\* The keys the data of each shape is cached under.
Key(k, head, n) == k[1] = head /\ Len(k) = n
Fits(k, shape) ==
  \/ shape = "organizations" /\ Key(k, "organizations", 2)
  \/ shape = "projects" /\ Key(k, "projects", 1)
  \/ shape = "project" /\ Key(k, "projects", 2)
  \/ shape = "lifecycle" /\ Key(k, "flags", 3) /\ k[3] = "lifecycle"
  \/ shape = "flag" /\ Key(k, "flags", 3)
  \/ shape = "envFlags" /\ Key(k, "flags", 5) /\ k[3] = "env"
  \/ shape = "config" /\ Key(k, "flags", 5) /\ k[4] = "config"
  \/ shape = "environments" /\ Key(k, "environments", 3)
  \/ shape = "segments" /\ Key(k, "segments", 3)
  \/ shape = "segment" /\ Key(k, "segments", 3) /\ k[3] # ""
  \/ shape = "contexts" /\ Key(k, "contexts", 4)
  \/ shape = "context" /\ Key(k, "contexts", 5)
  \/ shape = "sdkKeys" /\ Key(k, "sdk-keys", 3)
  \/ shape = "changes" /\ Key(k, "changes", 3)
  \/ shape = "scheduled" /\ Key(k, "scheduled-changes", 5)
  \/ shape = "triggers" /\ Key(k, "triggers", 4)
  \/ shape = "audit" /\ Key(k, "audit", 2)
  \/ shape = "webhooks" /\ Key(k, "webhooks", 1)
  \/ shape = "deliveries" /\ Key(k, "webhooks", 3)
  \/ shape = "roles" /\ Key(k, "roles", 1)
  \/ shape = "permissions" /\ Key(k, "permissions", 1)
  \/ shape = "members" /\ Key(k, "members", 1)
  \/ shape = "users" /\ Key(k, "users", 1)
  \/ shape = "flagStats" /\ Key(k, "stats", 6)
  \/ shape = "envStats" /\ Key(k, "stats", 5)

\* Rows that may be cached: no secret, and no segment without a key.
Clean(shape, rows) ==
  /\ shape \in {"triggers", "webhooks"} => \A r \in rows : r.secret = 0
  /\ shape \in {"segments", "segment"} => \A r \in rows : r.key # ""
RowsGood(k, shape, rows) == Fits(k, shape) /\ Clean(shape, rows)
DataGood(k, shape, rows) == (shape = "" /\ rows = {}) \/ RowsGood(k, shape, rows)

DbGood(s) ==
  /\ {"segments", "triggers", "webhooks"} \subseteq DOMAIN s
  /\ \A r \in s.triggers : "secret" \in DOMAIN r
  /\ \A r \in s.webhooks : "secret" \in DOMAIN r
  /\ \A r \in s.segments : r.key # ""

\* An answer that may be cached under k, and a request that has no other.
ReplyGood(k, reply) == reply.ok => RowsGood(k, reply.body.shape, reply.body.rows)
ReqGood(k, req) == \A s : DbGood(s) => ReplyGood(k, Handle(req, s)) /\ DbGood(Handle(req, s).db)

QueryGood(q) == Fits(q.key, q.shape) /\ ReqGood(q.key, q.req)

EntryFields ==
  {"req", "shape", "rows", "status", "invalid", "fetch", "tries", "reply", "missed", "replyMissed",
   "raced"}
Statuses == {"pending", "success", "error"}
EntryGood(k, e) ==
  /\ DOMAIN e = EntryFields
  /\ ReqGood(k, e.req)
  /\ DataGood(k, e.shape, e.rows)
  /\ e.reply.ok => RowsGood(k, e.reply.shape, e.reply.rows)
  /\ e.status \in Statuses /\ e.fetch \in {"idle", "asked", "answered"}
  /\ e.status = "success" => HasData(e)
CacheGood(c) == \A k \in DOMAIN c : EntryGood(k, c[k])

RouteGood(r) == r.page \in PageNames /\ (r.page = "segment" => r.item # "")

Hooks ==
  {"useToggleEnvFlag", "useCreateFlag", "useToggleFlag", "usePatchFlagConfig", "useDeleteFlag",
   "useCreateScheduledChange", "useCancelScheduledChange", "useCreateTrigger",
   "useSetTriggerEnabled", "useResetTrigger", "useDeleteTrigger", "useCreateChange",
   "useReviewChange", "useCreateSegment", "useSaveSegment", "useDeleteSegment",
   "useCreateProject", "useUpdateProject", "useDeleteProject", "useCreateEnvironment",
   "useDeleteOrganization", "useCreateUser", "useDeleteUser", "useAddMember",
   "useGrantProjectRole", "useCreateRole", "useCreateSdkKey", "useRevokeSdkKey",
   "useCreateWebhook", "useSetWebhookEnabled", "useResetWebhookSecret", "useTestWebhook",
   "useDeleteWebhook"}

\* The hooks whose onSuccess puts the answer into the cache, and its shape.
SetShape(hook) ==
  IF hook \in {"useToggleFlag", "usePatchFlagConfig"} THEN "config"
  ELSE IF hook = "useSaveSegment" THEN "segment" ELSE "project"
Setters == {"useToggleFlag", "usePatchFlagConfig", "useSaveSegment", "useUpdateProject"}

MutFields ==
  {"hook", "v", "row", "then", "sent", "c", "phase", "ok", "body", "missed", "waits", "live"}
Phases == {"sent", "answered", "waiting"}
MutGood(m, r) ==
  /\ DOMAIN m = MutFields
  /\ m.hook \in Hooks /\ m.phase \in Phases
  /\ m.then.do = "go" => RouteGood(m.then.to)
  /\ m.hook = "useCreateSegment" => m.v.key # ""
  /\ m.hook = "useSaveSegment" =>
       /\ m.sent.seg # "" /\ m.c.seg # ""
       /\ m.live => r.page = "segment"
  /\ m.ok /\ m.hook \in Setters => m.body.shape = SetShape(m.hook) /\ Clean(m.body.shape, m.body.rows)

\* What is fetched, and the mutations that wait for it.
Flying(c) == {k \in DOMAIN c : c[k].fetch # "idle"}
IsList(ms) == ms \in Seq({ms[i] : i \in DOMAIN ms})
MutsGood(ms, c, r) ==
  /\ IsList(ms)
  /\ \A i \in DOMAIN ms : MutGood(ms[i], r) /\ ms[i].waits \subseteq Flying(c)

\* The page's queries are cached under keys of their shapes, those of its shell included.
ViewGood(on, c, r) ==
  /\ \A q \in on : q.key \in DOMAIN c /\ Fits(q.key, q.shape)
  /\ r.page \notin OrgPages \cup SettingsPages => ProjectsKey \in DOMAIN c

DashboardInv ==
  /\ DbGood(db)
  /\ RouteGood(route)
  /\ CacheGood(cache)
  /\ MutsGood(muts, cache, route)
  /\ ViewGood(mounted, cache, route)

----------------------------------------------------------------------------
(* The handlers keep the backend's state good.                             *)

\* Reads, but for the scheduled changes'.
Reads ==
  {"GET users", "GET organizations", "GET projects", "GET project", "GET permissions", "GET roles",
   "GET members", "GET lifecycle", "GET flag", "GET env flags", "GET config", "GET flag stats",
   "GET env stats", "GET environments", "GET sdk-keys", "GET contexts", "GET context",
   "GET segments", "GET segment", "GET changes", "GET triggers", "GET audit", "GET webhooks",
   "GET deliveries"}

\* Writes that leave segments, triggers and webhooks alone.
OtherWrites ==
  {"POST users", "DELETE user", "DELETE organization", "POST projects", "PATCH project",
   "DELETE project", "POST roles", "POST project roles", "POST members", "PUT flag", "DELETE flag",
   "PATCH config", "POST environments", "POST sdk-keys", "DELETE sdk-key", "POST changes",
   "POST approve", "POST reject", "GET scheduled-changes", "POST scheduled-changes",
   "POST cancel", "POST test"}

RowWrites ==
  {"PUT segment", "DELETE segment", "POST triggers", "POST trigger enabled", "POST trigger reset",
   "DELETE trigger", "POST webhooks", "POST webhook enabled", "POST webhook reset",
   "DELETE webhook"}

\* A request the backend has a handler for; a segment is saved under a key.
ReqOk(r) ==
  /\ r.on \in Reads \cup OtherWrites \cup RowWrites
  /\ r.on = "PUT segment" => r.with.key # ""

SameRows(s, t) ==
  DOMAIN t = DOMAIN s /\ t.segments = s.segments /\ t.triggers = s.triggers /\ t.webhooks = s.webhooks

\* What leaves the three tables alone keeps the state good.
LEMMA SameRowsGood == ASSUME NEW s, DbGood(s), NEW t, SameRows(s, t) PROVE DbGood(t)
BY DEF DbGood, SameRows

\* A read changes nothing.
LEMMA ReadKeeps == ASSUME NEW s, NEW r, r.on \in Reads PROVE Handle(r, s).db = s
BY DEF Reads, Handle, Ok, Refused, One, GetUsers, GetOrganizations, GetProjects, GetProject,
   GetPermissions, GetRoles, GetMembers, GetLifecycle, GetFlag, GetEnvFlags, GetConfig, GetFlagStats,
   GetEnvStats, GetEnvironments, GetSdkKeys, GetContexts, GetContext, GetSegments, GetSegment,
   GetChanges, GetTriggers, GetAudit, GetWebhooks, GetDeliveries

\* Fields that are none of the three.
Others == {"users", "organizations", "projects", "flags", "environments", "roles", "members", "sdkKeys",
           "changes", "scheduled"}

\* Rows put into, or dropped from, another table.
LEMMA OtherField ==
  ASSUME NEW s, DbGood(s), NEW field \in Others, NEW row, NEW rows
  PROVE  SameRows(s, Put(s, field, rows, row)) /\ SameRows(s, Drop(s, field, rows).db)
BY DEF DbGood, Others, SameRows, Put, Drop, NoContent, Ok

\* Instructions change configurations and ids only.
LEMMA ApplySame ==
  ASSUME NEW s, DbGood(s), NEW f, NEW e, NEW instructions
  PROVE  SameRows(s, ApplyInstructions(s, f, e, instructions))
<1>1. \E x, y : ApplyInstructions(s, f, e, instructions) = [[s EXCEPT !.configs = x] EXCEPT !.nextId = y]
  BY Zenon DEF ApplyInstructions, SetConfig
<1> QED
  BY <1>1 DEF DbGood, SameRows

\* So does running the scheduled changes that are due.
LEMMA RunDueSame == ASSUME NEW s, DbGood(s) PROVE SameRows(s, RunDueScheduledChanges(s))
<1>1. \E x, y, z : RunDueScheduledChanges(s) = [s EXCEPT !.configs = x, !.nextId = y, !.scheduled = z]
  BY Zenon DEF RunDueScheduledChanges
<1> QED
  BY <1>1 DEF DbGood, SameRows

\* Approving, rejecting and cancelling change one row of changes or scheduled.
LEMMA SettledSame ==
  ASSUME NEW s, DbGood(s), NEW field \in Others, NEW i, NEW status
  PROVE  SameRows(s, Settled(s, field, i, status).db)
<1> DEFINE found == {r \in WithId(s[field], i) : r.status = "pending"}
           row == CHOOSE r \in found : TRUE
<1>1. \/ Settled(s, field, i, status).db = s
      \/ \E x, y : Settled(s, field, i, status).db = Put(s, field, x, y)
  BY DEF Settled, Ok, Refused
<1>2. SameRows(s, s)
  BY DEF SameRows
<1> QED
  BY <1>1, <1>2, OtherField

\* The writes to other tables, one by one.
LEMMA OtherWriteSame ==
  ASSUME NEW s, DbGood(s), NEW r, r.on \in OtherWrites PROVE SameRows(s, Handle(r, s).db)
<1> DEFINE t == Handle(r, s).db
<1>1. CASE r.on \in {"POST users", "POST projects", "POST roles", "POST project roles", "POST members",
                     "POST environments", "POST sdk-keys"}
  BY <1>1 DEF Handle, PostUser, PostProject, PostRole, PostProjectRole, PostMember, PostEnvironment,
     PostSdkKey, Ok, Add, SameRows, DbGood
<1>2. CASE r.on \in {"DELETE user", "DELETE organization", "DELETE project", "DELETE flag",
                     "DELETE sdk-key"}
  BY <1>2, OtherField DEF Others, Handle, DeleteUser, DeleteOrganization, DeleteProject, DeleteFlag,
     DeleteSdkKey
<1>3. CASE r.on \in {"PATCH project", "PUT flag", "POST test"}
  BY <1>3 DEF Handle, PatchProject, PutFlag, TestWebhook, Ok, Refused, Put, SameRows, DbGood
<1>4. CASE r.on \in {"PATCH config"}
  <2>1. t = ApplyInstructions(s, r.with.flag, r.with.env, r.with.instructions)
    BY <1>4 DEF Handle, PatchConfig, Ok
  <2> QED
    BY <2>1, ApplySame
<1>5. CASE r.on \in {"POST changes", "POST scheduled-changes"}
  BY <1>5 DEF Handle, PostChange, PostScheduledChange, Ok, Refused, Add, SameRows, DbGood
<1>6. CASE r.on \in {"POST reject", "POST cancel"}
  BY <1>6, SettledSame DEF Others, Handle, RejectChange, CancelScheduledChange
<1>7. CASE r.on = "POST approve"
  <2> DEFINE reply == Settled(s, "changes", r.with.id, "approved")
  <2>1. SameRows(s, reply.db)
    BY SettledSame DEF Others
  <2>2. "db" \in DOMAIN reply
    BY DEF Settled, Ok, Refused
  <2>3. t = reply.db \/ \E f, e, x : t = ApplyInstructions(reply.db, f, e, x)
    <3>1. Handle(r, s) = ApproveChange(s, r.with.id)
      BY <1>7 DEF Handle
    <3>2. \/ ApproveChange(s, r.with.id) = reply
          \/ \E f, e, x : ApproveChange(s, r.with.id) =
                            [reply EXCEPT !.db = ApplyInstructions(reply.db, f, e, x)]
      BY Zenon DEF ApproveChange
    <3> HIDE DEF reply
    <3> QED
      BY <2>2, <3>1, <3>2
  <2> HIDE DEF reply, t
  <2>4. DbGood(reply.db)
    BY <2>1, SameRowsGood
  <2>5. t = reply.db \/ SameRows(reply.db, t)
    BY <2>3, <2>4, ApplySame
  <2> QED
    BY <2>1, <2>5 DEF SameRows, t
<1>8. CASE r.on = "GET scheduled-changes"
  <2>1. t = RunDueScheduledChanges(s)
    BY <1>8 DEF Handle, GetScheduledChanges, Ok
  <2> QED
    BY <2>1, RunDueSame
<1> QED
  BY <1>1, <1>2, <1>3, <1>4, <1>5, <1>6, <1>7, <1>8 DEF OtherWrites

\* Rows with a secret stay rows with a secret.
LEMMA SecretField ==
  ASSUME NEW s, DbGood(s), NEW field \in {"triggers", "webhooks"}
  PROVE  /\ \A row : "secret" \in DOMAIN row => DbGood(Add(s, field, row))
         /\ \A row, rows : "secret" \in DOMAIN row => DbGood(Put(s, field, rows, row))
<1>1. CASE field = "triggers"
  BY <1>1 DEF DbGood, Add, Put
<1>2. CASE field = "webhooks"
  BY <1>2 DEF DbGood, Add, Put
<1> QED
  BY <1>1, <1>2

\* Enabling and resetting keep the row's fields.
LEMMA ChangedRow ==
  ASSUME NEW s, DbGood(s), NEW field \in {"triggers", "webhooks"}, NEW i, NEW enabled
  PROVE  DbGood(SetEnabled(s, field, i, enabled).db) /\ DbGood(ResetSecret(s, field, i).db)
<1>1. CASE WithId(s[field], i) = {}
  BY <1>1 DEF SetEnabled, ResetSecret, Refused
<1>2. CASE WithId(s[field], i) # {}
  <2> DEFINE row == CHOOSE r \in WithId(s[field], i) : TRUE
             one == [row EXCEPT !.enabled = enabled]
             two == [row EXCEPT !.secret = s.nextId]
  <2>1. row \in s[field]
    BY <1>2 DEF WithId
  <2>2. "secret" \in DOMAIN row
    BY <2>1 DEF DbGood
  <2>3. SetEnabled(s, field, i, enabled).db = Put(s, field, {row}, one)
    BY <1>2 DEF SetEnabled, Ok
  <2>4. ResetSecret(s, field, i).db = [Put(s, field, {row}, two) EXCEPT !.nextId = @ + 1]
    BY <1>2 DEF ResetSecret, Ok
  <2> HIDE DEF row
  <2>5. "secret" \in DOMAIN one /\ "secret" \in DOMAIN two
    BY <2>2
  <2> HIDE DEF one, two
  <2>6. DbGood(Put(s, field, {row}, one)) /\ DbGood(Put(s, field, {row}, two))
    BY <2>5, SecretField
  <2>7. SameRows(Put(s, field, {row}, two), ResetSecret(s, field, i).db)
    BY <2>4, <2>6 DEF SameRows, DbGood
  <2> QED
    BY <2>3, <2>6, <2>7, SameRowsGood
<1> QED
  BY <1>1, <1>2

\* The writes to segments, triggers and webhooks, one by one.
LEMMA RowWriteGood ==
  ASSUME NEW s, DbGood(s), NEW r, r.on \in RowWrites, ReqOk(r) PROVE DbGood(Handle(r, s).db)
<1> DEFINE t == Handle(r, s).db
<1>1. CASE r.on = "PUT segment"
  <2>1. PICK rows, row : row.key = r.with.key /\ t = Put(s, "segments", rows, row)
    BY <1>1 DEF Handle, PutSegment, Ok
  <2> QED
    BY <1>1, <2>1 DEF ReqOk, DbGood, Put
<1>2. CASE r.on \in {"DELETE segment", "DELETE trigger", "DELETE webhook"}
  BY <1>2 DEF Handle, DeleteSegment, DeleteTrigger, DeleteWebhook, Drop, NoContent, Ok, DbGood
<1>3. CASE r.on \in {"POST triggers", "POST webhooks"}
  BY <1>3, SecretField DEF Handle, PostTrigger, PostWebhook, Ok
<1>4. CASE r.on \in {"POST trigger enabled", "POST webhook enabled", "POST trigger reset",
                     "POST webhook reset"}
  BY <1>4, ChangedRow DEF Handle
<1> QED
  BY <1>1, <1>2, <1>3, <1>4 DEF RowWrites

\* No request takes the backend out of its good states.
LEMMA HandleGood == ASSUME NEW s, DbGood(s), NEW r, ReqOk(r) PROVE DbGood(Handle(r, s).db)
<1>1. CASE r.on \in Reads
  BY <1>1, ReadKeeps
<1>2. CASE r.on \in OtherWrites
  BY <1>2, OtherWriteSame, SameRowsGood
<1>3. CASE r.on \in RowWrites
  BY <1>3, RowWriteGood
<1> QED
  BY <1>1, <1>2, <1>3 DEF ReqOk

----------------------------------------------------------------------------
(* The queries: keys, shapes and answers go together.                      *)

\* Every key of lib/query-keys.ts fits the shape its hook asks for.
LEMMA KeyFits ==
  ASSUME NEW c, NEW x, NEW y
  PROVE  /\ Fits(OrganizationsKey, "organizations") /\ Fits(ProjectsKey, "projects")
         /\ Fits(ProjectKey(c), "project") /\ Fits(FlagLifecycleKey(c), "lifecycle")
         /\ Fits(FlagKey(c), "flag") /\ Fits(EnvFlagsKey(c) \o <<x>>, "envFlags")
         /\ Fits(FlagConfigKey(c), "config") /\ Fits(EnvironmentsKey(c) \o <<x>>, "environments")
         /\ Fits(SegmentsKey(c) \o <<x>>, "segments")
         /\ c.seg # "" => Fits(SegmentKey(c), "segment")
         /\ Fits(ContextsKey(c) \o <<x>>, "contexts") /\ Fits(ContextsKey(c) \o <<x, y>>, "context")
         /\ Fits(SdkKeysKey(c), "sdkKeys") /\ Fits(ChangesKey(c) \o <<x>>, "changes")
         /\ Fits(ScheduledChangesKey(c) \o <<c.flag, c.env, x>>, "scheduled")
         /\ Fits(TriggersKey(c) \o <<c.flag, c.env>>, "triggers")
         /\ Fits(AuditKey \o <<x>>, "audit") /\ Fits(WebhooksKey, "webhooks")
         /\ Fits(WebhooksKey \o <<x, y>>, "deliveries") /\ Fits(RolesKey, "roles")
         /\ Fits(PermissionsKey, "permissions") /\ Fits(MembersKey, "members")
         /\ Fits(UsersKey, "users")
<1> USE DEF Fits, Key
<1>1. /\ Fits(OrganizationsKey, "organizations") /\ Fits(ProjectsKey, "projects")
      /\ Fits(ProjectKey(c), "project") /\ Fits(SdkKeysKey(c), "sdkKeys")
      /\ Fits(WebhooksKey, "webhooks") /\ Fits(RolesKey, "roles") /\ Fits(MembersKey, "members")
      /\ Fits(PermissionsKey, "permissions") /\ Fits(UsersKey, "users")
  BY DEF OrganizationsKey, ProjectsKey, ProjectKey, SdkKeysKey, WebhooksKey, RolesKey, PermissionsKey,
     MembersKey, UsersKey
<1>2. /\ Fits(FlagLifecycleKey(c), "lifecycle") /\ Fits(FlagKey(c), "flag")
      /\ Fits(FlagConfigKey(c), "config")
  BY DEF FlagLifecycleKey, FlagKey, FlagConfigKey, FlagsKey
<1>3. Fits(EnvFlagsKey(c) \o <<x>>, "envFlags")
  BY DEF EnvFlagsKey, FlagsKey
<1>4. /\ Fits(EnvironmentsKey(c) \o <<x>>, "environments") /\ Fits(SegmentsKey(c) \o <<x>>, "segments")
  BY DEF EnvironmentsKey, SegmentsKey
<1>8. c.seg # "" => Fits(SegmentKey(c), "segment")
  <2>1. Key(SegmentKey(c), "segments", 3) /\ SegmentKey(c)[3] = c.seg
    BY DEF SegmentsKey, SegmentKey
  <2> QED
    BY <2>1
<1>5. Fits(ContextsKey(c) \o <<x>>, "contexts") /\ Fits(ContextsKey(c) \o <<x, y>>, "context")
  BY DEF ContextsKey
<1>6. /\ Fits(ChangesKey(c) \o <<x>>, "changes") /\ Fits(TriggersKey(c) \o <<c.flag, c.env>>, "triggers")
      /\ Fits(ScheduledChangesKey(c) \o <<c.flag, c.env, x>>, "scheduled")
  BY DEF ChangesKey, TriggersKey, ScheduledChangesKey
<1>7. Fits(AuditKey \o <<x>>, "audit") /\ Fits(WebhooksKey \o <<x, y>>, "deliveries")
  BY DEF AuditKey, WebhooksKey
<1> QED
  BY <1>1, <1>2, <1>3, <1>4, <1>5, <1>6, <1>7, <1>8

\* A request has the answer of its handler, wherever the key is.
LEMMA ReqGoodBy ==
  ASSUME NEW k, NEW req, ReqOk(req),
         \A s : DbGood(s) => ReplyGood(k, Handle(req, s))
  PROVE  ReqGood(k, req)
BY HandleGood DEF ReqGood

\* A read whose answer has one shape, not one with secrets or segments.
LEMMA PlainGood ==
  ASSUME NEW k, NEW reply, NEW shape, Fits(k, shape),
         shape \notin {"triggers", "webhooks", "segments", "segment"},
         reply.ok => reply.body.shape = shape
  PROVE  ReplyGood(k, reply)
BY DEF ReplyGood, RowsGood, Clean

\* An answer with clean rows of the key's shape may be cached; a refusal is not.
LEMMA OkGood ==
  ASSUME NEW k, NEW s, NEW shape, NEW rows, Fits(k, shape), Clean(shape, rows)
  PROVE  ReplyGood(k, Ok(s, shape, rows)) /\ ReplyGood(k, Refused(s))
<1>1. RowsGood(k, shape, rows)
  BY DEF RowsGood
<1>2. Ok(s, shape, rows).body.shape = shape /\ Ok(s, shape, rows).body.rows = rows /\ ~Refused(s).ok
  BY DEF Ok, Refused
<1> QED
  BY <1>1, <1>2 DEF ReplyGood

\* The shape of what a read answers, but for flags, segments, triggers and webhooks.
AnswerShape(on) ==
  CASE on = "GET users" -> "users"
    [] on = "GET organizations" -> "organizations"
    [] on = "GET projects" -> "projects"
    [] on = "GET project" -> "project"
    [] on = "GET permissions" -> "permissions"
    [] on = "GET roles" -> "roles"
    [] on = "GET members" -> "members"
    [] on = "GET lifecycle" -> "lifecycle"
    [] on = "GET env flags" -> "envFlags"
    [] on = "GET config" -> "config"
    [] on = "GET flag stats" -> "flagStats"
    [] on = "GET env stats" -> "envStats"
    [] on = "GET environments" -> "environments"
    [] on = "GET sdk-keys" -> "sdkKeys"
    [] on = "GET contexts" -> "contexts"
    [] on = "GET context" -> "context"
    [] on = "GET changes" -> "changes"
    [] on = "GET audit" -> "audit"
    [] on = "GET deliveries" -> "deliveries"
    [] on = "GET scheduled-changes" -> "scheduled"

PlainReads == (Reads \ {"GET flag", "GET segments", "GET segment", "GET triggers", "GET webhooks"})
                \cup {"GET scheduled-changes"}

\* Each of these reads answers with one shape.
LEMMA PlainAnswer ==
  ASSUME NEW s, NEW r, r.on \in PlainReads, Handle(r, s).ok
  PROVE  Handle(r, s).body.shape = AnswerShape(r.on)
BY DEF PlainReads, Reads, AnswerShape, Handle, Ok, Refused, One, GetUsers, GetOrganizations,
   GetProjects, GetProject, GetPermissions, GetRoles, GetMembers, GetLifecycle, GetEnvFlags, GetConfig,
   GetFlagStats, GetEnvStats, GetEnvironments, GetSdkKeys, GetContexts, GetContext, GetChanges, GetAudit,
   GetDeliveries, GetScheduledChanges

PlainOf(q) ==
  /\ q.req.on \in PlainReads
  /\ q.shape = AnswerShape(q.req.on)
  /\ Fits(q.key, q.shape)

\* A query of such a read is good.
LEMMA PlainQuery == ASSUME NEW q, PlainOf(q) PROVE QueryGood(q)
<1>1. q.shape \notin {"triggers", "webhooks", "segments", "segment"}
  BY DEF PlainOf, AnswerShape, PlainReads, Reads
<1>2. ReqOk(q.req)
  BY DEF PlainOf, ReqOk, PlainReads, Reads, OtherWrites
<1>3. ASSUME NEW s, DbGood(s) PROVE ReplyGood(q.key, Handle(q.req, s))
  BY <1>1, PlainAnswer, PlainGood DEF PlainOf
<1>4. ReqGood(q.key, q.req)
  BY <1>2, <1>3, ReqGoodBy
<1> QED
  BY <1>4 DEF QueryGood, PlainOf

\* The queries whose shape carries neither secrets nor segments.
LEMMA PlainQueries ==
  ASSUME NEW c, NEW x, NEW y
  PROVE  /\ QueryGood(useFlagLifecycle(c)) /\ QueryGood(useEnvFlags(c, x)) /\ QueryGood(useFlagConfig(c))
         /\ QueryGood(useScheduledChanges(c)) /\ QueryGood(useChanges(c, x)) /\ QueryGood(useProjects)
         /\ QueryGood(useProject(c)) /\ QueryGood(useEnvironments(c, x)) /\ QueryGood(useOrganizations)
         /\ QueryGood(useUsers) /\ QueryGood(useMembers) /\ QueryGood(useRoles)
         /\ QueryGood(usePermissions) /\ QueryGood(useSdkKeys(c)) /\ QueryGood(useWebhookDeliveries(x))
         /\ QueryGood(useContexts(c, x)) /\ QueryGood(useContext(c, x, y)) /\ QueryGood(useAudit(x))
         /\ QueryGood(useFlagStats(c, x)) /\ QueryGood(useEnvStats(c, x))
<1> USE DEF PlainOf, PlainReads, Reads, AnswerShape, Query, Ask
<1>1. PlainOf(useFlagLifecycle(c)) /\ PlainOf(useEnvFlags(c, x)) /\ PlainOf(useFlagConfig(c))
  BY KeyFits DEF useFlagLifecycle, useEnvFlags, useFlagConfig, flagsApi
<1>2. /\ PlainOf(useScheduledChanges(c)) /\ PlainOf(useChanges(c, x)) /\ PlainOf(useProjects)
      /\ PlainOf(useProject(c)) /\ PlainOf(useEnvironments(c, x)) /\ PlainOf(useOrganizations)
  BY KeyFits DEF useScheduledChanges, useChanges, useProjects, useProject, useEnvironments,
     useOrganizations, scheduledChangesApi, changesApi, projectsApi, environmentsApi, organizationsApi
<1>3. /\ PlainOf(useUsers) /\ PlainOf(useMembers) /\ PlainOf(useRoles) /\ PlainOf(usePermissions)
      /\ PlainOf(useSdkKeys(c)) /\ PlainOf(useWebhookDeliveries(x))
  BY KeyFits DEF useUsers, useMembers, useRoles, usePermissions, useSdkKeys, useWebhookDeliveries,
     usersApi, membersApi, rolesApi, sdkKeysApi, webhooksApi
<1>4. PlainOf(useContexts(c, x)) /\ PlainOf(useContext(c, x, y)) /\ PlainOf(useAudit(x))
  BY KeyFits DEF useContexts, useContext, useAudit, contextsApi, auditApi
<1>5. PlainOf(useFlagStats(c, x)) /\ PlainOf(useEnvStats(c, x))
  BY DEF useFlagStats, useEnvStats, analyticsApi, Fits, Key
<1> HIDE DEF PlainOf, PlainReads, Reads, AnswerShape, Query, Ask
<1> QED
  BY <1>1, <1>2, <1>3, <1>4, <1>5, PlainQuery, Zenon

\* A flag called "lifecycle" is answered with the lifecycle of the flags.
LEMMA FlagQuery == ASSUME NEW c PROVE QueryGood(useFlag(c))
<1> DEFINE k == FlagKey(c)
           req == Ask("GET flag", [flag |-> c.flag])
<1>1. useFlag(c).key = k /\ useFlag(c).req = req /\ useFlag(c).shape = "flag"
  BY DEF useFlag, Query, flagsApi
<1>2. Fits(k, "flag")
  BY KeyFits
<1>3. c.flag = "lifecycle" => Fits(k, "lifecycle")
  BY DEF Fits, Key, FlagKey, FlagsKey
<1>4. ReqOk(req)
  BY DEF ReqOk, Reads, Ask
<1>5. ASSUME NEW s, DbGood(s) PROVE ReplyGood(k, Handle(req, s))
  <2>1. CASE c.flag = "lifecycle"
    <3>1. Handle(req, s).body.shape = "lifecycle"
      BY <2>1 DEF Handle, Ask, GetLifecycle, Ok
    <3> QED
      BY <1>3, <2>1, <3>1, PlainGood
  <2>2. CASE c.flag # "lifecycle"
    <3>1. Handle(req, s).ok => Handle(req, s).body.shape = "flag"
      BY <2>2 DEF Handle, Ask, GetFlag, One, Ok, Refused
    <3> QED
      BY <1>2, <3>1, PlainGood
  <2> QED
    BY <2>1, <2>2
<1> HIDE DEF k, req
<1> QED
  BY <1>1, <1>2, <1>4, <1>5, ReqGoodBy DEF QueryGood

\* The search among the segments.
LEMMA SegmentsQuery == ASSUME NEW c, NEW x PROVE QueryGood(useSegments(c, x))
<1> DEFINE k == SegmentsKey(c) \o <<x>>
           req == Ask("GET segments", [search |-> x])
<1>1. useSegments(c, x).key = k /\ useSegments(c, x).req = req /\ useSegments(c, x).shape = "segments"
  BY DEF useSegments, Query, segmentsApi
<1>2. Fits(k, "segments")
  BY KeyFits
<1>4. ReqOk(req)
  BY DEF ReqOk, Reads, Ask
<1>5. ASSUME NEW s, DbGood(s) PROVE ReplyGood(k, Handle(req, s))
  <2>1. Handle(req, s) = Ok(s, "segments", IncludesAny(x, s.segments))
    BY DEF Handle, Ask, GetSegments
  <2>2. Clean("segments", IncludesAny(x, s.segments))
    BY <1>5 DEF Clean, IncludesAny, DbGood
  <2> HIDE DEF k, req
  <2> QED
    BY <1>2, <2>1, <2>2, OkGood
<1> HIDE DEF k, req
<1> QED
  BY <1>1, <1>2, <1>4, <1>5, ReqGoodBy DEF QueryGood

\* One segment.
LEMMA SegmentQuery == ASSUME NEW c, c.seg # "" PROVE QueryGood(useSegment(c))
<1> DEFINE k == SegmentKey(c)
           req == Ask("GET segment", [key |-> c.seg])
<1>1. useSegment(c).key = k /\ useSegment(c).req = req /\ useSegment(c).shape = "segment"
  BY DEF useSegment, Query, segmentsApi
<1>2. Fits(k, "segment")
  BY KeyFits
<1>4. ReqOk(req)
  BY DEF ReqOk, Reads, Ask
<1>5. ASSUME NEW s, DbGood(s) PROVE ReplyGood(k, Handle(req, s))
  <2>1. Handle(req, s) = One(s, "segment", Keyed(s.segments, c.seg))
    BY DEF Handle, Ask, GetSegment
  <2>2. Clean("segment", Keyed(s.segments, c.seg))
    BY <1>5 DEF Clean, Keyed, DbGood
  <2> HIDE DEF k, req
  <2> QED
    BY <1>2, <2>1, <2>2, OkGood DEF One
<1> HIDE DEF k, req
<1> QED
  BY <1>1, <1>2, <1>4, <1>5, ReqGoodBy DEF QueryGood

\* The lists of triggers and of webhooks leave the secrets out.
LEMMA TriggersQuery == ASSUME NEW c PROVE QueryGood(useTriggers(c))
<1> DEFINE k == TriggersKey(c) \o <<c.flag, c.env>>
           req == Ask("GET triggers", [flag |-> c.flag, env |-> c.env])
<1>1. useTriggers(c).key = k /\ useTriggers(c).req = req /\ useTriggers(c).shape = "triggers"
  BY DEF useTriggers, Query, triggersApi
<1>2. Fits(k, "triggers")
  BY KeyFits
<1>4. ReqOk(req)
  BY DEF ReqOk, Reads, Ask
<1>5. ASSUME NEW s, DbGood(s) PROVE ReplyGood(k, Handle(req, s))
  <2> DEFINE rows == WithoutSecret(OfFlag(s.triggers, c.flag, c.env))
  <2>1. Handle(req, s) = Ok(s, "triggers", rows)
    BY DEF Handle, Ask, GetTriggers
  <2>2. Clean("triggers", rows)
    BY <1>5 DEF Clean, WithoutSecret, OfFlag, DbGood
  <2> HIDE DEF k, req, rows
  <2> QED
    BY <1>2, <2>1, <2>2, OkGood
<1> HIDE DEF k, req
<1> QED
  BY <1>1, <1>2, <1>4, <1>5, ReqGoodBy DEF QueryGood

\* The webhooks, listed without their secrets.
LEMMA WebhooksQuery == QueryGood(useWebhooks)
<1> DEFINE k == WebhooksKey
           req == Ask("GET webhooks", None)
<1>1. useWebhooks.key = k /\ useWebhooks.req = req /\ useWebhooks.shape = "webhooks"
  BY DEF useWebhooks, Query, webhooksApi
<1>2. Fits(k, "webhooks")
  BY KeyFits
<1>4. ReqOk(req)
  BY DEF ReqOk, Reads, Ask
<1>5. ASSUME NEW s, DbGood(s) PROVE ReplyGood(k, Handle(req, s))
  <2> DEFINE rows == WithoutSecret(s.webhooks)
  <2>1. Handle(req, s) = Ok(s, "webhooks", rows)
    BY DEF Handle, Ask, GetWebhooks
  <2>2. Clean("webhooks", rows)
    BY <1>5 DEF Clean, WithoutSecret, DbGood
  <2> HIDE DEF k, req, rows
  <2> QED
    BY <1>2, <2>1, <2>2, OkGood
<1> HIDE DEF k, req
<1> QED
  BY <1>1, <1>2, <1>4, <1>5, ReqGoodBy DEF QueryGood

----------------------------------------------------------------------------
(* The mutations: what they ask of the backend and put into the cache.     *)

\* A segment is saved under a key.
Named(hook, c, v) ==
  /\ hook = "useCreateSegment" => v.key # ""
  /\ hook = "useSaveSegment" => c.seg # ""

\* What each mutation hook asks for is a request the backend handles.
LEMMA MutationReqs ==
  ASSUME NEW hook \in Hooks, NEW c, NEW v, Named(hook, c, v) PROVE ReqOk(MutationOf(hook, c, v).req)
<1> DEFINE req == MutationOf(hook, c, v).req
<1> SUFFICES ReqOk(req)
  OBVIOUS
<1>1. CASE hook \in {"useToggleEnvFlag", "useCreateFlag", "useToggleFlag", "usePatchFlagConfig",
                     "useDeleteFlag", "useCreateScheduledChange", "useCancelScheduledChange"}
  <2>1. req.on \in {"PATCH config", "PUT flag", "DELETE flag", "POST scheduled-changes",
                    "POST cancel"}
    BY <1>1 DEF MutationOf, Mutation, Ask, useToggleEnvFlag, useCreateFlag, useToggleFlag,
       usePatchFlagConfig, useDeleteFlag, useCreateScheduledChange, useCancelScheduledChange,
       flagsApi, scheduledChangesApi
  <2> HIDE DEF req
  <2> QED
    BY <2>1 DEF ReqOk, OtherWrites, RowWrites
<1>2. CASE hook \in {"useCreateTrigger", "useSetTriggerEnabled", "useResetTrigger", "useDeleteTrigger",
                     "useCreateChange", "useReviewChange"}
  <2>1. req.on \in {"POST triggers", "POST trigger enabled", "POST trigger reset",
                    "DELETE trigger", "POST changes", "POST approve", "POST reject"}
    BY <1>2 DEF MutationOf, Mutation, Ask, useCreateTrigger, useSetTriggerEnabled,
       useResetTrigger, useDeleteTrigger, useCreateChange, useReviewChange, triggersApi,
       changesApi
  <2> HIDE DEF req
  <2> QED
    BY <2>1 DEF ReqOk, OtherWrites, RowWrites
<1>3. CASE hook \in {"useCreateSegment", "useSaveSegment", "useDeleteSegment"}
  BY <1>3 DEF MutationOf, Mutation, Ask, ReqOk, OtherWrites, RowWrites,
     useCreateSegment, useSaveSegment, useDeleteSegment, segmentsApi, Named
<1>4. CASE hook \in {"useCreateProject", "useUpdateProject", "useDeleteProject", "useCreateEnvironment",
                     "useDeleteOrganization", "useCreateUser", "useDeleteUser"}
  <2>1. req.on \in {"POST projects", "PATCH project", "DELETE project", "POST environments",
                   "DELETE organization", "POST users", "DELETE user"}
    BY <1>4 DEF MutationOf, Mutation, Ask, useCreateProject, useUpdateProject, useDeleteProject,
       useCreateEnvironment, useDeleteOrganization, useCreateUser, useDeleteUser, projectsApi,
       environmentsApi, organizationsApi, usersApi
  <2> HIDE DEF req
  <2> QED
    BY <2>1 DEF ReqOk, OtherWrites, RowWrites
<1>5. CASE hook \in {"useAddMember", "useGrantProjectRole", "useCreateRole", "useCreateSdkKey",
                     "useRevokeSdkKey"}
  <2>1. req.on \in {"POST members", "POST project roles", "POST roles", "POST sdk-keys",
                    "DELETE sdk-key"}
    BY <1>5 DEF MutationOf, Mutation, Ask, useAddMember, useGrantProjectRole, useCreateRole,
       useCreateSdkKey, useRevokeSdkKey, membersApi, rolesApi, sdkKeysApi
  <2> HIDE DEF req
  <2> QED
    BY <2>1 DEF ReqOk, OtherWrites, RowWrites
<1>6. CASE hook \in {"useCreateWebhook", "useSetWebhookEnabled", "useResetWebhookSecret",
                     "useTestWebhook", "useDeleteWebhook"}
  <2>1. req.on \in {"POST webhooks", "POST webhook enabled", "POST webhook reset", "POST test",
                   "DELETE webhook"}
    BY <1>6 DEF MutationOf, Mutation, Ask, useCreateWebhook, useSetWebhookEnabled,
       useResetWebhookSecret, useTestWebhook, useDeleteWebhook, webhooksApi
  <2> HIDE DEF req
  <2> QED
    BY <2>1 DEF ReqOk, OtherWrites, RowWrites
<1> QED
  BY <1>1, <1>2, <1>3, <1>4, <1>5, <1>6 DEF Hooks

\* Only four hooks write into the cache, each under a key of the shape of its answer.
LEMMA SetsNothing ==
  ASSUME NEW hook \in Hooks \ Setters, NEW c, NEW v PROVE MutationOf(hook, c, v).set = <<>>
BY DEF Hooks, Setters, MutationOf, Mutation, useToggleEnvFlag, useCreateFlag, useDeleteFlag,
   useCreateScheduledChange, useCancelScheduledChange, useCreateTrigger, useSetTriggerEnabled,
   useResetTrigger, useDeleteTrigger, useCreateChange, useReviewChange, useCreateSegment,
   useDeleteSegment, useCreateProject, useDeleteProject, useCreateEnvironment, useDeleteOrganization,
   useCreateUser, useDeleteUser, useAddMember, useGrantProjectRole, useCreateRole, useCreateSdkKey,
   useRevokeSdkKey, useCreateWebhook, useSetWebhookEnabled, useResetWebhookSecret, useTestWebhook,
   useDeleteWebhook

\* The key a hook puts its answer under is one of the answer's shape.
LEMMA SetsShape ==
  ASSUME NEW hook \in Setters, NEW c, NEW v, Named(hook, c, v)
  PROVE  Fits(MutationOf(hook, c, v).set, SetShape(hook))
<1> USE DEF MutationOf, Mutation, SetShape
<1>1. CASE hook = "useToggleFlag"
  BY <1>1, KeyFits DEF useToggleFlag
<1>2. CASE hook = "usePatchFlagConfig"
  BY <1>2, KeyFits DEF usePatchFlagConfig
<1>3. CASE hook = "useSaveSegment"
  BY <1>3, KeyFits DEF useSaveSegment, Named
<1>4. CASE hook = "useUpdateProject"
  BY <1>4, KeyFits DEF useUpdateProject
<1> QED
  BY <1>1, <1>2, <1>3, <1>4 DEF Setters

\* What the backend answers to it has that shape, and no secret.
LEMMA SetAnswer ==
  ASSUME NEW hook \in Setters, NEW c, NEW v, Named(hook, c, v), NEW s,
         Handle(MutationOf(hook, c, v).req, s).ok
  PROVE  LET body == Handle(MutationOf(hook, c, v).req, s).body
         IN body.shape = SetShape(hook) /\ Clean(body.shape, body.rows)
<1> DEFINE req == MutationOf(hook, c, v).req
           body == Handle(req, s).body
<1>1. CASE hook \in {"useToggleFlag", "usePatchFlagConfig"}
  <2>1. req.on = "PATCH config"
    BY <1>1 DEF MutationOf, Mutation, useToggleFlag, usePatchFlagConfig, Ask, flagsApi
  <2> HIDE DEF req
  <2>2. body.shape = "config"
    BY <2>1 DEF Handle, PatchConfig, Ok
  <2> QED
    BY <1>1, <2>2 DEF SetShape, Clean, req
<1>2. CASE hook = "useSaveSegment"
  <2>1. req.on = "PUT segment" /\ req.with.key # ""
    BY <1>2 DEF MutationOf, Mutation, useSaveSegment, Ask, segmentsApi, Named
  <2> HIDE DEF req
  <2>2. body.shape = "segment" /\ \E row : row.key = req.with.key /\ body.rows = {row}
    BY <2>1 DEF Handle, PutSegment, Ok
  <2> QED
    BY <1>2, <2>1, <2>2 DEF SetShape, Clean, req
<1>3. CASE hook = "useUpdateProject"
  <2>1. req.on = "PATCH project"
    BY <1>3 DEF MutationOf, Mutation, useUpdateProject, Ask, projectsApi
  <2> HIDE DEF req
  <2>2. Handle(req, s).ok => body.shape = "project"
    BY <2>1 DEF Handle, PatchProject, Ok, Refused
  <2> QED
    BY <1>3, <2>2 DEF SetShape, Clean, req
<1> QED
  BY <1>1, <1>2, <1>3 DEF Setters

\* So the entry such a hook makes may be fetched with its request.
LEMMA SetReqGood ==
  ASSUME NEW hook \in Setters, NEW c, NEW v, Named(hook, c, v), NEW k, Fits(k, SetShape(hook))
  PROVE  ReqGood(k, MutationOf(hook, c, v).req)
<1> DEFINE req == MutationOf(hook, c, v).req
<1>1. ReqOk(req)
  BY MutationReqs DEF Hooks, Setters
<1>2. ASSUME NEW s, DbGood(s) PROVE ReplyGood(k, Handle(req, s))
  <2>1. Handle(req, s).ok => /\ Handle(req, s).body.shape = SetShape(hook)
                             /\ Clean(Handle(req, s).body.shape, Handle(req, s).body.rows)
    BY SetAnswer
  <2> HIDE DEF req
  <2> QED
    BY <2>1 DEF ReplyGood, RowsGood
<1> HIDE DEF req
<1> QED
  BY <1>1, <1>2, ReqGoodBy DEF req

----------------------------------------------------------------------------
(* The pages.                                                              *)

CmdGood(cmd, r) ==
  /\ cmd.hook \in Hooks
  /\ cmd.then.do = "go" => RouteGood(cmd.then.to)
  /\ cmd.hook = "useCreateSegment" => cmd.v.key # ""
  /\ cmd.hook = "useSaveSegment" => r.page = "segment"
LinkGood(to) == to.page = "segment" => to.item # ""

PageGood(page, r) ==
  /\ DOMAIN page = {"queries", "commands", "links", "choices", "lists"}
  /\ \A q \in page.queries : QueryGood(q)
  /\ \A cmd \in page.commands : CmdGood(cmd, r)
  /\ \A to \in page.links : LinkGood(to)

\* A page is good when what it renders is.
LEMMA PageMade ==
  ASSUME NEW r, NEW queries, \A q \in queries : QueryGood(q),
         NEW commands, \A cmd \in commands : CmdGood(cmd, r),
         NEW links, \A to \in links : LinkGood(to), NEW choices
  PROVE  PageGood(Page(queries, commands, links, choices), r)
BY DEF PageGood, Page

\* A list without controls adds nothing.
LEMMA ListMade ==
  ASSUME NEW r, NEW page, PageGood(page, r), NEW c, NEW q, NEW list
  PROVE  PageGood(WithList(page, c, q, list), r)
BY DEF PageGood, WithList

\* Hooks that ask nothing of the page they are on.
FreeHooks == Hooks \ {"useCreateSegment", "useSaveSegment"}

\* Controls with these hooks are good on every page.
LEMMA CmdMade ==
  ASSUME NEW r, NEW hook \in FreeHooks, NEW v, NEW unless, NEW row, NEW to
  PROVE  /\ CmdGood(Simple(hook, v), r)
         /\ CmdGood(Cmd(hook, v, unless, row, Nothing), r)
         /\ CmdGood(Cmd(hook, v, unless, row, Reveal), r)
         /\ RouteGood(to) => CmdGood(Going(hook, v, to), r)
BY DEF FreeHooks, CmdGood, Simple, Cmd, Nothing, Reveal, Going, Then

\* Links without an item lead to the pages they name.
LEMMA PlainPages == ASSUME NEW pages PROVE {to.page : to \in Plain(pages)} = pages
<1>1. \A p : To(p, "").page = p
  BY DEF To
<1> QED
  BY <1>1 DEF Plain

\* None of them leads to a segment without a key.
LEMMA PlainLinks ==
  ASSUME NEW pages, "segment" \notin pages PROVE \A to \in Plain(pages) : LinkGood(to)
BY PlainPages DEF LinkGood

\* Routes the pages navigate to.
LEMMA PageRoutes ==
  /\ \A p \in PageNames \ {"segment"} : \A x : RouteGood(To(p, x))
  /\ {"flag", "flags", "segments", "elsewhere", "segment"} \subseteq PageNames
BY DEF RouteGood, To, PageNames

\* The pages of the organization's and of the settings' shell.
LEMMA NamesAre ==
  /\ OrgPages = {"organizations", "users", "projects"}
  /\ SettingsPages = {"general", "settings projects", "members", "roles", "integrations", "sdk-keys",
                      "placeholder"}
<1>1. SettingsPages = {"flags", "general", "settings projects", "members", "roles", "integrations",
                       "sdk-keys", "placeholder"} \ {"flags"}
  BY PlainPages DEF SettingsPages, SettingsNav
<1> QED
  BY <1>1 DEF OrgPages

\* Organizations, users and projects.
LEMMA ProjectPagesGood ==
  ASSUME NEW r, NEW here, NEW u, NEW c
  PROVE  /\ PageGood(OrganizationsPage(here, u, c), r) /\ PageGood(UsersPage(here, u, c), r)
         /\ PageGood(ProjectsPage(here, u, c), r) /\ PageGood(ProjectsSettingsPage(here, u, c), r)
         /\ PageGood(GeneralSettingsPage(here, u, c), r) /\ PageGood(SettingsPlaceholder(here, u, c), r)
<1>0. {"useDeleteOrganization", "useCreateUser", "useDeleteUser", "useCreateProject", "useDeleteProject",
       "useUpdateProject"} \subseteq FreeHooks
  BY DEF FreeHooks, Hooks
<1>1. PageGood(OrganizationsPage(here, u, c), r)
  BY <1>0, PageMade, CmdMade, PlainLinks, PlainQueries DEF OrganizationsPage, OrganizationList
<1>2. PageGood(UsersPage(here, u, c), r)
  BY <1>0, PageMade, CmdMade, PlainQueries DEF UsersPage, UserList
<1>3. \A rows, deletes : \A to \in ProjectList(rows, here, deletes).links : LinkGood(to)
  BY PlainLinks DEF ProjectList
<1>4. \A rows : \A cmd \in ProjectList(rows, here, TRUE).commands : CmdGood(cmd, r)
  BY <1>0, CmdMade DEF ProjectList
<1>5. PageGood(ProjectsPage(here, u, c), r)
  <2>1. CmdGood(Going("useCreateProject", [key |-> "fresh", content |-> "new"], To("elsewhere", "")), r)
    BY <1>0, CmdMade, PageRoutes
  <2> QED
    BY <1>3, <2>1, PageMade, PlainQueries DEF ProjectsPage
<1>6. PageGood(ProjectsSettingsPage(here, u, c), r)
  BY <1>3, <1>4, PageMade, PlainQueries DEF ProjectsSettingsPage
<1>7. PageGood(GeneralSettingsPage(here, u, c), r)
  BY <1>0, PageMade, CmdMade, PlainQueries DEF GeneralSettingsPage
<1>8. PageGood(SettingsPlaceholder(here, u, c), r)
  BY PageMade DEF SettingsPlaceholder
<1> QED
  BY <1>1, <1>2, <1>5, <1>6, <1>7, <1>8

\* The flag list and the lifecycle.
LEMMA FlagPagesGood ==
  ASSUME NEW r, NEW here, NEW u, NEW c
  PROVE  PageGood(FlagsPage(here, u, c), r) /\ PageGood(LifecyclePage(here, u, c), r)
<1>0. {"useToggleEnvFlag", "useCreateFlag"} \subseteq FreeHooks
  BY DEF FreeHooks, Hooks
<1>1. \A x : LinkGood(To("flag", x))
  BY DEF LinkGood, To
<1>2. PageGood(FlagsPage(here, u, c), r)
  <2> DEFINE new == {Going("useCreateFlag", [key |-> k, content |-> "permanent"], To("flag", k)) :
                       k \in NewKeys}
             rows == ShownRows(c, {useEnvironments(here, ""), useEnvFlags(here, u.search)},
                               useEnvFlags(here, u.search))
  <2>1. \A cmd \in new : CmdGood(cmd, r)
    BY <1>0, CmdMade, PageRoutes
  <2>2. \A cmd \in FlagList(rows).commands : CmdGood(cmd, r)
    BY <1>0, CmdMade DEF FlagList
  <2>3. \A to \in FlagList(rows).links : LinkGood(to)
    BY <1>1 DEF FlagList
  <2> HIDE DEF new, rows
  <2>4. \A q \in {useEnvironments(here, ""), useEnvFlags(here, u.search)} : QueryGood(q)
    BY PlainQueries
  <2> QED
    BY <2>1, <2>2, <2>3, <2>4, PageMade DEF FlagsPage, new, rows
<1>3. PageGood(LifecyclePage(here, u, c), r)
  <2>1. \A rows : \A to \in FlagLifecycleList(rows) : LinkGood(to)
    BY <1>1 DEF FlagLifecycleList
  <2> QED
    BY <2>1, PageMade, PlainQueries DEF LifecyclePage
<1> QED
  BY <1>2, <1>3

\* The controls of a flag's configuration.
LEMMA ConfigCommands ==
  ASSUME NEW r, NEW here, NEW c, NEW config
  PROVE  \A cmd \in ConfigSection(here, c, config) : CmdGood(cmd, r)
<1>0. {"useCreateTrigger", "useCreateScheduledChange", "useCreateChange", "useToggleFlag",
       "usePatchFlagConfig", "useCancelScheduledChange", "useSetTriggerEnabled", "useResetTrigger",
       "useDeleteTrigger"} \subseteq FreeHooks
  BY DEF FreeHooks, Hooks
<1>1. \A x : CmdGood(Patch(x), r)
  BY <1>0, CmdMade DEF Patch
<1>2. \A cmd \in FlagTargeting(config) : CmdGood(cmd, r)
  BY <1>1 DEF FlagTargeting, VariationSelect, IndividualTargets
<1>3. \A cmd \in FlagRules(config.rules) : CmdGood(cmd, r)
  BY <1>1 DEF FlagRules
<1>4. \A cmd \in FlagConfigCard(here, config) : CmdGood(cmd, r)
  BY <1>0, CmdMade DEF FlagConfigCard
<1>5. \A rows : \A cmd \in ScheduledChangesCard(rows) : CmdGood(cmd, r)
  BY <1>0, CmdMade DEF ScheduledChangesCard
<1>6. \A rows : \A cmd \in TriggersCard(rows) : CmdGood(cmd, r)
  BY <1>0, CmdMade DEF TriggersCard
<1>7. /\ CmdGood(Cmd("useCreateTrigger", None, {"useCreateTrigger"}, "any", Reveal), r)
      /\ CmdGood(Simple("useCreateScheduledChange", RequestedChange(config)), r)
      /\ CmdGood(Simple("useCreateChange", RequestedChange(config)), r)
  BY <1>0, CmdMade
<1> QED
  BY <1>2, <1>3, <1>4, <1>5, <1>6, <1>7 DEF ConfigSection

\* The page of a flag.
LEMMA FlagDetailGood ==
  ASSUME NEW r, NEW here, NEW u, NEW c PROVE PageGood(FlagDetailPage(here, u, c), r)
<1> DEFINE config == useFlagConfig(here)
           rows == ShownRows(c, {useFlag(here), useEnvironments(here, ""), config}, config)
           queries == {useFlag(here), useEnvironments(here, ""), config, useScheduledChanges(here),
                       useTriggers(here)} \cup {FlagStatsSection(here, u) : x \in rows}
           commands == {Going("useDeleteFlag", [flag |-> here.flag], To("flags", ""))}
                         \cup UNION {ConfigSection(here, c, x) : x \in rows}
<1>1. \A q \in queries : QueryGood(q)
  BY PlainQueries, FlagQuery, TriggersQuery DEF FlagStatsSection
<1>2. CmdGood(Going("useDeleteFlag", [flag |-> here.flag], To("flags", "")), r)
  <2>1. "useDeleteFlag" \in FreeHooks
    BY DEF FreeHooks, Hooks
  <2> QED
    BY <2>1, CmdMade, PageRoutes
<1>3. \A cmd \in commands : CmdGood(cmd, r)
  BY <1>2, ConfigCommands
<1>4. \A to \in Plain({"flags"}) : LinkGood(to)
  BY PlainLinks
<1>5. \E choices : FlagDetailPage(here, u, c) = Page(queries, commands, Plain({"flags"}), choices)
  BY Zenon DEF FlagDetailPage
<1> HIDE DEF queries, commands
<1> QED
  BY <1>1, <1>3, <1>4, <1>5, PageMade

\* Approvals, audit and analytics.
LEMMA ReviewPagesGood ==
  ASSUME NEW r, NEW here, NEW u, NEW c
  PROVE  /\ PageGood(ApprovalsPage(here, u, c), r) /\ PageGood(AuditPage(here, u, c), r)
         /\ PageGood(AnalyticsPage(here, u, c), r)
<1>1. PageGood(ApprovalsPage(here, u, c), r)
  <2>1. "useReviewChange" \in FreeHooks
    BY DEF FreeHooks, Hooks
  <2>a. \A v : CmdGood(Simple("useReviewChange", v), r)
    BY <2>1, CmdMade
  <2>2. \A rows : \A cmd \in ChangeRequestList(rows) : CmdGood(cmd, r)
    <3> SUFFICES ASSUME NEW rows, NEW cmd \in ChangeRequestList(rows) PROVE CmdGood(cmd, r)
      OBVIOUS
    <3>1. PICK x : cmd \in {Simple("useReviewChange", [id |-> x.id, approve |-> TRUE]),
                           Simple("useReviewChange", [id |-> x.id, approve |-> FALSE])}
      BY Zenon DEF ChangeRequestList
    <3> QED
      BY <2>a, <3>1, Zenon
  <2> QED
    BY <2>2, PageMade, PlainQueries DEF ApprovalsPage
<1>2. PageGood(AuditPage(here, u, c), r)
  BY PageMade, ListMade, PlainQueries DEF AuditPage
<1>3. PageGood(AnalyticsPage(here, u, c), r)
  <2>a. \A x : LinkGood(To("flag", x))
    BY DEF LinkGood, To
  <2>1. \A rows : \A to \in StatsBars(rows) : LinkGood(to)
    BY <2>a DEF StatsBars
  <2>2. \A x : \A q \in {useEnvironments(here, ""), useEnvStats(here, x)} : QueryGood(q)
    BY PlainQueries
  <2> QED
    BY <2>1, <2>2, PageMade DEF AnalyticsPage
<1> QED
  BY <1>1, <1>2, <1>3

\* The segments listed, and those to be created, have keys.
LEMMA SegmentPagesGood ==
  ASSUME NEW r, RouteGood(r), NEW u, NEW c, CacheGood(c), NEW here, here.seg = r.item
  PROVE  /\ PageGood(SegmentsPage(here, u, c), r)
         /\ r.page = "segment" => PageGood(SegmentDetailPage(here, u, c), r)
<1>0. "useDeleteSegment" \in FreeHooks
  BY DEF FreeHooks, Hooks
<1>1. PageGood(SegmentsPage(here, u, c), r)
  <2> DEFINE q == useSegments(here, u.search)
             new == {Going("useCreateSegment", [key |-> k], To("segment", k)) : k \in NewKeys}
  <2>1. \A cmd \in new : CmdGood(cmd, r)
    <3>1. ASSUME NEW k \in NewKeys PROVE CmdGood(Going("useCreateSegment", [key |-> k], To("segment", k)), r)
      <4>1. k # ""
        BY DashboardAssumption
      <4>2. RouteGood(To("segment", k))
        BY <4>1, PageRoutes DEF RouteGood, To
      <4> QED
        BY <4>1, <4>2 DEF CmdGood, Going, Cmd, Then, Hooks
    <3> QED
      BY <3>1
  <2>2. QueryGood(q)
    BY SegmentsQuery
  <2>3. q.key \in DOMAIN c => \A x \in c[q.key].rows : x.key # ""
    <3> SUFFICES ASSUME q.key \in DOMAIN c PROVE \A x \in c[q.key].rows : x.key # ""
      OBVIOUS
    <3>1. DataGood(q.key, c[q.key].shape, c[q.key].rows)
      BY DEF CacheGood, EntryGood
    <3>2. q.key[1] = "segments"
      BY DEF useSegments, Query, SegmentsKey
    <3>3. Fits(q.key, c[q.key].shape) => c[q.key].shape \in {"segments", "segment"}
      BY <3>2 DEF Fits, Key
    <3> QED
      BY <3>1, <3>3 DEF DataGood, RowsGood, Clean
  <2> HIDE DEF q
  <2>4. \A x \in ShownRows(c, {q}, q) : x.key # ""
    BY <2>3 DEF ShownRows, RowsOf
  <2>a. \A x : x # "" => LinkGood(To("segment", x))
    BY DEF LinkGood, To
  <2>5. \A to \in SegmentList(ShownRows(c, {q}, q)) : LinkGood(to)
    BY <2>4, <2>a DEF SegmentList
  <2>6. \E choices : SegmentsPage(here, u, c) =
                       Page({q}, new, SegmentList(ShownRows(c, {q}, q)), choices)
    BY Zenon DEF SegmentsPage, q
  <2> HIDE DEF new
  <2> QED
    BY <2>1, <2>2, <2>5, <2>6, PageMade
<1>2. ASSUME r.page = "segment" PROVE PageGood(SegmentDetailPage(here, u, c), r)
  <2>1. QueryGood(useSegment(here))
    BY <1>2, SegmentQuery DEF RouteGood
  <2>2. CmdGood(Going("useDeleteSegment", [key |-> here.seg], To("segments", "")), r)
    BY <1>0, CmdMade, PageRoutes
  <2>3. CmdGood(Simple("useSaveSegment", [content |-> "new"]), r)
    BY <1>2 DEF CmdGood, Simple, Cmd, Nothing, Then, Hooks
  <2>4. \A to \in Plain({"segments"}) : LinkGood(to)
    BY PlainLinks
  <2> QED
    BY <2>1, <2>2, <2>3, <2>4, PageMade DEF SegmentDetailPage
<1> QED
  BY <1>1, <1>2

\* Contexts, environments, SDK keys, members, roles and webhooks.
LEMMA OtherPagesGood ==
  ASSUME NEW r, NEW here, NEW u, NEW c
  PROVE  /\ PageGood(ContextsPage(here, u, c), r) /\ PageGood(ContextDetailPage(here, u, c), r)
         /\ PageGood(EnvironmentsPage(here, u, c), r) /\ PageGood(SdkKeysPage(here, u, c), r)
         /\ PageGood(MembersSettingsPage(here, u, c), r) /\ PageGood(RolesSettingsPage(here, u, c), r)
         /\ PageGood(WebhooksSettingsPage(here, u, c), r)
<1>0. {"useCreateEnvironment", "useCreateSdkKey", "useRevokeSdkKey", "useAddMember", "useGrantProjectRole",
       "useCreateRole", "useCreateWebhook", "useSetWebhookEnabled", "useTestWebhook",
       "useResetWebhookSecret", "useDeleteWebhook"} \subseteq FreeHooks
  BY DEF FreeHooks, Hooks
<1>1. PageGood(ContextsPage(here, u, c), r)
  <2>a. \A x, y, z : LinkGood([page |-> "context", item |-> x, kind |-> y, env |-> z])
    BY DEF LinkGood
  <2>1. \A rows : \A to \in ContextList(here, rows) : LinkGood(to)
    BY <2>a DEF ContextList
  <2> QED
    BY <2>1, PageMade, PlainQueries DEF ContextsPage
<1>2. PageGood(ContextDetailPage(here, u, c), r)
  BY PageMade, ListMade, PlainLinks, PlainQueries DEF ContextDetailPage
<1>3. PageGood(EnvironmentsPage(here, u, c), r)
  <2> DEFINE q == useEnvironments(here, u.search)
             page == Page({q}, {Simple("useCreateEnvironment", [key |-> k]) : k \in NewKeys}, {},
                          SearchBox(u, Searchable(c, q, u)))
  <2>1. PageGood(page, r)
    BY <1>0, PageMade, CmdMade, PlainQueries
  <2>2. \/ EnvironmentsPage(here, u, c) = page
        \/ \E list : EnvironmentsPage(here, u, c) = WithList(page, c, q, list)
    BY Zenon DEF EnvironmentsPage
  <2> HIDE DEF page, q
  <2> QED
    BY <2>1, <2>2, ListMade
<1>4. PageGood(SdkKeysPage(here, u, c), r)
  <2>1. \A rows : \A cmd \in SdkKeyList(rows) : CmdGood(cmd, r)
    BY <1>0, CmdMade DEF SdkKeyList
  <2>2. CmdGood(Simple("useCreateSdkKey", None), r)
    BY <1>0, CmdMade
  <2> QED
    BY <2>1, <2>2, PageMade, PlainQueries DEF SdkKeysPage
<1>5. PageGood(MembersSettingsPage(here, u, c), r)
  BY <1>0, PageMade, ListMade, CmdMade, PlainQueries DEF MembersSettingsPage
<1>6. PageGood(RolesSettingsPage(here, u, c), r)
  BY <1>0, PageMade, ListMade, CmdMade, PlainQueries DEF RolesSettingsPage
<1>7. PageGood(WebhooksSettingsPage(here, u, c), r)
  <2>a. \A v, unless, row : /\ CmdGood(Cmd("useSetWebhookEnabled", v, unless, row, Nothing), r)
                            /\ CmdGood(Cmd("useTestWebhook", v, unless, row, Nothing), r)
                            /\ CmdGood(Cmd("useResetWebhookSecret", v, unless, row, Reveal), r)
                            /\ CmdGood(Cmd("useDeleteWebhook", v, unless, row, Nothing), r)
    BY <1>0, CmdMade
  <2>1. \A rows : \A cmd \in WebhookList(rows) : CmdGood(cmd, r)
    BY <2>a DEF WebhookList
  <2>2. CmdGood(Cmd("useCreateWebhook", None, {"useCreateWebhook"}, "any", Reveal), r)
    BY <1>0, CmdMade
  <2> QED
    BY <2>1, <2>2, PageMade, PlainQueries, WebhooksQuery DEF WebhooksSettingsPage
<1> QED
  BY <1>1, <1>2, <1>3, <1>4, <1>5, <1>6, <1>7

\* The router's pages, in their shells.
LEMMA RouterGood ==
  ASSUME NEW r, RouteGood(r), NEW u, NEW c, CacheGood(c)
  PROVE  /\ PageGood(Router(r, u, c), r)
         /\ r.page \notin OrgPages \cup SettingsPages => useProjects \in Router(r, u, c).queries
<1> DEFINE here == Here(r, u, c)
           page == Element(r, u, c)
<1>1. here.seg = r.item
  BY DEF Here
<1> HIDE DEF here
<1>2. PageGood(page, r)
  <2>1. CASE r.page \in OrgPages \cup SettingsPages
    BY <2>1, NamesAre, ProjectPagesGood, OtherPagesGood DEF Element, here
  <2>2. CASE r.page \in {"flags", "flag", "lifecycle"}
    BY <2>2, FlagPagesGood, FlagDetailGood DEF Element, here
  <2>3. CASE r.page \in {"segments", "segment"}
    BY <1>1, <2>3, SegmentPagesGood DEF Element, here
  <2>4. CASE r.page \in {"approvals", "audit", "analytics"}
    BY <2>4, ReviewPagesGood DEF Element, here
  <2>5. CASE r.page \in {"contexts", "context", "environments", "elsewhere"}
    BY <2>5, OtherPagesGood, PageMade DEF Element, here
  <2> QED
    BY <2>1, <2>2, <2>3, <2>4, <2>5 DEF RouteGood, PageNames
<1> HIDE DEF page
<1>3. CASE r.page \in OrgPages
  <2>1. Router(r, u, c) = [page EXCEPT !.links = @ \cup AppNav]
    BY <1>3 DEF Router, AppLayout, page
  <2>2. \A to \in AppNav : LinkGood(to)
    BY PlainLinks DEF AppNav
  <2> QED
    BY <1>2, <1>3, <2>1, <2>2 DEF PageGood
<1>4. CASE r.page \in SettingsPages \ OrgPages
  <2>1. Router(r, u, c) = [page EXCEPT !.links = @ \cup SettingsNav]
    BY <1>4 DEF Router, SettingsLayout, page
  <2>2. \A to \in SettingsNav : LinkGood(to)
    BY PlainLinks DEF SettingsNav
  <2> QED
    BY <1>2, <1>4, <2>1, <2>2 DEF PageGood
<1>5. CASE r.page \notin OrgPages \cup SettingsPages
  <2>1. Router(r, u, c) = [page EXCEPT !.queries = @ \cup {useProjects},
                                       !.links = @ \cup ProjectNav \cup ProjectSwitcher(here, c)]
    BY <1>5 DEF Router, ProjectLayout, page, here
  <2>2. \A to \in ProjectNav : LinkGood(to)
    BY PlainLinks DEF ProjectNav
  <2>3. \A to \in ProjectSwitcher(here, c) : LinkGood(to)
    BY PlainLinks DEF ProjectSwitcher, ProjectList
  <2> QED
    BY <1>2, <2>1, <2>2, <2>3, PlainQueries DEF PageGood
<1> QED
  BY <1>3, <1>4, <1>5

----------------------------------------------------------------------------
(* The query cache.                                                        *)

\* A change of an entry that leaves request, data and fetch as they are.
SameEntry(e, f) ==
  /\ DOMAIN f = DOMAIN e
  /\ f.req = e.req /\ f.shape = e.shape /\ f.rows = e.rows /\ f.fetch = e.fetch /\ f.reply = e.reply
  /\ f.status = e.status
SameCache(c, d) == DOMAIN d = DOMAIN c /\ \A k \in DOMAIN c : SameEntry(c[k], d[k])

\* Such changes keep the cache good and the same fetches under way.
LEMMA SameGood ==
  ASSUME NEW c, NEW d, CacheGood(c), SameCache(c, d) PROVE CacheGood(d) /\ Flying(d) = Flying(c)
BY DEF CacheGood, SameCache, SameEntry, EntryGood, HasData, Flying

\* A write to the backend is such a change.
LEMMA WrittenSame ==
  ASSUME NEW c, CacheGood(c), NEW s, NEW t, NEW who PROVE SameCache(c, Written(c, s, t, who))
<1> DEFINE d == Written(c, s, t, who)
<1>1. DOMAIN d = DOMAIN c
  BY DEF Written
<1>2. ASSUME NEW k \in DOMAIN c PROVE SameEntry(c[k], d[k])
  <2>1. DOMAIN c[k] = EntryFields
    BY DEF CacheGood, EntryGood
  <2>2. \/ d[k] = c[k]
        \/ \E x, y : d[k] = [c[k] EXCEPT !.missed = x, !.replyMissed = y]
    BY DEF Written
  <2> QED
    BY <2>1, <2>2 DEF SameEntry, EntryFields
<1> QED
  BY <1>1, <1>2 DEF SameCache

\* So is renaming it.
LEMMA BlameSame ==
  ASSUME NEW c, CacheGood(c), NEW who, NEW as PROVE SameCache(c, Blame(c, who, as))
<1> DEFINE d == Blame(c, who, as)
<1>1. DOMAIN d = DOMAIN c
  BY DEF Blame
<1>2. ASSUME NEW k \in DOMAIN c PROVE SameEntry(c[k], d[k])
  <2>1. DOMAIN c[k] = EntryFields
    BY DEF CacheGood, EntryGood
  <2>2. \E x, y : d[k] = [c[k] EXCEPT !.missed = x, !.replyMissed = y]
    BY DEF Blame
  <2> QED
    BY <2>1, <2>2 DEF SameEntry, EntryFields
<1> QED
  BY <1>1, <1>2 DEF SameCache

\* No key has the shape of no data.
LEMMA FitsSome == ASSUME NEW k, NEW shape, Fits(k, shape) PROVE shape # ""
BY DEF Fits

\* A new entry, and one whose fetch begins again.
LEMMA NewEntry ==
  ASSUME NEW k, NEW req, ReqGood(k, req)
  PROVE  /\ EntryGood(k, Entry(req)) /\ Entry(req).fetch # "idle"
         /\ EntryGood(k, [Entry(req) EXCEPT !.fetch = "idle"])
<1>1. DataGood(k, "", {})
  BY DEF DataGood
<1> QED
  BY <1>1 DEF Entry, EntryGood, EntryFields, Statuses, HasData, NoReply

\* A fetch that begins keeps the data.
LEMMA StartGood ==
  ASSUME NEW k, NEW e, EntryGood(k, e)
  PROVE  EntryGood(k, StartFetch(e)) /\ StartFetch(e).fetch # "idle"
BY DEF EntryGood, EntryFields, Statuses, HasData, StartFetch, NoReply

\* A query mounted under the key replaces the request.
LEMMA SetReq ==
  ASSUME NEW k, NEW e, EntryGood(k, e), NEW req, ReqGood(k, req)
  PROVE  EntryGood(k, [e EXCEPT !.req = req])
BY DEF EntryGood, EntryFields, HasData

\* Invalidating marks the entry.
LEMMA MarkGood ==
  ASSUME NEW k, NEW e, EntryGood(k, e), NEW x PROVE EntryGood(k, [e EXCEPT !.invalid = x])
BY DEF EntryGood, EntryFields, HasData

\* A fetch that failed keeps the data, to be tried again or not.
LEMMA FailedGood ==
  ASSUME NEW k, NEW e, EntryGood(k, e), NEW watched PROVE EntryGood(k, FailedFetch(e, watched))
BY DEF EntryGood, EntryFields, Statuses, HasData, FailedFetch, NoReply

\* An answer received is what the request may get.
LEMMA ReceivedGood ==
  ASSUME NEW k, NEW e, EntryGood(k, e), NEW watched PROVE EntryGood(k, ReceivedFetch(e, watched))
<1>1. CASE ~e.reply.ok
  BY <1>1, FailedGood DEF ReceivedFetch
<1>2. CASE e.reply.ok
  <2>1. RowsGood(k, e.reply.shape, e.reply.rows) /\ e.reply.shape # ""
    BY <1>2, FitsSome DEF EntryGood, RowsGood
  <2> QED
    BY <1>2, <2>1 DEF EntryGood, EntryFields, Statuses, HasData, DataGood, ReceivedFetch, NoReply
<1> QED
  BY <1>1, <1>2

\* An answer on its way.
LEMMA AnsweredGood ==
  ASSUME NEW k, NEW e, EntryGood(k, e), NEW reply, ReplyGood(k, reply)
  PROVE  EntryGood(k, AnsweredFetch(e, reply)) /\ AnsweredFetch(e, reply).fetch # "idle"
BY DEF EntryGood, EntryFields, HasData, AnsweredFetch, ReplyGood

\* Mounting gives every query an entry, and gives up no fetch.

\* A query that mounts fetches, joins the running fetch, or finds fresh data.
LEMMA OnMountGood ==
  ASSUME NEW c, CacheGood(c), NEW q, QueryGood(q), NEW aged
  PROVE  /\ EntryGood(q.key, OnMount(c, q, aged))
         /\ q.key \in Flying(c) => OnMount(c, q, aged).fetch # "idle"
<1>1. CASE q.key \notin DOMAIN c
  BY <1>1, NewEntry DEF OnMount, QueryGood, Flying
<1>2. CASE q.key \in DOMAIN c /\ c[q.key].fetch = "idle" /\ IsStale(c[q.key], aged)
  <2>1. EntryGood(q.key, [c[q.key] EXCEPT !.req = q.req])
    BY <1>2, SetReq DEF CacheGood, QueryGood
  <2> QED
    BY <1>2, <2>1, StartGood DEF OnMount
<1>3. CASE q.key \in DOMAIN c /\ ~(c[q.key].fetch = "idle" /\ IsStale(c[q.key], aged))
  <2>1. OnMount(c, q, aged) = c[q.key]
    BY <1>3 DEF OnMount
  <2> QED
    BY <1>3, <2>1 DEF CacheGood, Flying
<1> QED
  BY <1>1, <1>2, <1>3

\* So for all the queries of a page.
LEMMA MountGood ==
  ASSUME NEW c, CacheGood(c), NEW on, \A q \in on : QueryGood(q), NEW before, NEW aged,
         before \cap Keys(on) \subseteq DOMAIN c
  PROVE  LET d == Mount(c, on, before, aged)
         IN DOMAIN d = DOMAIN c \cup Keys(on) /\ CacheGood(d) /\ Flying(c) \subseteq Flying(d)
<1> DEFINE d == Mount(c, on, before, aged)
<1>1. DOMAIN d = DOMAIN c \cup Keys(on)
  BY DEF Mount
<1>2. ASSUME NEW k \in DOMAIN d
      PROVE  EntryGood(k, d[k]) /\ (k \in Flying(c) => d[k].fetch # "idle")
  <2>1. CASE k \in Keys(on) \ before
    <3> DEFINE q == CHOOSE q \in on : q.key = k
    <3>1. q \in on /\ q.key = k
      BY <2>1 DEF Keys
    <3>2. d[k] = OnMount(c, q, aged)
      BY <1>1, <2>1 DEF Mount
    <3> HIDE DEF q, d
    <3> QED
      BY <3>1, <3>2, OnMountGood
  <2>2. CASE k \notin Keys(on) \ before
    <3>1. k \in DOMAIN c /\ d[k] = c[k]
      BY <1>1, <2>2 DEF Mount
    <3> QED
      BY <3>1 DEF CacheGood, Flying
  <2> QED
    BY <2>1, <2>2
<1> HIDE DEF d
<1>3. CacheGood(d) /\ Flying(c) \subseteq Flying(d)
  BY <1>1, <1>2 DEF CacheGood, Flying
<1> QED
  BY <1>1, <1>3 DEF d

\* invalidateQueries: what it fetches again is under way.
LEMMA InvalidateGood ==
  ASSUME NEW c, CacheGood(c), NEW prefixes, NEW on
  PROVE  LET d == InvalidateQueries(c, prefixes, on)
         IN /\ DOMAIN d = DOMAIN c /\ CacheGood(d)
            /\ Flying(c) \subseteq Flying(d) /\ Refetched(c, prefixes, on) \subseteq Flying(d)
<1> DEFINE d == InvalidateQueries(c, prefixes, on)
<1>1. DOMAIN d = DOMAIN c
  BY DEF InvalidateQueries
<1>2. ASSUME NEW k \in DOMAIN c
      PROVE  /\ EntryGood(k, d[k])
             /\ k \in Flying(c) \/ k \in Refetched(c, prefixes, on) => d[k].fetch # "idle"
  <2>0. EntryGood(k, c[k])
    BY DEF CacheGood
  <2>1. CASE ~Matches(prefixes, k)
    <3>1. d[k] = c[k] /\ k \notin Refetched(c, prefixes, on)
      BY <2>1 DEF InvalidateQueries, Refetched
    <3> QED
      BY <2>0, <3>1 DEF Flying
  <2>2. CASE Matches(prefixes, k) /\ k \in Restarted(c, prefixes, on)
    <3>1. d[k] = StartFetch([c[k] EXCEPT !.invalid = TRUE])
      BY <2>2 DEF InvalidateQueries
    <3>2. PICK e : d[k] = StartFetch(e) /\ EntryGood(k, e)
      BY <2>0, <3>1, MarkGood, Zenon
    <3> QED
      BY <3>2, StartGood
  <2>3. CASE Matches(prefixes, k) /\ k \notin Restarted(c, prefixes, on)
    <3>1. PICK x, y : d[k] = [c[k] EXCEPT !.invalid = x, !.raced = y]
      <4>1. d[k] = [c[k] EXCEPT !.invalid = TRUE, !.raced = c[k].fetch # "idle"]
        BY <2>3 DEF InvalidateQueries
      <4> QED
        BY <4>1, Zenon
    <3> HIDE DEF d
    <3> DEFINE e == [c[k] EXCEPT !.invalid = x, !.raced = y]
    <3>a. EntryGood(k, e) /\ e.fetch = c[k].fetch
      BY <2>0 DEF EntryGood, EntryFields, HasData
    <3> HIDE DEF e
    <3>2. EntryGood(k, d[k]) /\ d[k].fetch = c[k].fetch
      BY <3>1, <3>a DEF e
    <3>3. k \in Refetched(c, prefixes, on) => c[k].fetch # "idle"
      BY <2>3 DEF Restarted
    <3> QED
      BY <3>2, <3>3 DEF Flying
  <2> QED
    BY <2>1, <2>2, <2>3
<1> HIDE DEF d
<1>3. /\ CacheGood(d) /\ Flying(c) \subseteq Flying(d)
      /\ Refetched(c, prefixes, on) \subseteq Flying(d)
  BY <1>1, <1>2 DEF CacheGood, Flying, Refetched
<1> QED
  BY <1>1, <1>3 DEF d

\* setQueryData leaves a running fetch alone.
LEMMA SetQueryGood ==
  ASSUME NEW c, CacheGood(c), NEW k, NEW req, ReqGood(k, req), NEW body,
         RowsGood(k, body.shape, body.rows), NEW missed
  PROVE  LET d == SetQueryData(c, k, req, body, missed)
         IN DOMAIN c \subseteq DOMAIN d /\ CacheGood(d) /\ Flying(c) \subseteq Flying(d)
<1> DEFINE old == IF k \in DOMAIN c THEN c[k] ELSE [Entry(req) EXCEPT !.fetch = "idle"]
           new == [old EXCEPT !.rows = body.rows, !.shape = body.shape, !.status = "success",
                              !.invalid = FALSE, !.missed = missed,
                              !.raced = @ \/ old.fetch # "idle" \/ missed # {}]
           d == SetQueryData(c, k, req, body, missed)
<1>1. EntryGood(k, old)
  BY NewEntry DEF CacheGood
<1>2. d = [x \in DOMAIN c \cup {k} |-> IF x = k THEN new ELSE c[x]]
  BY DEF SetQueryData
<1> HIDE DEF old
<1>3. EntryGood(k, new) /\ new.fetch = old.fetch
  <2>1. DataGood(k, body.shape, body.rows) /\ body.shape # ""
    BY FitsSome DEF DataGood, RowsGood
  <2> QED
    BY <1>1, <2>1 DEF EntryGood, EntryFields, Statuses, HasData
<1> HIDE DEF new
<1>4. k \in DOMAIN c => old = c[k]
  BY DEF old
<1> HIDE DEF d
<1> QED
  BY <1>2, <1>3, <1>4 DEF CacheGood, Flying, d

----------------------------------------------------------------------------
(* The pending mutations.                                                  *)

\* Lists have a length.
LEMMA ListFacts ==
  ASSUME NEW ms, IsList(ms) PROVE Len(ms) \in Nat /\ DOMAIN ms = 1..Len(ms)
BY DEF IsList

\* A list as long, of changed elements.
LEMMA ListOf ==
  ASSUME NEW ms, IsList(ms), NEW ns, ns = [i \in DOMAIN ms |-> ns[i]]
  PROVE  IsList(ns) /\ DOMAIN ns = DOMAIN ms
<1>1. Len(ms) \in Nat /\ DOMAIN ms = 1..Len(ms)
  BY ListFacts
<1>2. ns = [i \in 1..Len(ms) |-> ns[i]]
  BY <1>1
<1> DEFINE n == Len(ms)
           T == {ns[i] : i \in DOMAIN ns}
<1> HIDE DEF n
<1>3. n \in Nat /\ DOMAIN ns = 1..n /\ ns \in [1..n -> T]
  BY <1>1, <1>2 DEF n
<1>4. ns \in Seq(T)
  BY <1>3
<1> QED
  BY <1>1, <1>3, <1>4 DEF IsList, n

\* Removing one of a list leaves others of it.
LEMMA RemoveFacts ==
  ASSUME NEW ms, IsList(ms), NEW i \in DOMAIN ms
  PROVE  /\ IsList(RemoveAt(ms, i))
         /\ \A j \in DOMAIN RemoveAt(ms, i) : \E l \in DOMAIN ms : RemoveAt(ms, i)[j] = ms[l]
<1> DEFINE T == {ms[j] : j \in DOMAIN ms}
           n == Len(ms)
           a == SubSeq(ms, 1, i - 1)
           b == SubSeq(ms, i + 1, n)
           ns == RemoveAt(ms, i)
<1>1. ms \in Seq(T) /\ n \in Nat /\ DOMAIN ms = 1..n
  BY ListFacts DEF IsList
<1>2. a \in Seq(T) /\ b \in Seq(T)
  BY <1>1
<1>3. ns \in Seq(T)
  <2>1. ns = a \o b
    BY DEF RemoveAt
  <2> HIDE DEF a, b, ns, T
  <2> QED
    BY <1>2, <2>1
<1> HIDE DEF ns, T
<1>4. \A j \in DOMAIN ns : ns[j] \in T
  BY <1>3
<1>5. ns \in Seq({ns[j] : j \in DOMAIN ns})
  <2>1. Len(ns) \in Nat /\ DOMAIN ns = 1..Len(ns) /\ ns = [j \in 1..Len(ns) |-> ns[j]]
    BY <1>3
  <2> QED
    BY <2>1
<1> QED
  BY <1>4, <1>5 DEF IsList, ns, T

\* Appending one adds just that.
LEMMA AppendFacts ==
  ASSUME NEW ms, IsList(ms), NEW m
  PROVE  /\ IsList(Append(ms, m))
         /\ \A j \in DOMAIN Append(ms, m) :
              Append(ms, m)[j] = m \/ \E l \in DOMAIN ms : Append(ms, m)[j] = ms[l]
<1> DEFINE T == {ms[j] : j \in DOMAIN ms} \cup {m}
           ns == Append(ms, m)
<1>1. ms \in Seq(T)
  BY DEF IsList
<1>2. ns \in Seq(T)
  BY <1>1
<1> HIDE DEF ns, T
<1>3. \A j \in DOMAIN ns : ns[j] \in T
  BY <1>2
<1>4. ns \in Seq({ns[j] : j \in DOMAIN ns})
  <2>1. Len(ns) \in Nat /\ DOMAIN ns = 1..Len(ns) /\ ns = [j \in 1..Len(ns) |-> ns[j]]
    BY <1>2
  <2> QED
    BY <2>1
<1> QED
  BY <1>3, <1>4 DEF IsList, ns, T

\* A change of the history, of the waits, of the answer or of the closures of a mutation.
SameMut(m, n) ==
  /\ DOMAIN n = DOMAIN m /\ n.hook = m.hook /\ n.v = m.v /\ n.then = m.then /\ n.sent = m.sent
  /\ n.ok = m.ok /\ n.body = m.body /\ n.phase \in Phases

\* Such a mutation is as good, if closures and page are the same.
LEMMA SameMutGood ==
  ASSUME NEW m, NEW r, MutGood(m, r), NEW n, SameMut(m, n), n.c = m.c, n.live = m.live
  PROVE  MutGood(n, r)
BY DEF MutGood, SameMut

\* More may be under way than is waited for.
LEMMA MutsMore ==
  ASSUME NEW ms, NEW c, NEW r, MutsGood(ms, c, r), NEW d, Flying(c) \subseteq Flying(d)
  PROVE  MutsGood(ms, d, r)
BY DEF MutsGood

\* What is no longer waited for may have ended.
LEMMA NoLongerGood ==
  ASSUME NEW ms, NEW c, NEW r, MutsGood(ms, c, r), NEW keys, NEW d, Flying(c) \ keys \subseteq Flying(d)
  PROVE  MutsGood(NoLonger(ms, keys), d, r) /\ DOMAIN NoLonger(ms, keys) = DOMAIN ms
<1> DEFINE ns == NoLonger(ms, keys)
<1>1. ns = [i \in DOMAIN ms |-> [ms[i] EXCEPT !.waits = @ \ keys]]
  BY DEF NoLonger
<1>2. IsList(ns) /\ DOMAIN ns = DOMAIN ms
  BY <1>1, ListOf DEF MutsGood
<1>3. ASSUME NEW i \in DOMAIN ms PROVE MutGood(ns[i], r) /\ ns[i].waits \subseteq Flying(d)
  <2>1. ns[i] = [ms[i] EXCEPT !.waits = ms[i].waits \ keys]
    BY <1>1
  <2>2. /\ MutGood(ms[i], r) /\ DOMAIN ms[i] = MutFields /\ ms[i].waits \subseteq Flying(c)
        /\ ms[i].phase \in Phases
    BY DEF MutsGood, MutGood
  <2> HIDE DEF ns
  <2>3. SameMut(ms[i], ns[i]) /\ ns[i].c = ms[i].c /\ ns[i].live = ms[i].live
    BY <2>1, <2>2 DEF SameMut, MutFields
  <2>4. ns[i].waits = ms[i].waits \ keys
    BY <2>1, <2>2 DEF MutFields
  <2> QED
    BY <2>2, <2>3, <2>4, SameMutGood
<1> HIDE DEF ns
<1> QED
  BY <1>2, <1>3 DEF MutsGood, ns

\* A write is remembered by the answers that miss it.
LEMMA WrittenUnderGood ==
  ASSUME NEW ms, NEW c, NEW r, MutsGood(ms, c, r), NEW x, NEW s, NEW t, NEW who
  PROVE  /\ MutsGood(WrittenUnder(ms, x, s, t, who), c, r)
         /\ DOMAIN WrittenUnder(ms, x, s, t, who) = DOMAIN ms
         /\ \A i \in DOMAIN ms : SameMut(ms[i], WrittenUnder(ms, x, s, t, who)[i])
<1> DEFINE ns == WrittenUnder(ms, x, s, t, who)
<1>1. IsList(ns) /\ DOMAIN ns = DOMAIN ms
  <2>1. ns = [i \in DOMAIN ms |-> ns[i]]
    BY DEF WrittenUnder
  <2> HIDE DEF ns
  <2> QED
    BY <2>1, ListOf DEF MutsGood
<1>2. ASSUME NEW i \in DOMAIN ms
      PROVE  MutGood(ns[i], r) /\ ns[i].waits \subseteq Flying(c) /\ SameMut(ms[i], ns[i])
  <2>1. ns[i] = ms[i] \/ \E y : ns[i] = [ms[i] EXCEPT !.missed = y]
    BY DEF WrittenUnder
  <2>2. /\ MutGood(ms[i], r) /\ DOMAIN ms[i] = MutFields /\ ms[i].waits \subseteq Flying(c)
        /\ ms[i].phase \in Phases
    BY DEF MutsGood, MutGood
  <2> HIDE DEF ns
  <2>3. /\ SameMut(ms[i], ns[i]) /\ ns[i].c = ms[i].c /\ ns[i].live = ms[i].live
        /\ ns[i].waits = ms[i].waits
    BY <2>1, <2>2 DEF SameMut, MutFields
  <2> QED
    BY <2>2, <2>3, SameMutGood
<1> HIDE DEF ns
<1> QED
  BY <1>1, <1>2 DEF MutsGood, ns

\* A mutation that is over waits for nothing.
LEMMA RemoveGood ==
  ASSUME NEW ms, NEW c, NEW r, MutsGood(ms, c, r), NEW i \in DOMAIN ms
  PROVE  MutsGood(RemoveAt(ms, i), c, r)
<1> DEFINE ns == RemoveAt(ms, i)
<1>1. IsList(ns) /\ \A j \in DOMAIN ns : \E l \in DOMAIN ms : ns[j] = ms[l]
  BY RemoveFacts DEF MutsGood
<1> HIDE DEF ns
<1>2. MutsGood(ns, c, r)
  BY <1>1 DEF MutsGood
<1> QED
  BY <1>2 DEF ns

\* The closures of a render are the page's own.
LEMMA RerenderGood ==
  ASSUME NEW ms, NEW c, NEW r, MutsGood(ms, c, r), RouteGood(r), NEW u, NEW x
  PROVE  MutsGood(Rerendered(ms, r, u, x), c, r)
<1> DEFINE ns == Rerendered(ms, r, u, x)
           here == Here(r, u, x)
<1>1. ns = [i \in DOMAIN ms |-> IF ms[i].live THEN [ms[i] EXCEPT !.c = here] ELSE ms[i]]
  BY DEF Rerendered
<1>2. here.seg = r.item
  BY DEF Here
<1> HIDE DEF here
<1>3. IsList(ns) /\ DOMAIN ns = DOMAIN ms
  BY <1>1, ListOf DEF MutsGood
<1>4. ASSUME NEW i \in DOMAIN ms PROVE MutGood(ns[i], r) /\ ns[i].waits \subseteq Flying(c)
  <2>1. /\ MutGood(ms[i], r) /\ DOMAIN ms[i] = MutFields /\ ms[i].waits \subseteq Flying(c)
        /\ ms[i].phase \in Phases
    BY DEF MutsGood, MutGood
  <2>2. CASE ~ms[i].live
    BY <1>1, <2>1, <2>2
  <2>3. CASE ms[i].live
    <3>1. ns[i] = [ms[i] EXCEPT !.c = here]
      BY <1>1, <2>3
    <3> HIDE DEF ns
    <3>2. /\ SameMut(ms[i], ns[i]) /\ ns[i].c = here /\ ns[i].live = ms[i].live
          /\ ns[i].waits = ms[i].waits
      BY <2>1, <3>1 DEF SameMut, MutFields
    <3> QED
      BY <1>2, <2>1, <2>3, <3>2 DEF MutGood, SameMut, RouteGood
  <2> QED
    BY <2>2, <2>3
<1> HIDE DEF ns
<1> QED
  BY <1>3, <1>4 DEF MutsGood, ns

\* The mutations of a page that is left go on without it.
LEMMA UnmountGood ==
  ASSUME NEW ms, NEW c, NEW r, MutsGood(ms, c, r), NEW to PROVE MutsGood(Unmounted(ms), c, to)
<1> DEFINE ns == Unmounted(ms)
<1>1. ns = [i \in DOMAIN ms |-> [ms[i] EXCEPT !.live = FALSE]]
  BY DEF Unmounted
<1>2. IsList(ns) /\ DOMAIN ns = DOMAIN ms
  BY <1>1, ListOf DEF MutsGood
<1>3. ASSUME NEW i \in DOMAIN ms PROVE MutGood(ns[i], to) /\ ns[i].waits \subseteq Flying(c)
  <2>1. /\ MutGood(ms[i], r) /\ DOMAIN ms[i] = MutFields /\ ms[i].waits \subseteq Flying(c)
        /\ ms[i].phase \in Phases
    BY DEF MutsGood, MutGood
  <2>2. ns[i] = [ms[i] EXCEPT !.live = FALSE]
    BY <1>1
  <2> HIDE DEF ns
  <2>3. SameMut(ms[i], ns[i]) /\ ns[i].c = ms[i].c /\ ~ns[i].live /\ ns[i].waits = ms[i].waits
    BY <2>1, <2>2 DEF SameMut, MutFields
  <2> QED
    BY <2>1, <2>3 DEF MutGood, SameMut
<1> HIDE DEF ns
<1> QED
  BY <1>2, <1>3 DEF MutsGood, ns

\* The mutations a hook no longer observes go on without it.
LEMMA SupersededGood ==
  ASSUME NEW ms, NEW c, NEW r, MutsGood(ms, c, r), NEW hook PROVE MutsGood(Superseded(ms, hook), c, r)
<1> DEFINE ns == Superseded(ms, hook)
<1>1. ns = [i \in DOMAIN ms |-> IF ms[i].hook = hook THEN [ms[i] EXCEPT !.live = FALSE] ELSE ms[i]]
  BY DEF Superseded
<1>2. IsList(ns) /\ DOMAIN ns = DOMAIN ms
  BY <1>1, ListOf DEF MutsGood
<1>3. ASSUME NEW i \in DOMAIN ms PROVE MutGood(ns[i], r) /\ ns[i].waits \subseteq Flying(c)
  <2>1. /\ MutGood(ms[i], r) /\ DOMAIN ms[i] = MutFields /\ ms[i].waits \subseteq Flying(c)
        /\ ms[i].phase \in Phases
    BY DEF MutsGood, MutGood
  <2>2. CASE ms[i].hook # hook
    BY <1>1, <2>1, <2>2
  <2>3. CASE ms[i].hook = hook
    <3>1. ns[i] = [ms[i] EXCEPT !.live = FALSE]
      BY <1>1, <2>3
    <3> HIDE DEF ns
    <3>2. SameMut(ms[i], ns[i]) /\ ns[i].c = ms[i].c /\ ~ns[i].live /\ ns[i].waits = ms[i].waits
      BY <2>1, <3>1 DEF SameMut, MutFields
    <3> QED
      BY <2>1, <3>2 DEF MutGood, SameMut
  <2> QED
    BY <2>2, <2>3
<1> HIDE DEF ns
<1> QED
  BY <1>2, <1>3 DEF MutsGood, ns


----------------------------------------------------------------------------
(* Rendering.                                                              *)

\* A page rendered over a good cache mounts good queries, whatever was mounted before.
LEMMA RenderGood ==
  ASSUME NEW r, RouteGood(r), NEW u, NEW c, CacheGood(c), NEW before, NEW aged,
         before \subseteq DOMAIN c
  PROVE  LET on == Enabled(Router(r, u, c).queries)
             d == Mount(c, on, before, aged)
         IN CacheGood(d) /\ Flying(c) \subseteq Flying(d) /\ ViewGood(on, d, r)
<1> DEFINE on == Enabled(Router(r, u, c).queries)
           d == Mount(c, on, before, aged)
<1>1. \A q \in on : q \in Router(r, u, c).queries /\ QueryGood(q)
  BY RouterGood DEF PageGood, Enabled
<1>2. r.page \notin OrgPages \cup SettingsPages => useProjects \in on
  <2>1. useProjects.enabled
    BY DEF useProjects, Query
  <2> QED
    BY <2>1, RouterGood DEF Enabled
<1> HIDE DEF on
<1>3. DOMAIN d = DOMAIN c \cup Keys(on) /\ CacheGood(d) /\ Flying(c) \subseteq Flying(d)
  BY <1>1, MountGood
<1> HIDE DEF d
<1>4. \A q \in on : q.key \in DOMAIN d /\ Fits(q.key, q.shape)
  BY <1>1, <1>3 DEF Keys, QueryGood
<1>5. useProjects.key = ProjectsKey
  BY DEF useProjects, Query
<1> QED
  BY <1>2, <1>3, <1>4, <1>5 DEF ViewGood, on, d

\* The state after a step, but for the backend's.
SceneGood ==
  /\ RouteGood(route)
  /\ CacheGood(cache)
  /\ MutsGood(muts, cache, route)
  /\ ViewGood(mounted, cache, route)

\* The page renders again.
LEMMA ShowsKeeps ==
  ASSUME RouteGood(route), NEW u, NEW c, CacheGood(c), NEW ms, MutsGood(ms, c, route),
         Keys(mounted) \subseteq DOMAIN c, Shows(u, c, ms)
  PROVE  SceneGood'
<1> DEFINE on == Enabled(Router(route, u, c).queries)
<1>1. /\ mounted' = on /\ cache' = Mount(c, on, Keys(mounted), FALSE)
      /\ muts' = Rerendered(ms, route, u, c) /\ route' = route
  BY DEF Shows, Renders
<1>2. CacheGood(cache') /\ Flying(c) \subseteq Flying(cache') /\ ViewGood(mounted', cache', route)
  BY <1>1, RenderGood
<1>3. MutsGood(muts', c, route)
  BY <1>1, RerenderGood
<1>4. MutsGood(muts', cache', route)
  BY <1>2, <1>3, MutsMore
<1> QED
  BY <1>1, <1>2, <1>4 DEF SceneGood

\* Another page opens; the shell's query stays mounted where both have it.
LEMMA OpensKeeps ==
  ASSUME NEW r, RouteGood(r), NEW c, CacheGood(c), NEW ms, MutsGood(ms, c, route), NEW aged,
         route.page \notin OrgPages \cup SettingsPages => ProjectsKey \in DOMAIN c,
         Opens(r, c, ms, aged)
  PROVE  SceneGood'
<1> DEFINE on == Enabled(Router(r, NewUi, c).queries)
           before == KeptByShell(route, r)
<1>1. /\ mounted' = on /\ cache' = Mount(c, on, before, aged)
      /\ muts' = Unmounted(ms) /\ route' = r
  BY DEF Opens, Renders
<1>2. before \subseteq DOMAIN c
  BY DEF KeptByShell
<1> HIDE DEF before
<1>3. CacheGood(cache') /\ Flying(c) \subseteq Flying(cache') /\ ViewGood(mounted', cache', r)
  BY <1>1, <1>2, RenderGood
<1>4. MutsGood(muts', c, r)
  BY <1>1, UnmountGood
<1>5. MutsGood(muts', cache', r)
  BY <1>3, <1>4, MutsMore
<1> QED
  BY <1>1, <1>3, <1>5 DEF SceneGood

\* A step that renders nothing.
LEMMA SameScene ==
  ASSUME RouteGood(route), ViewGood(mounted, cache, route), route' = route, mounted' = mounted,
         CacheGood(cache'), DOMAIN cache \subseteq DOMAIN cache', MutsGood(muts', cache', route)
  PROVE  SceneGood'
BY DEF SceneGood, ViewGood

\* One mutation changes.
LEMMA MutsSet ==
  ASSUME NEW ms, NEW c, NEW r, MutsGood(ms, c, r), NEW i, NEW m, MutGood(m, r),
         m.waits \subseteq Flying(c)
  PROVE  MutsGood([ms EXCEPT ![i] = m], c, r)
<1> DEFINE ns == [ms EXCEPT ![i] = m]
<1>1. ns = [j \in DOMAIN ms |-> IF j = i THEN m ELSE ms[j]]
  BY ListFacts DEF MutsGood
<1>2. IsList(ns) /\ DOMAIN ns = DOMAIN ms
  BY <1>1, ListOf DEF MutsGood
<1>3. \A j \in DOMAIN ms : ns[j] = m \/ ns[j] = ms[j]
  BY <1>1
<1> HIDE DEF ns
<1>4. MutsGood(ns, c, r)
  BY <1>2, <1>3 DEF MutsGood
<1> QED
  BY <1>4 DEF ns

----------------------------------------------------------------------------
(* The steps.                                                              *)

\* What the steps need of the invariant.
LEMMA InvFacts ==
  ASSUME DashboardInv
  PROVE  /\ Keys(mounted) \subseteq DOMAIN cache
         /\ route.page \notin OrgPages \cup SettingsPages => ProjectsKey \in DOMAIN cache
         /\ \A k \in DOMAIN cache : /\ EntryGood(k, cache[k])
                                    /\ ReplyGood(k, Handle(cache[k].req, db))
                                    /\ DbGood(Handle(cache[k].req, db).db)
BY DEF DashboardInv, ViewGood, Keys, CacheGood, EntryGood, ReqGood

\* A step keeps the invariant when it keeps its parts.
LEMMA SceneInv == ASSUME DbGood(db'), SceneGood' PROVE DashboardInv'
BY DEF DashboardInv, SceneGood

\* A write to the backend: the cache and the mutations only remember that they missed it.
LEMMA WriteGood ==
  ASSUME DashboardInv, NEW t, NEW who
  PROVE  LET d == Written(cache, db, t, who)
             ms == WrittenUnder(muts, cache, db, t, who)
         IN /\ DOMAIN d = DOMAIN cache /\ CacheGood(d) /\ Flying(d) = Flying(cache)
            /\ \A k \in DOMAIN cache : d[k].req = cache[k].req
            /\ MutsGood(ms, cache, route) /\ MutsGood(ms, d, route) /\ DOMAIN ms = DOMAIN muts
            /\ \A i \in DOMAIN muts : SameMut(muts[i], ms[i])
<1> DEFINE d == Written(cache, db, t, who)
           ms == WrittenUnder(muts, cache, db, t, who)
<1>1. SameCache(cache, d) /\ CacheGood(cache) /\ MutsGood(muts, cache, route)
  BY WrittenSame DEF DashboardInv
<1>2. /\ MutsGood(ms, cache, route) /\ DOMAIN ms = DOMAIN muts
      /\ \A i \in DOMAIN muts : SameMut(muts[i], ms[i])
  BY <1>1, WrittenUnderGood
<1> HIDE DEF d, ms
<1>3. CacheGood(d) /\ Flying(d) = Flying(cache)
  BY <1>1, SameGood
<1>4. MutsGood(ms, d, route)
  BY <1>2, <1>3, MutsMore
<1> QED
  BY <1>1, <1>2, <1>3, <1>4 DEF SameCache, SameEntry, d, ms

\* Debounced, Choose: the page's own state changes.
LEMMA ChoiceSteps ==
  ASSUME DashboardInv, NEW u, Shows(u, cache, muts), UNCHANGED db PROVE DashboardInv'
BY InvFacts, ShowsKeeps, SceneInv DEF DashboardInv

\* The user follows a link.
LEMMA NavigateStep ==
  ASSUME DashboardInv, NEW to \in Router(route, ui, cache).links, NEW aged, Navigate(to, aged)
  PROVE  DashboardInv'
<1>1. RouteGood(to)
  <2>1. LinkGood(to)
    BY RouterGood DEF DashboardInv, PageGood
  <2> QED
    BY <2>1, DashboardAssumption DEF Navigate, LinkGood, RouteGood
<1>2. SceneGood'
  BY <1>1, InvFacts, OpensKeeps DEF Navigate, DashboardInv
<1> QED
  BY <1>2, SceneInv DEF Navigate, DashboardInv

\* A control starts a mutation: its closures are the page's.
LEMMA MutateStep ==
  ASSUME DashboardInv, NEW cmd \in Router(route, ui, cache).commands, Mutate(cmd) PROVE DashboardInv'
<1> DEFINE here == Here(route, ui, cache)
           m == [hook |-> cmd.hook, v |-> cmd.v, row |-> cmd.row, then |-> cmd.then,
                 sent |-> here, c |-> here, phase |-> "sent", ok |-> FALSE,
                 body |-> [shape |-> "", rows |-> {}], missed |-> {}, waits |-> {}, live |-> TRUE]
<1>1. /\ muts' = Append(Superseded(muts, cmd.hook), m) /\ cache' = cache /\ db' = db /\ route' = route
      /\ mounted' = mounted
  BY DEF Mutate
<1>2. MutGood(m, route) /\ m.waits = {}
  <2>1. CmdGood(cmd, route)
    BY RouterGood DEF DashboardInv, PageGood
  <2>2. here.seg = route.item
    BY DEF Here
  <2> HIDE DEF here
  <2>3. cmd.hook = "useSaveSegment" => here.seg # "" /\ route.page = "segment"
    BY <2>1, <2>2 DEF CmdGood, DashboardInv, RouteGood
  <2>4. DOMAIN m = MutFields
    BY DEF MutFields
  <2> QED
    BY <2>1, <2>3, <2>4 DEF MutGood, CmdGood, Phases
<1> HIDE DEF m
<1>3. MutsGood(muts', cache', route)
  <2>1. MutsGood(Superseded(muts, cmd.hook), cache, route)
    BY SupersededGood DEF DashboardInv
  <2> QED
    BY <1>1, <1>2, <2>1, AppendFacts DEF MutsGood
<1>4. SceneGood'
  BY <1>1, <1>3, SameScene DEF DashboardInv
<1> QED
  BY <1>1, <1>4, SceneInv DEF DashboardInv

\* ErrorState's retry.
LEMMA RetryStep == ASSUME DashboardInv, NEW k, Retry(k) PROVE DashboardInv'
<1> DEFINE e == IF cache[k].fetch = "idle" \/ HasData(cache[k]) THEN StartFetch(cache[k]) ELSE cache[k]
<1>1. /\ cache' = [cache EXCEPT ![k] = e] /\ k \in DOMAIN cache /\ muts' = muts /\ db' = db
      /\ route' = route /\ mounted' = mounted
  BY InvFacts DEF Retry
<1>2. EntryGood(k, e) /\ (k \in Flying(cache) => e.fetch # "idle")
  BY <1>1, InvFacts, StartGood DEF Flying
<1> HIDE DEF e
<1>3. CacheGood(cache') /\ DOMAIN cache' = DOMAIN cache /\ Flying(cache) \subseteq Flying(cache')
  BY <1>1, <1>2 DEF CacheGood, Flying, DashboardInv
<1>4. MutsGood(muts', cache', route)
  BY <1>1, <1>3, MutsMore DEF DashboardInv
<1>5. SceneGood'
  BY <1>1, <1>3, <1>4, SameScene DEF DashboardInv
<1> QED
  BY <1>1, <1>5, SceneInv DEF DashboardInv

\* One entry of the cache changes; what waited for it no longer does, if its fetch has ended.
LEMMA EntrySet ==
  ASSUME NEW c, CacheGood(c), NEW k \in DOMAIN c, NEW e, EntryGood(k, e)
  PROVE  LET d == [c EXCEPT ![k] = e]
         IN CacheGood(d) /\ DOMAIN d = DOMAIN c /\ Flying(c) \ Ended(d, {k}) \subseteq Flying(d)
<1> DEFINE d == [c EXCEPT ![k] = e]
<1>1. DOMAIN d = DOMAIN c /\ d[k] = e /\ \A j \in DOMAIN c : j # k => d[j] = c[j]
  OBVIOUS
<1> HIDE DEF d
<1>2. CacheGood(d)
  BY <1>1 DEF CacheGood
<1>3. Flying(c) \ Ended(d, {k}) \subseteq Flying(d)
  BY <1>1 DEF Flying, Ended
<1> QED
  BY <1>1, <1>2, <1>3 DEF d

\* A fetch ends, or is tried again.
LEMMA FetchEnds ==
  ASSUME DashboardInv, NEW k \in DOMAIN cache, NEW e, EntryGood(k, e), NEW c, c = [cache EXCEPT ![k] = e],
         Shows(ui, c, NoLonger(muts, Ended(c, {k}))), UNCHANGED db
  PROVE  DashboardInv'
<1>1. CacheGood(c) /\ DOMAIN c = DOMAIN cache /\ Flying(cache) \ Ended(c, {k}) \subseteq Flying(c)
  BY EntrySet DEF DashboardInv
<1>2. MutsGood(NoLonger(muts, Ended(c, {k})), c, route)
  BY <1>1, NoLongerGood DEF DashboardInv
<1>3. SceneGood'
  BY <1>1, <1>2, InvFacts, ShowsKeeps DEF DashboardInv
<1> QED
  BY <1>3, SceneInv DEF DashboardInv

\* An answer that was overtaken is received.
LEMMA ReceiveFetchStep == ASSUME DashboardInv, NEW k, ReceiveFetch(k) PROVE DashboardInv'
<1>1. k \in DOMAIN cache
  BY DEF ReceiveFetch, Slow
<1> DEFINE e == ReceivedFetch(cache[k], k \in Keys(mounted))
<1>2. Received(cache, k) = [cache EXCEPT ![k] = e]
  BY DEF Received
<1>3. EntryGood(k, e)
  BY <1>1, InvFacts, ReceivedGood
<1> HIDE DEF e
<1> QED
  BY <1>1, <1>2, <1>3, FetchEnds DEF ReceiveFetch

\* A fetch fails.
LEMMA LoseFetchStep == ASSUME DashboardInv, NEW k, LoseFetch(k) PROVE DashboardInv'
<1>1. k \in DOMAIN cache
  BY DEF LoseFetch, Asked
<1> DEFINE e == FailedFetch(cache[k], k \in Keys(mounted))
           c == [cache EXCEPT ![k] = e]
<1>2. EntryGood(k, e)
  BY <1>1, InvFacts, FailedGood
<1>3. Shows(ui, c, NoLonger(muts, Ended(c, {k}))) /\ UNCHANGED db
  BY DEF LoseFetch
<1> HIDE DEF e
<1> QED
  BY <1>1, <1>2, <1>3, FetchEnds

\* A fetch is answered, and the answer is slow.
LEMMA ServeFetchStep == ASSUME DashboardInv, NEW k, ServeFetch(k) PROVE DashboardInv'
<1> DEFINE reply == Handle(cache[k].req, db)
           t == reply.db
           d == Written(cache, db, t, "scheduler")
           e == AnsweredFetch(d[k], reply)
<1>1. k \in DOMAIN cache
  BY DEF ServeFetch, Asked
<1>2. /\ db' = t /\ muts' = WrittenUnder(muts, cache, db, t, "scheduler") /\ cache' = [d EXCEPT ![k] = e]
      /\ route' = route /\ mounted' = mounted
  BY DEF ServeFetch, Answered
<1>3. DbGood(t) /\ ReplyGood(k, reply)
  BY <1>1, InvFacts
<1> HIDE DEF t, reply
<1>4. /\ DOMAIN d = DOMAIN cache /\ CacheGood(d) /\ Flying(d) = Flying(cache)
      /\ MutsGood(muts', d, route)
  BY <1>2, WriteGood
<1> HIDE DEF d
<1>5. EntryGood(k, e) /\ e.fetch # "idle"
  BY <1>1, <1>3, <1>4, AnsweredGood DEF CacheGood
<1> HIDE DEF e
<1>6. CacheGood(cache') /\ DOMAIN cache' = DOMAIN cache /\ Flying(d) \subseteq Flying(cache')
  BY <1>1, <1>2, <1>4, <1>5 DEF CacheGood, Flying
<1>7. MutsGood(muts', cache', route)
  BY <1>4, <1>6, MutsMore
<1>8. SceneGood'
  BY <1>2, <1>6, <1>7, SameScene DEF DashboardInv
<1> QED
  BY <1>2, <1>3, <1>8, SceneInv

\* The fetches under way are answered, the scheduler having run.
LEMMA LoadStep == ASSUME DashboardInv, NEW late, Load(late) PROVE DashboardInv'
<1> DEFINE keys == Asked \ late
           t == AfterReading(keys)
           d == Written(cache, db, t, "scheduler")
           c == Loaded(d, keys, t)
           ms == WrittenUnder(muts, cache, db, t, "scheduler")
<1>1. db' = t /\ Shows(ui, c, NoLonger(ms, Ended(c, keys)))
  BY DEF Load
<1>2. keys \subseteq DOMAIN cache
  BY DEF Asked
<1>3. DbGood(t)
  <2> DEFINE written == {Handle(cache[k].req, db).db : k \in keys} \ {db}
  <2>1. \A k \in keys : DbGood(Handle(cache[k].req, db).db)
    BY <1>2, InvFacts
  <2>2. t = db \/ t \in written
    BY DEF AfterReading
  <2> HIDE DEF t, keys
  <2> QED
    BY <2>1, <2>2 DEF DashboardInv
<1> HIDE DEF t, keys
<1>4. /\ DOMAIN d = DOMAIN cache /\ CacheGood(d) /\ Flying(d) = Flying(cache)
      /\ MutsGood(ms, d, route)
  BY WriteGood
<1> HIDE DEF d, ms
<1>5. DOMAIN c = DOMAIN cache
  BY <1>4 DEF Loaded
<1>6. ASSUME NEW k \in keys PROVE EntryGood(k, c[k])
  <2> DEFINE reply == Handle(d[k].req, t)
             e == AnsweredFetch(d[k], reply)
  <2>1. EntryGood(k, d[k]) /\ k \in DOMAIN d
    BY <1>2, <1>4 DEF CacheGood
  <2>2. ReplyGood(k, reply)
    BY <1>3, <2>1 DEF EntryGood, ReqGood
  <2>3. c[k] = ReceivedFetch(e, k \in Keys(mounted))
    BY <2>1 DEF Loaded
  <2> HIDE DEF reply, c
  <2>4. EntryGood(k, e)
    BY <2>1, <2>2, AnsweredGood
  <2> HIDE DEF e
  <2> QED
    BY <2>3, <2>4, ReceivedGood
<1>7. \A k \in DOMAIN d \ keys : c[k] = d[k]
  BY DEF Loaded
<1> HIDE DEF c
<1>8. CacheGood(c)
  BY <1>4, <1>5, <1>6, <1>7 DEF CacheGood
<1>9. Flying(d) \ Ended(c, keys) \subseteq Flying(c)
  BY <1>4, <1>5, <1>7 DEF Flying, Ended
<1>10. MutsGood(NoLonger(ms, Ended(c, keys)), c, route)
  BY <1>4, <1>9, NoLongerGood
<1>11. SceneGood'
  BY <1>1, <1>5, <1>8, <1>10, InvFacts, ShowsKeeps DEF DashboardInv
<1> QED
  BY <1>1, <1>3, <1>11, SceneInv

\* A mutation, as sent and as of the latest render, saves a segment under a key.
LEMMA MutFacts ==
  ASSUME DashboardInv, NEW i \in DOMAIN muts
  PROVE  /\ MutGood(muts[i], route) /\ muts[i].hook \in Hooks
         /\ Named(muts[i].hook, muts[i].sent, muts[i].v) /\ Named(muts[i].hook, muts[i].c, muts[i].v)
BY DEF DashboardInv, MutsGood, MutGood, Named

\* The backend runs a mutation.
LEMMA ServeMutationStep ==
  ASSUME DashboardInv, NEW i \in DOMAIN muts, ServeMutation(i) PROVE DashboardInv'
<1> DEFINE m == muts[i]
           req == Sent(m).req
           reply == Handle(req, db)
           t == reply.db
           d == Written(cache, db, t, m.hook)
           ms == WrittenUnder(muts, cache, db, t, m.hook)
           n == [ms[i] EXCEPT !.phase = "answered", !.ok = reply.ok, !.body = reply.body]
<1>1. /\ db' = t /\ cache' = d /\ muts' = [ms EXCEPT ![i] = n] /\ route' = route /\ mounted' = mounted
  BY DEF ServeMutation
<1>2. DbGood(t)
  <2>1. ReqOk(req)
    BY MutFacts, MutationReqs DEF Sent
  <2> QED
    BY <2>1, HandleGood DEF DashboardInv
<1>3. reply.ok /\ m.hook \in Setters =>
        reply.body.shape = SetShape(m.hook) /\ Clean(reply.body.shape, reply.body.rows)
  BY MutFacts, SetAnswer DEF Sent
<1> HIDE DEF t, reply
<1>4. /\ DOMAIN d = DOMAIN cache /\ CacheGood(d) /\ MutsGood(ms, d, route) /\ DOMAIN ms = DOMAIN muts
      /\ SameMut(m, ms[i])
  BY WriteGood
<1> HIDE DEF d, ms
<1>5. MutGood(ms[i], route) /\ ms[i].waits \subseteq Flying(d) /\ DOMAIN ms[i] = MutFields
  BY <1>4 DEF MutsGood, MutGood
<1>6. /\ n.ok = reply.ok /\ n.body = reply.body /\ n.hook = ms[i].hook /\ n.v = ms[i].v
      /\ n.then = ms[i].then /\ n.sent = ms[i].sent /\ n.c = ms[i].c /\ n.live = ms[i].live
      /\ n.waits = ms[i].waits /\ DOMAIN n = MutFields /\ n.phase \in Phases
  BY <1>5 DEF MutFields, Phases
<1> HIDE DEF n
<1>7. MutGood(n, route)
  BY <1>3, <1>4, <1>5, <1>6 DEF MutGood, SameMut
<1>8. MutsGood(muts', cache', route)
  BY <1>1, <1>4, <1>5, <1>6, <1>7, MutsSet
<1>9. SceneGood'
  BY <1>1, <1>4, <1>8, SameScene DEF DashboardInv
<1> QED
  BY <1>1, <1>2, <1>9, SceneInv

\* No answer to a mutation comes.
LEMMA LoseMutationStep ==
  ASSUME DashboardInv, NEW i \in DOMAIN muts, LoseMutation(i) PROVE DashboardInv'
<1>1. /\ cache' = Blame(cache, muts[i].hook, "lost") /\ muts' = RemoveAt(muts, i) /\ db' = db
      /\ route' = route /\ mounted' = mounted
  BY DEF LoseMutation
<1>2. SameCache(cache, cache')
  BY <1>1, BlameSame DEF DashboardInv
<1>3. CacheGood(cache') /\ Flying(cache') = Flying(cache) /\ DOMAIN cache' = DOMAIN cache
  BY <1>2, SameGood DEF DashboardInv, SameCache
<1>4. MutsGood(muts', cache, route)
  BY <1>1, RemoveGood DEF DashboardInv
<1>5. MutsGood(muts', cache', route)
  BY <1>3, <1>4, MutsMore
<1>6. SceneGood'
  BY <1>1, <1>3, <1>5, SameScene DEF DashboardInv
<1> QED
  BY <1>1, <1>6, SceneInv DEF DashboardInv

\* mutate's own onSuccess navigates, reveals a secret, or does nothing.
LEMMA SucceededKeeps ==
  ASSUME DashboardInv, NEW c, CacheGood(c), DOMAIN cache \subseteq DOMAIN c, NEW ms,
         MutsGood(ms, c, route), NEW i \in DOMAIN muts, NEW latest, Succeeded(c, ms, muts[i], latest)
  PROVE  SceneGood'
<1>1. CASE latest /\ muts[i].then.do = "go"
  <2>1. RouteGood(muts[i].then.to)
    BY <1>1, MutFacts DEF MutGood
  <2>2. Opens(muts[i].then.to, c, ms, FALSE)
    BY <1>1 DEF Succeeded
  <2> QED
    BY <2>1, <2>2, InvFacts, OpensKeeps
<1>2. CASE ~(latest /\ muts[i].then.do = "go")
  <2>1. PICK u : Shows(u, c, ms)
    BY <1>2, Zenon DEF Succeeded
  <2> QED
    BY <2>1, InvFacts, ShowsKeeps DEF DashboardInv
<1> QED
  BY <1>1, <1>2

\* A mutation is refused.
LEMMA FailMutationStep ==
  ASSUME DashboardInv, NEW i \in DOMAIN muts, FailMutation(i) PROVE DashboardInv'
<1>1. MutsGood(RemoveAt(muts, i), cache, route)
  BY RemoveGood DEF DashboardInv
<1>2. SceneGood'
  BY <1>1, InvFacts, ShowsKeeps DEF DashboardInv, FailMutation
<1> QED
  BY <1>2, SceneInv DEF DashboardInv, FailMutation

\* What a mutation invalidated has been fetched.
LEMMA SettleMutationStep ==
  ASSUME DashboardInv, NEW i \in DOMAIN muts, SettleMutation(i) PROVE DashboardInv'
<1>1. MutsGood(RemoveAt(muts, i), cache, route)
  BY RemoveGood DEF DashboardInv
<1>2. SceneGood'
  BY <1>1, SucceededKeeps DEF DashboardInv, SettleMutation
<1> QED
  BY <1>2, SceneInv DEF DashboardInv, SettleMutation

\* The hook's onSuccess puts the answer under a key of its shape, or nowhere.
LEMMA OnSuccessGood ==
  ASSUME DashboardInv, NEW i \in DOMAIN muts, muts[i].ok
  PROVE  LET c == OnSuccess(muts[i], Sent(muts[i]), Latest(muts[i]))
         IN CacheGood(c) /\ DOMAIN cache \subseteq DOMAIN c /\ Flying(cache) \subseteq Flying(c)
<1> DEFINE m == muts[i]
           sent == Sent(m)
           now == Latest(m)
           crossed == now.set # sent.set \/ now.invalidates # sent.invalidates
           known == IF crossed THEN Blame(cache, m.hook, "crossed") ELSE cache
           c == OnSuccess(m, sent, now)
<1>1. CacheGood(known) /\ DOMAIN known = DOMAIN cache /\ Flying(known) = Flying(cache)
  <2>1. LET b == Blame(cache, m.hook, "crossed")
        IN CacheGood(b) /\ DOMAIN b = DOMAIN cache /\ Flying(b) = Flying(cache)
    BY BlameSame, SameGood DEF DashboardInv, SameCache
  <2> HIDE DEF crossed
  <2> QED
    BY <2>1 DEF DashboardInv
<1>2. CASE now.set = <<>>
  <2>1. c = known
    BY <1>2 DEF OnSuccess
  <2> HIDE DEF c, known
  <2> QED
    BY <1>1, <2>1 DEF c
<1>3. CASE now.set # <<>>
  <2>1. m.hook \in Setters
    BY <1>3, MutFacts, SetsNothing DEF Latest
  <2>2. Fits(now.set, SetShape(m.hook)) /\ ReqGood(now.set, sent.req)
    BY <2>1, MutFacts, SetsShape, SetReqGood DEF Latest, Sent
  <2>3. RowsGood(now.set, m.body.shape, m.body.rows)
    BY <2>1, <2>2, MutFacts DEF MutGood, RowsGood
  <2>4. PICK missed : c = SetQueryData(known, now.set, sent.req, m.body, missed)
    BY <1>3, Zenon DEF OnSuccess
  <2> HIDE DEF known, now, sent, c
  <2> QED
    BY <1>1, <2>2, <2>3, <2>4, SetQueryGood DEF c, sent, now
<1> QED
  BY <1>2, <1>3

\* A mutation's answer: onSuccess, invalidations, and the wait for them.
LEMMA ReceiveMutationStep ==
  ASSUME DashboardInv, NEW i \in DOMAIN muts, ReceiveMutation(i) PROVE DashboardInv'
<1> DEFINE now == Latest(muts[i])
           c == OnSuccess(muts[i], Sent(muts[i]), now)
           refetched == Refetched(c, now.invalidates, Keys(mounted))
           waits == IF now.awaits THEN refetched ELSE {}
           keys == Restarted(c, now.invalidates, Keys(mounted))
           ms == NoLonger(muts, keys)
           after == InvalidateQueries(c, now.invalidates, Keys(mounted))
<1>1. Invalidates(i, c, now, waits) /\ UNCHANGED db /\ muts[i].ok
  BY DEF ReceiveMutation
<1>2. CacheGood(c) /\ DOMAIN cache \subseteq DOMAIN c /\ Flying(cache) \subseteq Flying(c)
  BY <1>1, OnSuccessGood
<1>3. \/ waits = {} /\ Succeeded(after, RemoveAt(ms, i), muts[i], muts[i].live)
      \/ Shows(ui, after, [ms EXCEPT ![i] = [@ EXCEPT !.phase = "waiting", !.waits = waits]])
  BY <1>1 DEF Invalidates
<1> HIDE DEF c, now
<1>4. /\ CacheGood(after) /\ DOMAIN after = DOMAIN c /\ Flying(c) \subseteq Flying(after)
      /\ waits \subseteq Flying(after)
  BY <1>2, InvalidateGood
<1> HIDE DEF after, waits, keys
<1>5. MutsGood(ms, after, route) /\ DOMAIN ms = DOMAIN muts
  BY <1>2, <1>4, NoLongerGood DEF DashboardInv
<1> HIDE DEF ms
<1>6. SceneGood'
  <2>1. CASE waits = {} /\ Succeeded(after, RemoveAt(ms, i), muts[i], muts[i].live)
    <3>1. MutsGood(RemoveAt(ms, i), after, route)
      BY <1>5, RemoveGood
    <3> QED
      BY <1>2, <1>4, <2>1, <3>1, SucceededKeeps
  <2>2. CASE Shows(ui, after, [ms EXCEPT ![i] = [@ EXCEPT !.phase = "waiting", !.waits = waits]])
    <3> DEFINE n == [ms[i] EXCEPT !.phase = "waiting", !.waits = waits]
               ns == [ms EXCEPT ![i] = n]
    <3>1. MutGood(ms[i], route) /\ DOMAIN ms[i] = MutFields
      BY <1>5 DEF MutsGood, MutGood
    <3>2. /\ SameMut(ms[i], n) /\ n.c = ms[i].c /\ n.live = ms[i].live /\ n.waits = waits
      BY <3>1 DEF SameMut, MutFields, Phases
    <3>3. Shows(ui, after, ns)
      BY <2>2
    <3> HIDE DEF n
    <3>4. MutGood(n, route)
      BY <3>1, <3>2, SameMutGood
    <3>5. MutsGood(ns, after, route)
      BY <1>4, <1>5, <3>2, <3>4, MutsSet
    <3> HIDE DEF ns
    <3> QED
      BY <1>2, <1>4, <3>3, <3>5, InvFacts, ShowsKeeps DEF DashboardInv
  <2> QED
    BY <1>3, <2>1, <2>2
<1> QED
  BY <1>1, <1>6, SceneInv DEF DashboardInv

\* Somebody else writes.
LEMMA SomebodyElseStep ==
  ASSUME DashboardInv, NEW req \in TheirWrites, SomebodyElse(req) PROVE DashboardInv'
<1> DEFINE t == Handle(req, db).db
<1>1. /\ db' = t /\ cache' = Written(cache, db, t, "other") /\ route' = route /\ mounted' = mounted
      /\ muts' = WrittenUnder(muts, cache, db, t, "other")
  BY DEF SomebodyElse
<1>2. ReqOk(req)
  <2>1. \A x : ReqOk(Ask("PATCH config", x)) /\ ReqOk(Ask("DELETE flag", x))
    BY DEF Ask, ReqOk, OtherWrites, RowWrites
  <2>2. \/ \E x : req = Ask("PATCH config", x)
        \/ req = Ask("PUT segment", [key |-> "beta-users", content |-> "theirs"])
        \/ \E x : req = Ask("DELETE flag", x)
    BY Zenon DEF TheirWrites
  <2>3. ReqOk(Ask("PUT segment", [key |-> "beta-users", content |-> "theirs"]))
    BY DEF Ask, ReqOk, OtherWrites, RowWrites
  <2>4. CASE \E x : req = Ask("PATCH config", x)
    BY <2>1, <2>4, Zenon
  <2>5. CASE \E x : req = Ask("DELETE flag", x)
    BY <2>1, <2>5, Zenon
  <2> QED
    BY <2>2, <2>3, <2>4, <2>5, Zenon
<1>3. DbGood(t)
  BY <1>2, HandleGood DEF DashboardInv
<1> HIDE DEF t
<1>4. CacheGood(cache') /\ DOMAIN cache' = DOMAIN cache /\ MutsGood(muts', cache', route)
  BY <1>1, WriteGood
<1>5. SceneGood'
  BY <1>1, <1>4, SameScene DEF DashboardInv
<1> QED
  BY <1>1, <1>3, <1>5, SceneInv

\* Time passes.
LEMMA TickStep == ASSUME DashboardInv, Tick PROVE DashboardInv'
<1>1. /\ db' = [db EXCEPT !.late = TRUE] /\ cache' = Written(cache, db, db', "scheduler")
      /\ route' = route /\ mounted' = mounted /\ muts' = muts
  BY DEF Tick
<1>2. DbGood(db')
  <2>1. PICK x : db' = [db EXCEPT !.late = x]
    BY <1>1, Zenon
  <2> QED
    BY <2>1 DEF DashboardInv, DbGood
<1>3. CacheGood(cache') /\ DOMAIN cache' = DOMAIN cache /\ Flying(cache') = Flying(cache)
  BY <1>1, WriteGood
<1>4. MutsGood(muts', cache', route)
  BY <1>1, <1>3, MutsMore DEF DashboardInv
<1>5. SceneGood'
  BY <1>1, <1>3, <1>4, SameScene DEF DashboardInv
<1> QED
  BY <1>2, <1>5, SceneInv

----------------------------------------------------------------------------
(* The invariant is inductive.                                             *)

\* A visit begins in the invariant.
LEMMA InitInv == Init => DashboardInv
<1> SUFFICES ASSUME Init PROVE DashboardInv
  OBVIOUS
<1>1. DbGood(db)
  <2>1. /\ db.segments = {[key |-> "beta-users", content |-> "old", version |-> 1]}
        /\ db.triggers = {} /\ db.webhooks = {}
        /\ {"segments", "triggers", "webhooks"} \subseteq DOMAIN db
    BY DEF Init, Seed
  <2> QED
    BY <2>1 DEF DbGood
<1>2. RouteGood(route)
  BY DashboardAssumption DEF Init, RouteGood
<1>3. CacheGood(<<>>) /\ DOMAIN (<<>>) = {}
  BY DEF CacheGood
<1>4. CacheGood(cache) /\ ViewGood(mounted, cache, route)
  BY <1>2, <1>3, RenderGood DEF Init
<1>5. MutsGood(muts, cache, route)
  BY DEF Init, MutsGood, IsList
<1> QED
  BY <1>1, <1>2, <1>4, <1>5 DEF DashboardInv

\* Every step keeps it.
LEMMA StepInv == DashboardInv /\ [Next]_vars => DashboardInv'
<1> SUFFICES ASSUME DashboardInv, [Next]_vars PROVE DashboardInv'
  OBVIOUS
<1>1. CASE Progress
  <2>1. CASE Debounced
    BY <2>1, ChoiceSteps DEF Debounced
  <2>2. CASE \E late \in {{}} \cup {{k} : k \in Asked} : Load(late)
    BY <2>2, LoadStep
  <2>3. CASE \E k \in DOMAIN cache : ServeFetch(k) \/ ReceiveFetch(k)
    BY <2>3, ServeFetchStep, ReceiveFetchStep
  <2>4. CASE \E i \in DOMAIN muts : \/ ServeMutation(i) \/ ReceiveMutation(i)
                                    \/ FailMutation(i) \/ SettleMutation(i)
    BY <2>4, ServeMutationStep, ReceiveMutationStep, FailMutationStep, SettleMutationStep
  <2> QED
    BY <1>1, <2>1, <2>2, <2>3, <2>4 DEF Progress
<1>2. CASE UserStep
  <2> DEFINE page == Router(route, ui, cache)
  <2>1. CASE \E to \in page.links, aged \in BOOLEAN : Navigate(to, aged)
    BY <2>1, NavigateStep
  <2>2. CASE \E u \in page.choices : Choose(u)
    BY <2>2, ChoiceSteps DEF Choose
  <2>3. CASE \E cmd \in page.commands : Mutate(cmd)
    BY <2>3, MutateStep
  <2>4. CASE \E k \in DOMAIN cache : Retry(k)
    BY <2>4, RetryStep
  <2> QED
    BY <1>2, <2>1, <2>2, <2>3, <2>4 DEF UserStep
<1>3. CASE \E k \in DOMAIN cache : LoseFetch(k)
  BY <1>3, LoseFetchStep
<1>4. CASE \E i \in DOMAIN muts : LoseMutation(i)
  BY <1>4, LoseMutationStep
<1>5. CASE \E req \in TheirWrites : SomebodyElse(req)
  BY <1>5, SomebodyElseStep
<1>6. CASE Tick
  BY <1>6, TickStep
<1>7. CASE Idle \/ UNCHANGED vars
  BY <1>7 DEF Idle, vars, DashboardInv
<1> QED
  BY <1>1, <1>2, <1>3, <1>4, <1>5, <1>6, <1>7 DEF Next

\* Everything the dashboard caches, sends and waits for is good at all times.
THEOREM InvCorrect == Spec => []DashboardInv
BY InitInv, StepInv, PTL DEF Spec

----------------------------------------------------------------------------
(* What follows from it.                                                   *)

\* What a key's first part and length say of the shape.
LEMMA HeadShape ==
  ASSUME NEW k, NEW a, Fits(k, a)
  PROVE  /\ k[1] = "organizations" => a = "organizations"
         /\ k[1] = "projects" => (a = "projects" /\ Len(k) = 1) \/ (a = "project" /\ Len(k) = 2)
         /\ k[1] = "flags" => (a \in {"flag", "lifecycle"} /\ Len(k) = 3) \/ (a \in {"config", "envFlags"} /\ Len(k) = 5)
         /\ k[1] = "environments" => a = "environments"
         /\ k[1] = "segments" => a \in {"segments", "segment"}
         /\ k[1] = "contexts" => (a = "contexts" /\ Len(k) = 4) \/ (a = "context" /\ Len(k) = 5)
         /\ k[1] = "sdk-keys" => a = "sdkKeys"
         /\ k[1] = "changes" => a = "changes"
         /\ k[1] = "scheduled-changes" => a = "scheduled"
         /\ k[1] = "triggers" => a = "triggers"
         /\ k[1] = "audit" => a = "audit"
         /\ k[1] = "webhooks" => (a = "webhooks" /\ Len(k) = 1) \/ (a = "deliveries" /\ Len(k) = 3)
         /\ k[1] = "roles" => a = "roles"
         /\ k[1] = "permissions" => a = "permissions"
         /\ k[1] = "members" => a = "members"
         /\ k[1] = "users" => a = "users"
         /\ k[1] = "stats" => (a = "flagStats" /\ Len(k) = 6) \/ (a = "envStats" /\ Len(k) = 5)
         /\ k[1] \in {"organizations", "projects", "flags", "environments", "segments", "contexts",
                      "sdk-keys", "changes", "scheduled-changes", "triggers", "audit", "webhooks",
                      "roles", "permissions", "members", "users", "stats"}
<1>1. k[1] = "organizations" => a = "organizations"
  BY DEF Fits, Key
<1>2. k[1] = "projects" => (a = "projects" /\ Len(k) = 1) \/ (a = "project" /\ Len(k) = 2)
  BY DEF Fits, Key
<1>3. k[1] = "flags" => (a \in {"flag", "lifecycle"} /\ Len(k) = 3) \/ (a \in {"config", "envFlags"} /\ Len(k) = 5)
  BY DEF Fits, Key
<1>4. k[1] = "environments" => a = "environments"
  BY DEF Fits, Key
<1>5. k[1] = "segments" => a \in {"segments", "segment"}
  BY DEF Fits, Key
<1>6. k[1] = "contexts" => (a = "contexts" /\ Len(k) = 4) \/ (a = "context" /\ Len(k) = 5)
  BY DEF Fits, Key
<1>7. k[1] = "sdk-keys" => a = "sdkKeys"
  BY DEF Fits, Key
<1>8. k[1] = "changes" => a = "changes"
  BY DEF Fits, Key
<1>9. k[1] = "scheduled-changes" => a = "scheduled"
  BY DEF Fits, Key
<1>10. k[1] = "triggers" => a = "triggers"
  BY DEF Fits, Key
<1>11. k[1] = "audit" => a = "audit"
  BY DEF Fits, Key
<1>12. k[1] = "webhooks" => (a = "webhooks" /\ Len(k) = 1) \/ (a = "deliveries" /\ Len(k) = 3)
  BY DEF Fits, Key
<1>13. k[1] = "roles" => a = "roles"
  BY DEF Fits, Key
<1>14. k[1] = "permissions" => a = "permissions"
  BY DEF Fits, Key
<1>15. k[1] = "members" => a = "members"
  BY DEF Fits, Key
<1>16. k[1] = "users" => a = "users"
  BY DEF Fits, Key
<1>17. k[1] = "stats" => (a = "flagStats" /\ Len(k) = 6) \/ (a = "envStats" /\ Len(k) = 5)
  BY DEF Fits, Key
<1>18. k[1] \in {"organizations", "projects", "flags", "environments", "segments", "contexts",
                      "sdk-keys", "changes", "scheduled-changes", "triggers", "audit", "webhooks",
                      "roles", "permissions", "members", "users", "stats"}
  BY DEF Fits, Key
<1> QED
  BY <1>1, <1>2, <1>3, <1>4, <1>5, <1>6, <1>7, <1>8, <1>9, <1>10, <1>11, <1>12, <1>13, <1>14, <1>15, <1>16, <1>17, <1>18

\* Two shapes of one key are one of the three pairs that share theirs.
LEMMA FitsShapes ==
  ASSUME NEW k, NEW a, NEW b, Fits(k, a), Fits(k, b), a # b PROVE SharedKey(k, {a, b})
<1>1. \/ k[1] = "segments" /\ {a, b} = {"segments", "segment"}
      \/ k[1] = "flags" /\ {a, b} = {"flag", "lifecycle"}
      \/ k[1] = "flags" /\ {a, b} = {"config", "envFlags"}
  BY HeadShape
<1>2. Fits(k, "segment") => k[3] # ""
  BY DEF Fits
<1>3. Fits(k, "lifecycle") => k[3] = "lifecycle"
  BY DEF Fits
<1>4. (Fits(k, "envFlags") => k[3] = "env") /\ (Fits(k, "config") => k[4] = "config")
  BY DEF Fits
<1>5. CASE {a, b} = {"segments", "segment"}
  BY <1>2, <1>5 DEF SharedKey
<1>6. CASE {a, b} = {"flag", "lifecycle"}
  <2>1. a = "lifecycle" \/ b = "lifecycle"
    BY <1>6
  <2>2. k[3] = "lifecycle"
    BY <1>3, <2>1
  <2> QED
    BY <1>6, <2>2 DEF SharedKey
<1>7. CASE {a, b} = {"config", "envFlags"}
  BY <1>4, <1>7 DEF SharedKey
<1> QED
  BY <1>1, <1>5, <1>6, <1>7

\* A page is never handed data of another kind than its query asks for, wherever the keys of
\* lib/query-keys.ts are distinct: fetches, setQueryData and invalidations in any order.
THEOREM ShapesCorrect == Spec => []ShapesMatch
<1>1. DashboardInv => ShapesMatch
  <2> SUFFICES ASSUME DashboardInv, NEW q \in mounted, HasData(cache[q.key]),
                      cache[q.key].shape # q.shape
               PROVE  SharedKey(q.key, {cache[q.key].shape, q.shape})
    BY DEF ShapesMatch
  <2>1. Fits(q.key, q.shape) /\ DataGood(q.key, cache[q.key].shape, cache[q.key].rows)
    BY DEF DashboardInv, ViewGood, CacheGood, EntryGood
  <2>2. Fits(q.key, cache[q.key].shape)
    BY <2>1 DEF DataGood, RowsGood, HasData
  <2> QED
    BY <2>1, <2>2, FitsShapes
<1> QED
  BY <1>1, InvCorrect, PTL

\* No trigger url and no webhook secret reaches the query cache, whatever is minted, reset,
\* listed, answered late or lost.
THEOREM SecretsCorrect == Spec => []SecretsNotCached
<1>1. DashboardInv => SecretsNotCached
  BY DEF DashboardInv, CacheGood, EntryGood, DataGood, RowsGood, Clean, SecretsNotCached
<1> QED
  BY <1>1, InvCorrect, PTL

\* A pending mutation waits only for fetches that are under way.
THEOREM WaitsCorrect == Spec => []WaitsEnd
<1>1. DashboardInv => WaitsEnd
  BY DEF DashboardInv, MutsGood, WaitsEnd, Flying, InFlight
<1> QED
  BY <1>1, InvCorrect, PTL

\* A page that reads the data of an entry that succeeded finds data, however answers, failures,
\* setQueryData and invalidations followed each other; every fetch and every mutation is in one
\* of its phases.
THEOREM StatesCorrect == Spec => []EntryStates
<1>1. DashboardInv => EntryStates
  BY DEF DashboardInv, CacheGood, EntryGood, MutsGood, MutGood, Statuses, Phases, EntryStates
<1> QED
  BY <1>1, InvCorrect, PTL
=============================================================================
