--------------------------- MODULE DashboardPages ---------------------------
(***************************************************************************)
(* The dashboard's pages (web/src/features/*Page.tsx, app/router.tsx and   *)
(* the three shells of app/).  A page is a record of what it renders:      *)
(* the queries it mounts, the commands its controls can issue, the links   *)
(* and the ways its own state `ui' can be changed, and its lists without   *)
(* controls.  A component that lists rows has an operator of its own: what *)
(* its controls emit, or, when it has none, what it shows.                 *)
(*                                                                         *)
(* here is what the page reads off its url and its environment picker,     *)
(* cache what TanStack Query holds.  One project's pages are modelled; the *)
(* others' (their cache keys are their own) are the page "elsewhere".      *)
(***************************************************************************)
EXTENDS DashboardHooks

CONSTANTS Texts,    \* what may be typed into a search box
          NewKeys   \* the keys new flags, segments, environments and roles are given

To(page, item) == [page |-> page, item |-> item, kind |-> "", env |-> ""]
Plain(pages) == {To(page, "") : page \in pages}

\* A fresh page's own state.
NewUi == [picked |-> "", query |-> "", search |-> "", filter |-> "", revealed |-> 0, deliveries |-> 0]

\* A query's data, shown unless it is loading or its last fetch failed.
RowsOf(cache, q) == IF q.key \in DOMAIN cache THEN cache[q.key].rows ELSE {}
Shown(cache, q) == q.key \in DOMAIN cache /\ cache[q.key].status = "success"
ShownRows(cache, qs, q) == IF \A r \in qs : Shown(cache, r) THEN RowsOf(cache, q) ELSE {}

\* A control: the mutation it starts, the hooks whose pending mutation disables it (of the
\* same row only, unless `row' is "any"), and what follows success.
Cmd(hook, v, unless, row, then) ==
  [hook |-> hook, v |-> v, unless |-> unless, row |-> row, then |-> then]
Then(do, to) == [do |-> do, to |-> to]
Nothing == Then("nothing", To("", ""))
Simple(hook, v) == Cmd(hook, v, {hook}, "any", Nothing)
Going(hook, v, to) == Cmd(hook, v, {hook}, "any", Then("go", to))

Page(queries, commands, links, choices) ==
  [queries |-> queries, commands |-> commands, links |-> links, choices |-> choices, lists |-> {}]

\* A list without controls, of the data of q: its rows, or the words that there are none yet.
Listing(q, rows) == [of |-> q, none |-> rows = {}, rows |-> rows]

\* The page with such a list, once it has the data.
WithList(page, cache, q, list) == IF Shown(cache, q) THEN [page EXCEPT !.lists = {list}] ELSE page

----------------------------------------------------------------------------
(* Shared controls.                                                        *)

\* picked || environments.data?.[0]?.key || ''
EnvKey(ui, cache, p) ==
  LET rows == RowsOf(cache, useEnvironments([p |-> p], ""))
  IN IF ui.picked # "" THEN ui.picked
     ELSE IF rows = {} THEN ""
     ELSE (CHOOSE e \in rows : \A other \in rows : e.id <= other.id).key

EnvironmentTabs(ui, rows) == {[ui EXCEPT !.picked = e.key] : e \in rows}
SearchBox(ui, shown) == IF shown THEN {[ui EXCEPT !.query = t] : t \in Texts} ELSE {}
FilterTabs(ui, values) == {[ui EXCEPT !.filter = f] : f \in values}
Filter(ui, default) == IF ui.filter = "" THEN default ELSE ui.filter

\* The search box is there while there is data, a failed refetch or not, and something to
\* search or a search to undo.
Searchable(cache, q, ui) ==
  /\ q.key \in DOMAIN cache
  /\ cache[q.key].shape # ""
  /\ RowsOf(cache, q) # {} \/ ui.search # ""

----------------------------------------------------------------------------
(* Organizations, users, projects.                                         *)

OrganizationList(rows) ==
  [commands |-> {Simple("useDeleteOrganization", [key |-> r.key]) : r \in rows},
   links |-> IF rows = {} THEN {} ELSE Plain({"projects"})]

OrganizationsPage(here, ui, cache) ==
  LET list == OrganizationList(ShownRows(cache, {useOrganizations}, useOrganizations))
  IN Page({useOrganizations}, list.commands, list.links, {})

UserList(rows) == {Simple("useDeleteUser", [id |-> r.id]) : r \in rows}

UsersPage(here, ui, cache) ==
  Page({useUsers}, {Simple("useCreateUser", None)} \cup UserList(ShownRows(cache, {useUsers}, useUsers)),
       {}, {})

\* Opens a project; with onDelete, in the settings, it also deletes one.
ProjectList(rows, here, deletes) ==
  [commands |-> IF deletes THEN {Simple("useDeleteProject", [key |-> r.key]) : r \in rows} ELSE {},
   links |-> Plain({IF r.key = here.p THEN "flags" ELSE "elsewhere" : r \in rows})]

ProjectsPage(here, ui, cache) ==
  LET list == ProjectList(ShownRows(cache, {useProjects}, useProjects), here, FALSE)
  IN Page({useProjects}, {Going("useCreateProject", [key |-> "fresh", content |-> "new"], To("elsewhere", ""))},
          list.links, {})

ProjectsSettingsPage(here, ui, cache) ==
  LET list == ProjectList(ShownRows(cache, {useProjects}, useProjects), here, TRUE)
  IN Page({useProjects}, list.commands, list.links, {})

ProjectSwitcher(here, cache) == ProjectList(RowsOf(cache, useProjects), here, FALSE).links

GeneralSettingsPage(here, ui, cache) ==
  Page({useProject(here)},
       IF Shown(cache, useProject(here)) THEN {Simple("useUpdateProject", [content |-> "renamed"])} ELSE {},
       {}, {})

SettingsPlaceholder(here, ui, cache) == Page({}, {}, {}, {})

----------------------------------------------------------------------------
(* Flags.                                                                  *)

\* togglingKey is the row of the latest pending toggle: only that switch is disabled.
FlagList(rows) ==
  [commands |-> {Cmd("useToggleEnvFlag", [flag |-> r.key, on |-> ~r.on], {"useToggleEnvFlag"}, r.key,
                     Nothing) : r \in rows},
   links |-> {To("flag", r.key) : r \in rows}]

FlagsPage(here, ui, cache) ==
  LET environments == useEnvironments(here, "")
      flags == useEnvFlags(here, ui.search)
      list == FlagList(ShownRows(cache, {environments, flags}, flags))
  IN Page({environments, flags},
          {Going("useCreateFlag", [key |-> k, content |-> "permanent"], To("flag", k)) : k \in NewKeys}
            \cup list.commands,
          list.links,
          EnvironmentTabs(ui, ShownRows(cache, {environments}, environments))
            \cup SearchBox(ui, Shown(cache, environments) /\ Searchable(cache, flags, ui)))

FlagLifecycleList(rows) == {To("flag", r.key) : r \in rows}

\* The filter is the page's own: the query is the same.
LifecyclePage(here, ui, cache) ==
  LET lifecycle == useFlagLifecycle(here)
      flags == {r \in ShownRows(cache, {lifecycle}, lifecycle) :
                  /\ ui.filter = "stale" => r.status = "inactive"
                  /\ ui.filter = "temporary" => r.content = "temporary"}
  IN Page({lifecycle}, {}, FlagLifecycleList(flags), FilterTabs(ui, {"all", "stale", "temporary"}))

StatsWindows == {"1h", "24h", "168h", "720h"}
StatsBars(rows) == {To("flag", r.flag) : r \in rows}

FlagStatsSection(here, ui) == useFlagStats(here, Filter(ui, "24h"))

\* Every edit of the configuration is one instruction; one patch at a time.
Patch(instruction) == Simple("usePatchFlagConfig", [instructions |-> <<instruction>>])

VariationSelect(kind, current) == {Patch([kind |-> kind, variation |-> v]) : v \in {0, 1} \ {current}}

IndividualTargets(targets) ==
  {Patch([kind |-> "addTargets", variation |-> 1, value |-> "u1"])}
    \cup {Patch([kind |-> "removeTargets", variation |-> t[1], value |-> t[2]]) : t \in targets}

FlagTargeting(config) ==
  VariationSelect("updateFallthroughVariation", config.fallthrough)
    \cup VariationSelect("updateOffVariation", config.off)
    \cup IndividualTargets(config.targets)

\* move: the two ids change places; the first rule has no up, the last no down.
Move(rules, i, j) ==
  [k \in DOMAIN rules |-> rules[CASE k = i -> j [] k = j -> i [] OTHER -> k].id]

FlagRules(rules) ==
  {Patch([kind |-> "addRule", serves |-> 1])}
    \cup {Patch([kind |-> "updateRule", rule |-> rules[i].id, serves |-> 0]) : i \in DOMAIN rules}
    \cup {Patch([kind |-> "removeRule", rule |-> rules[i].id]) : i \in DOMAIN rules}
    \cup {Patch([kind |-> "reorderRules", order |-> Move(rules, i, i + 1)]) : i \in 1..(Len(rules) - 1)}

FlagConfigCard(here, config) == {Simple("useToggleFlag", [env |-> here.env, on |-> ~config.on])}

RequestedChange(config) == [instructions |-> Toggled(~config.on)]

ScheduledChangesCard(rows) ==
  {Simple("useCancelScheduledChange", [id |-> r.id]) : r \in {r \in rows : r.status = "pending"}}

Reveal == Then("reveal", To("", ""))
TriggerHooks == {"useSetTriggerEnabled", "useResetTrigger", "useDeleteTrigger"}

TriggersCard(rows) ==
  UNION {{Cmd("useSetTriggerEnabled", [id |-> r.id, enabled |-> ~r.enabled], TriggerHooks, "any", Nothing),
          Cmd("useResetTrigger", [id |-> r.id], TriggerHooks, "any", Reveal),
          Cmd("useDeleteTrigger", [id |-> r.id], TriggerHooks, "any", Nothing)} : r \in rows}

\* What FlagDetailPage renders once the configuration is there.
ConfigSection(here, cache, config) ==
  {Cmd("useCreateTrigger", None, {"useCreateTrigger"}, "any", Reveal),
   Simple("useCreateScheduledChange", RequestedChange(config)),
   Simple("useCreateChange", RequestedChange(config))}
    \cup FlagConfigCard(here, config) \cup FlagTargeting(config) \cup FlagRules(config.rules)
    \cup ScheduledChangesCard(RowsOf(cache, useScheduledChanges(here)))
    \cup TriggersCard(RowsOf(cache, useTriggers(here)))

FlagDetailPage(here, ui, cache) ==
  LET environments == useEnvironments(here, "")
      config == useFlagConfig(here)
      rows == ShownRows(cache, {useFlag(here), environments, config}, config)
  IN Page({useFlag(here), environments, config, useScheduledChanges(here), useTriggers(here)}
            \cup {FlagStatsSection(here, ui) : r \in rows},
          {Going("useDeleteFlag", [flag |-> here.flag], To("flags", ""))}
            \cup UNION {ConfigSection(here, cache, r) : r \in rows},
          Plain({"flags"}),
          EnvironmentTabs(ui, ShownRows(cache, {useFlag(here), environments}, environments))
            \cup (IF rows = {} THEN {}
                  ELSE FilterTabs(ui, StatsWindows) \cup {[ui EXCEPT !.revealed = 0]}))

----------------------------------------------------------------------------
(* Approvals, audit, analytics.                                            *)

ChangeRequestList(rows) ==
  UNION {{Simple("useReviewChange", [id |-> r.id, approve |-> TRUE]),
          Simple("useReviewChange", [id |-> r.id, approve |-> FALSE])} :
           r \in {r \in rows : r.status = "pending"}}

ApprovalsPage(here, ui, cache) ==
  LET changes == useChanges(here, Filter(ui, "pending"))
  IN Page({changes}, ChangeRequestList(ShownRows(cache, {changes}, changes)), {},
          FilterTabs(ui, {"pending", "approved", "rejected", "all"}))

AuditList(q, rows) == Listing(q, {[id |-> r.key] : r \in rows})

AuditPage(here, ui, cache) ==
  LET audit == useAudit(ui.filter)
  IN WithList(Page({audit}, {}, {}, FilterTabs(ui, {"", "flag", "segment"})), cache, audit,
           AuditList(audit, RowsOf(cache, audit)))

AnalyticsPage(here, ui, cache) ==
  LET environments == useEnvironments(here, "")
      stats == useEnvStats(here, Filter(ui, "24h"))
  IN Page({environments, stats}, {}, StatsBars(ShownRows(cache, {environments, stats}, stats)),
          EnvironmentTabs(ui, ShownRows(cache, {environments}, environments))
            \cup (IF Shown(cache, environments) THEN FilterTabs(ui, StatsWindows) ELSE {}))

----------------------------------------------------------------------------
(* Segments, contexts, environments, SDK keys.                             *)

SegmentList(rows) == {To("segment", r.key) : r \in rows}

SegmentsPage(here, ui, cache) ==
  LET segments == useSegments(here, ui.search)
  IN Page({segments},
          {Going("useCreateSegment", [key |-> k], To("segment", k)) : k \in NewKeys},
          SegmentList(ShownRows(cache, {segments}, segments)),
          SearchBox(ui, Searchable(cache, segments, ui)))

SegmentDetailPage(here, ui, cache) ==
  Page({useSegment(here)},
       {Going("useDeleteSegment", [key |-> here.seg], To("segments", ""))}
         \cup (IF Shown(cache, useSegment(here)) THEN {Simple("useSaveSegment", [content |-> "new"])}
               ELSE {}),
       Plain({"segments"}), {})

ContextList(here, rows) ==
  {[page |-> "context", item |-> r.key, kind |-> r.kind, env |-> here.env] : r \in rows}

ContextsPage(here, ui, cache) ==
  LET environments == useEnvironments(here, "")
      contexts == useContexts(here, ui.search)
  IN Page({environments, contexts}, {},
          ContextList(here, ShownRows(cache, {environments, contexts}, contexts)),
          EnvironmentTabs(ui, ShownRows(cache, {environments}, environments))
            \cup SearchBox(ui, Shown(cache, environments)))

\* How every flag serves the context; the flags it lists lead nowhere.
ExpectedVariationsTable(q, rows) == Listing(q, {[id |-> r.key, value |-> r.content] : r \in rows})

\* The environment is the url's.
ContextDetailPage(here, ui, cache) ==
  LET detail == useContext(here, here.kind, here.ctx)
  IN WithList(Page({detail}, {}, Plain({"contexts"}), {}), cache, detail,
           ExpectedVariationsTable(detail, RowsOf(cache, detail)))

EnvironmentList(q, rows) == Listing(q, {[id |-> r.id, key |-> r.key] : r \in rows})

EnvironmentsPage(here, ui, cache) ==
  LET environments == useEnvironments(here, ui.search)
      rows == RowsOf(cache, environments)
      page == Page({environments}, {Simple("useCreateEnvironment", [key |-> k]) : k \in NewKeys}, {},
                   SearchBox(ui, Searchable(cache, environments, ui)))
  IN IF rows = {} /\ ui.search # "" THEN page    \* nothing matches
     ELSE WithList(page, cache, environments, EnvironmentList(environments, rows))

SdkKeyList(rows) ==
  {Cmd("useRevokeSdkKey", [id |-> r.id], {"useRevokeSdkKey"}, ToString(r.id), Nothing) : r \in rows}

SdkKeysPage(here, ui, cache) ==
  LET environments == useEnvironments(here, "")
      keys == useSdkKeys(here)
  IN Page({environments, keys},
          (IF here.env = "" THEN {} ELSE {Simple("useCreateSdkKey", None)})
            \cup SdkKeyList(ShownRows(cache, {environments, keys}, keys)),
          {}, EnvironmentTabs(ui, ShownRows(cache, {environments}, environments)))

----------------------------------------------------------------------------
(* Members, roles, webhooks.                                               *)

MemberList(q, rows) == Listing(q, {[id |-> r.id] : r \in rows})

MembersSettingsPage(here, ui, cache) ==
  WithList(Page({useMembers, useRoles}, {Simple("useAddMember", None), Simple("useGrantProjectRole", None)},
             {}, {}),
        cache, useMembers, MemberList(useMembers, RowsOf(cache, useMembers)))

RoleList(q, rows) == Listing(q, {[id |-> r.key] : r \in rows})

RolesSettingsPage(here, ui, cache) ==
  WithList(Page({useRoles, usePermissions}, {Simple("useCreateRole", [key |-> k]) : k \in NewKeys}, {}, {}),
        cache, useRoles, RoleList(useRoles, RowsOf(cache, useRoles)))

WebhookHooks == {"useSetWebhookEnabled", "useResetWebhookSecret", "useDeleteWebhook", "useTestWebhook"}

WebhookList(rows) ==
  UNION {{Cmd("useSetWebhookEnabled", [id |-> r.id, enabled |-> ~r.enabled], WebhookHooks, "any", Nothing),
          Cmd("useTestWebhook", [id |-> r.id], WebhookHooks, "any", Nothing),
          Cmd("useResetWebhookSecret", [id |-> r.id], WebhookHooks, "any", Reveal),
          Cmd("useDeleteWebhook", [id |-> r.id], WebhookHooks, "any", Nothing)} : r \in rows}

\* The dialog with a hook's deliveries opens, and closes.
WebhookDeliveries(ui, rows) ==
  {[ui EXCEPT !.deliveries = r.id] : r \in rows} \cup {[ui EXCEPT !.deliveries = 0]}

WebhooksSettingsPage(here, ui, cache) ==
  LET rows == ShownRows(cache, {useWebhooks}, useWebhooks)
  IN Page({useWebhooks, useWebhookDeliveries(ui.deliveries)},
          {Cmd("useCreateWebhook", None, {"useCreateWebhook"}, "any", Reveal)} \cup WebhookList(rows),
          {}, WebhookDeliveries(ui, rows) \cup {[ui EXCEPT !.revealed = 0]})

----------------------------------------------------------------------------
(* The router and its shells.                                              *)

AppNav == Plain({"organizations", "users"})
ProjectNav == Plain({"organizations", "flags", "segments", "contexts", "approvals", "lifecycle", "audit",
                     "analytics", "environments", "general"})
SettingsNav == Plain({"flags", "general", "settings projects", "members", "roles", "integrations",
                      "sdk-keys", "placeholder"})

OrgPages == {"organizations", "users", "projects"}
SettingsPages == {to.page : to \in SettingsNav} \ {"flags"}

\* The pages the router knows, and where the other projects' pages are.
PageNames ==
  OrgPages \cup SettingsPages
    \cup {"flags", "flag", "segments", "segment", "contexts", "context", "approvals", "lifecycle",
          "audit", "analytics", "environments", "elsewhere"}

AppLayout(page) ==
  [page EXCEPT !.links = @ \cup AppNav]
ProjectLayout(here, cache, page) ==
  [page EXCEPT !.queries = @ \cup {useProjects},
               !.links = @ \cup ProjectNav \cup ProjectSwitcher(here, cache)]
SettingsLayout(page) == [page EXCEPT !.links = @ \cup SettingsNav]

\* What a page reads off its url and picker.  Closures of mutations read it too.
Here(route, ui, cache) ==
  [p |-> "checkout", flag |-> route.item, seg |-> route.item, ctx |-> route.item, kind |-> route.kind,
   env |-> CASE route.page \in {"flags", "flag", "contexts", "sdk-keys", "analytics"} ->
                  EnvKey(ui, cache, "checkout")
             [] OTHER -> route.env]

Element(route, ui, cache) ==
  LET here == Here(route, ui, cache) IN
  CASE route.page = "organizations" -> OrganizationsPage(here, ui, cache)
    [] route.page = "users" -> UsersPage(here, ui, cache)
    [] route.page = "projects" -> ProjectsPage(here, ui, cache)
    [] route.page = "flags" -> FlagsPage(here, ui, cache)
    [] route.page = "flag" -> FlagDetailPage(here, ui, cache)
    [] route.page = "segments" -> SegmentsPage(here, ui, cache)
    [] route.page = "segment" -> SegmentDetailPage(here, ui, cache)
    [] route.page = "contexts" -> ContextsPage(here, ui, cache)
    [] route.page = "context" -> ContextDetailPage(here, ui, cache)
    [] route.page = "approvals" -> ApprovalsPage(here, ui, cache)
    [] route.page = "lifecycle" -> LifecyclePage(here, ui, cache)
    [] route.page = "audit" -> AuditPage(here, ui, cache)
    [] route.page = "analytics" -> AnalyticsPage(here, ui, cache)
    [] route.page = "environments" -> EnvironmentsPage(here, ui, cache)
    [] route.page = "general" -> GeneralSettingsPage(here, ui, cache)
    [] route.page = "settings projects" -> ProjectsSettingsPage(here, ui, cache)
    [] route.page = "members" -> MembersSettingsPage(here, ui, cache)
    [] route.page = "roles" -> RolesSettingsPage(here, ui, cache)
    [] route.page = "integrations" -> WebhooksSettingsPage(here, ui, cache)
    [] route.page = "sdk-keys" -> SdkKeysPage(here, ui, cache)
    [] route.page = "placeholder" -> SettingsPlaceholder(here, ui, cache)
    [] route.page = "elsewhere" -> Page({}, {}, {}, {})

Router(route, ui, cache) ==
  LET page == Element(route, ui, cache)
  IN IF route.page \in OrgPages THEN AppLayout(page)
     ELSE IF route.page \in SettingsPages THEN SettingsLayout(page)
     ELSE ProjectLayout(Here(route, ui, cache), cache, page)
=============================================================================
