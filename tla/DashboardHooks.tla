--------------------------- MODULE DashboardHooks ---------------------------
(***************************************************************************)
(* What the dashboard's hooks ask of TanStack Query and of the API         *)
(* (web/src/features/*/hooks, lib/query-keys.ts, api/endpoints).  A query  *)
(* hook is a record: the cache key, the request, the shape of the answer   *)
(* it hands on, and whether it is enabled.  A mutation hook is a record:   *)
(* the request, the key its onSuccess puts the answer under (<<>> if none),*)
(* the key prefixes it invalidates, and whether the mutation stays pending *)
(* until what it invalidated was fetched (onSuccess returns the promise).  *)
(* c holds what the hook's closure reads: project, flag, environment,      *)
(* segment; v the variables of mutate.                                     *)
(***************************************************************************)
EXTENDS MockBackend

Ask(on, with) == [on |-> on, with |-> with]
Query(key, req, shape, enabled) == [key |-> key, req |-> req, shape |-> shape, enabled |-> enabled]
Mutation(req, set, invalidates, awaits) ==
  [req |-> req, set |-> set, invalidates |-> invalidates, awaits |-> awaits]

----------------------------------------------------------------------------
(* Query keys; the organization is left out.                               *)

OrganizationsKey == <<"organizations", "list">>
ProjectsKey == <<"projects">>
ProjectKey(c) == <<"projects", c.p>>
FlagsKey(c) == <<"flags", c.p>>
FlagLifecycleKey(c) == FlagsKey(c) \o <<"lifecycle">>
EnvFlagsKey(c) == FlagsKey(c) \o <<"env", c.env>>
FlagKey(c) == FlagsKey(c) \o <<c.flag>>
FlagConfigKey(c) == FlagsKey(c) \o <<c.flag, "config", c.env>>
EnvironmentsKey(c) == <<"environments", c.p>>
SegmentsKey(c) == <<"segments", c.p>>
SegmentKey(c) == SegmentsKey(c) \o <<c.seg>>
ContextsKey(c) == <<"contexts", c.p, c.env>>
SdkKeysKey(c) == <<"sdk-keys", c.p, c.env>>
ChangesKey(c) == <<"changes", c.p>>
ScheduledChangesKey(c) == <<"scheduled-changes", c.p>>
TriggersKey(c) == <<"triggers", c.p>>
AuditKey == <<"audit">>
WebhooksKey == <<"webhooks">>
RolesKey == <<"roles">>
PermissionsKeyCopied == <<"roles">>    \* Wrong variant.
PermissionsKey == <<"permissions">>
MembersKey == <<"members">>
UsersKey == <<"users">>

----------------------------------------------------------------------------
(* Endpoints, by the handler each one calls.                               *)

flagsApi == [listInEnv |-> "GET env flags", create |-> "PUT flag", listLifecycle |-> "GET lifecycle",
             get |-> "GET flag", remove |-> "DELETE flag", getConfig |-> "GET config",
             toggle |-> "PATCH config", patchConfig |-> "PATCH config"]
scheduledChangesApi == [list |-> "GET scheduled-changes", create |-> "POST scheduled-changes",
                        cancel |-> "POST cancel"]
triggersApi == [list |-> "GET triggers", create |-> "POST triggers",
                setEnabled |-> "POST trigger enabled", reset |-> "POST trigger reset",
                remove |-> "DELETE trigger"]
changesApi == [list |-> "GET changes", create |-> "POST changes", approve |-> "POST approve",
               reject |-> "POST reject"]
segmentsApi == [list |-> "GET segments", get |-> "GET segment", save |-> "PUT segment",
                remove |-> "DELETE segment"]
projectsApi == [list |-> "GET projects", get |-> "GET project", create |-> "POST projects",
                update |-> "PATCH project", remove |-> "DELETE project"]
environmentsApi == [list |-> "GET environments", create |-> "POST environments"]
organizationsApi == [list |-> "GET organizations", remove |-> "DELETE organization"]
usersApi == [list |-> "GET users", create |-> "POST users", remove |-> "DELETE user"]
membersApi == [list |-> "GET members", add |-> "POST members",
               grantProjectRole |-> "POST project roles"]
rolesApi == [list |-> "GET roles", permissions |-> "GET permissions", create |-> "POST roles"]
sdkKeysApi == [list |-> "GET sdk-keys", create |-> "POST sdk-keys", revoke |-> "DELETE sdk-key"]
webhooksApi == [list |-> "GET webhooks", create |-> "POST webhooks",
                setEnabled |-> "POST webhook enabled", reset |-> "POST webhook reset",
                test |-> "POST test", remove |-> "DELETE webhook", deliveries |-> "GET deliveries"]
contextsApi == [list |-> "GET contexts", get |-> "GET context"]
auditApi == [list |-> "GET audit"]
analyticsApi == [flagStats |-> "GET flag stats", envStats |-> "GET env stats"]

----------------------------------------------------------------------------
(* Query hooks.                                                            *)

None == [none |-> TRUE]

useFlagLifecycle(c) ==
  Query(FlagLifecycleKey(c), Ask(flagsApi.listLifecycle, None), "lifecycle", TRUE)
useEnvFlags(c, search) ==
  Query(EnvFlagsKey(c) \o <<search>>,
        Ask(flagsApi.listInEnv, [env |-> c.env, search |-> search]), "envFlags", c.env # "")
useFlag(c) == Query(FlagKey(c), Ask(flagsApi.get, [flag |-> c.flag]), "flag", TRUE)
useFlagConfig(c) ==
  Query(FlagConfigKey(c), Ask(flagsApi.getConfig, [flag |-> c.flag, env |-> c.env]), "config",
        c.env # "")
useScheduledChanges(c) ==
  Query(ScheduledChangesKey(c) \o <<c.flag, c.env, "all">>,
        Ask(scheduledChangesApi.list, [flag |-> c.flag, env |-> c.env]), "scheduled", c.env # "")
useTriggers(c) ==
  Query(TriggersKey(c) \o <<c.flag, c.env>>,
        Ask(triggersApi.list, [flag |-> c.flag, env |-> c.env]), "triggers", c.env # "")
useChanges(c, status) ==
  Query(ChangesKey(c) \o <<status>>, Ask(changesApi.list, [status |-> status]), "changes", TRUE)
useSegments(c, search) ==
  Query(SegmentsKey(c) \o <<search>>, Ask(segmentsApi.list, [search |-> search]), "segments", TRUE)
useSegment(c) == Query(SegmentKey(c), Ask(segmentsApi.get, [key |-> c.seg]), "segment", TRUE)
useProjects == Query(ProjectsKey, Ask(projectsApi.list, None), "projects", TRUE)
useProject(c) == Query(ProjectKey(c), Ask(projectsApi.get, [key |-> c.p]), "project", TRUE)
useEnvironments(c, search) ==
  Query(EnvironmentsKey(c) \o <<search>>, Ask(environmentsApi.list, [search |-> search]),
        "environments", TRUE)
useOrganizations == Query(OrganizationsKey, Ask(organizationsApi.list, None), "organizations", TRUE)
useUsers == Query(UsersKey, Ask(usersApi.list, None), "users", TRUE)
useMembers == Query(MembersKey, Ask(membersApi.list, None), "members", TRUE)
useRoles == Query(RolesKey, Ask(rolesApi.list, None), "roles", TRUE)
usePermissions == Query(PermissionsKey, Ask(rolesApi.permissions, None), "permissions", TRUE)
useSdkKeys(c) == Query(SdkKeysKey(c), Ask(sdkKeysApi.list, None), "sdkKeys", c.env # "")
useWebhooks == Query(WebhooksKey, Ask(webhooksApi.list, None), "webhooks", TRUE)
useWebhookDeliveries(id) ==
  Query(WebhooksKey \o <<ToString(id), "deliveries">>, Ask(webhooksApi.deliveries, [id |-> id]),
        "deliveries", id # 0)
useContexts(c, search) ==
  Query(ContextsKey(c) \o <<search>>, Ask(contextsApi.list, [search |-> search]), "contexts",
        c.env # "")
useContext(c, kind, key) ==
  Query(ContextsKey(c) \o <<kind, key>>, Ask(contextsApi.get, [kind |-> kind, key |-> key]),
        "context", c.env # "" /\ key # "")
useAudit(type) == Query(AuditKey \o <<type>>, Ask(auditApi.list, [search |-> type]), "audit", TRUE)
useFlagStats(c, since) ==
  Query(<<"stats", "flag", c.p, c.flag, c.env, since>>, Ask(analyticsApi.flagStats, [flag |-> c.flag]),
        "flagStats", c.env # "")
useEnvStats(c, since) ==
  Query(<<"stats", "env", c.p, c.env, since>>, Ask(analyticsApi.envStats, None), "envStats",
        c.env # "")

----------------------------------------------------------------------------
(* Mutation hooks.                                                         *)

Toggled(on) == <<[kind |-> IF on THEN "turnFlagOn" ELSE "turnFlagOff"]>>
InConfig(f, e, instructions) == [flag |-> f, env |-> e, instructions |-> instructions]

\* Wrong variant: the list is not refreshed.
useToggleEnvFlagSilent(c, v) ==
  Mutation(Ask(flagsApi.toggle, InConfig(v.flag, c.env, Toggled(v.on))), <<>>, {}, TRUE)

useToggleEnvFlag(c, v) ==
  Mutation(Ask(flagsApi.toggle, InConfig(v.flag, c.env, Toggled(v.on))), <<>>, {EnvFlagsKey(c)}, TRUE)
useCreateFlag(c, v) == Mutation(Ask(flagsApi.create, v), <<>>, {FlagsKey(c)}, TRUE)
\* v.env, and not c.env: the cache entry is that of the environment toggled.
useToggleFlag(c, v) ==
  Mutation(Ask(flagsApi.toggle, InConfig(c.flag, v.env, Toggled(v.on))),
           FlagConfigKey([c EXCEPT !.env = v.env]), {}, FALSE)
usePatchFlagConfig(c, v) ==
  Mutation(Ask(flagsApi.patchConfig, InConfig(c.flag, c.env, v.instructions)), FlagConfigKey(c),
           {EnvFlagsKey(c)}, FALSE)
useDeleteFlag(c, v) ==
  Mutation(Ask(flagsApi.remove, v), <<>>, {FlagsKey(c)}, TRUE)

useCreateScheduledChange(c, v) ==
  Mutation(Ask(scheduledChangesApi.create, InConfig(c.flag, c.env, v.instructions)), <<>>,
           {ScheduledChangesKey(c)}, TRUE)
useCancelScheduledChange(c, v) ==
  Mutation(Ask(scheduledChangesApi.cancel, v), <<>>, {ScheduledChangesKey(c)}, TRUE)

useCreateTrigger(c, v) ==
  Mutation(Ask(triggersApi.create, [flag |-> c.flag, env |-> c.env]), <<>>, {TriggersKey(c)}, FALSE)
useSetTriggerEnabled(c, v) ==
  Mutation(Ask(triggersApi.setEnabled, v), <<>>, {TriggersKey(c)}, FALSE)
useResetTrigger(c, v) == Mutation(Ask(triggersApi.reset, v), <<>>, {TriggersKey(c)}, FALSE)
useDeleteTrigger(c, v) == Mutation(Ask(triggersApi.remove, v), <<>>, {TriggersKey(c)}, FALSE)

useCreateChange(c, v) ==
  Mutation(Ask(changesApi.create, InConfig(c.flag, c.env, v.instructions)), <<>>, {ChangesKey(c)}, TRUE)
useReviewChange(c, v) ==
  Mutation(Ask(IF v.approve THEN changesApi.approve ELSE changesApi.reject, [id |-> v.id]), <<>>,
           {ChangesKey(c), FlagsKey(c)}, FALSE)

useCreateSegment(c, v) ==
  Mutation(Ask(segmentsApi.save, [key |-> v.key, content |-> "empty"]), <<>>, {SegmentsKey(c)}, TRUE)
useSaveSegment(c, v) ==
  Mutation(Ask(segmentsApi.save, [key |-> c.seg, content |-> v.content]), SegmentKey(c), {SegmentsKey(c)},
           FALSE)
useDeleteSegment(c, v) ==
  Mutation(Ask(segmentsApi.remove, v), <<>>, {SegmentsKey(c)}, TRUE)

useCreateProject(c, v) == Mutation(Ask(projectsApi.create, v), <<>>, {ProjectsKey}, TRUE)
useUpdateProject(c, v) ==
  Mutation(Ask(projectsApi.update, [key |-> c.p, content |-> v.content]), ProjectKey(c), {ProjectsKey}, FALSE)
useDeleteProject(c, v) == Mutation(Ask(projectsApi.remove, v), <<>>, {ProjectsKey}, TRUE)
useCreateEnvironment(c, v) ==
  Mutation(Ask(environmentsApi.create, v), <<>>, {EnvironmentsKey(c)}, TRUE)
useDeleteOrganization(c, v) ==
  Mutation(Ask(organizationsApi.remove, v), <<>>, {OrganizationsKey}, TRUE)
useCreateUser(c, v) == Mutation(Ask(usersApi.create, None), <<>>, {UsersKey}, TRUE)
useDeleteUser(c, v) == Mutation(Ask(usersApi.remove, v), <<>>, {UsersKey}, TRUE)
useAddMember(c, v) == Mutation(Ask(membersApi.add, None), <<>>, {MembersKey}, TRUE)
useGrantProjectRole(c, v) == Mutation(Ask(membersApi.grantProjectRole, None), <<>>, {}, FALSE)
useCreateRole(c, v) == Mutation(Ask(rolesApi.create, v), <<>>, {RolesKey}, TRUE)
useCreateSdkKey(c, v) == Mutation(Ask(sdkKeysApi.create, None), <<>>, {SdkKeysKey(c)}, TRUE)
useRevokeSdkKey(c, v) == Mutation(Ask(sdkKeysApi.revoke, v), <<>>, {SdkKeysKey(c)}, TRUE)

useCreateWebhook(c, v) == Mutation(Ask(webhooksApi.create, None), <<>>, {WebhooksKey}, FALSE)
useSetWebhookEnabled(c, v) == Mutation(Ask(webhooksApi.setEnabled, v), <<>>, {WebhooksKey}, FALSE)
useResetWebhookSecret(c, v) ==
  Mutation(Ask(webhooksApi.reset, v), <<>>, {WebhooksKey}, FALSE)
useTestWebhook(c, v) == Mutation(Ask(webhooksApi.test, v), <<>>, {}, FALSE)
useDeleteWebhook(c, v) == Mutation(Ask(webhooksApi.remove, v), <<>>, {WebhooksKey}, FALSE)

MutationOf(hook, c, v) ==
  CASE hook = "useToggleEnvFlag" -> useToggleEnvFlag(c, v)
    [] hook = "useCreateFlag" -> useCreateFlag(c, v)
    [] hook = "useToggleFlag" -> useToggleFlag(c, v)
    [] hook = "usePatchFlagConfig" -> usePatchFlagConfig(c, v)
    [] hook = "useDeleteFlag" -> useDeleteFlag(c, v)
    [] hook = "useCreateScheduledChange" -> useCreateScheduledChange(c, v)
    [] hook = "useCancelScheduledChange" -> useCancelScheduledChange(c, v)
    [] hook = "useCreateTrigger" -> useCreateTrigger(c, v)
    [] hook = "useSetTriggerEnabled" -> useSetTriggerEnabled(c, v)
    [] hook = "useResetTrigger" -> useResetTrigger(c, v)
    [] hook = "useDeleteTrigger" -> useDeleteTrigger(c, v)
    [] hook = "useCreateChange" -> useCreateChange(c, v)
    [] hook = "useReviewChange" -> useReviewChange(c, v)
    [] hook = "useCreateSegment" -> useCreateSegment(c, v)
    [] hook = "useSaveSegment" -> useSaveSegment(c, v)
    [] hook = "useDeleteSegment" -> useDeleteSegment(c, v)
    [] hook = "useCreateProject" -> useCreateProject(c, v)
    [] hook = "useUpdateProject" -> useUpdateProject(c, v)
    [] hook = "useDeleteProject" -> useDeleteProject(c, v)
    [] hook = "useCreateEnvironment" -> useCreateEnvironment(c, v)
    [] hook = "useDeleteOrganization" -> useDeleteOrganization(c, v)
    [] hook = "useCreateUser" -> useCreateUser(c, v)
    [] hook = "useDeleteUser" -> useDeleteUser(c, v)
    [] hook = "useAddMember" -> useAddMember(c, v)
    [] hook = "useGrantProjectRole" -> useGrantProjectRole(c, v)
    [] hook = "useCreateRole" -> useCreateRole(c, v)
    [] hook = "useCreateSdkKey" -> useCreateSdkKey(c, v)
    [] hook = "useRevokeSdkKey" -> useRevokeSdkKey(c, v)
    [] hook = "useCreateWebhook" -> useCreateWebhook(c, v)
    [] hook = "useSetWebhookEnabled" -> useSetWebhookEnabled(c, v)
    [] hook = "useResetWebhookSecret" -> useResetWebhookSecret(c, v)
    [] hook = "useTestWebhook" -> useTestWebhook(c, v)
    [] hook = "useDeleteWebhook" -> useDeleteWebhook(c, v)
=============================================================================
