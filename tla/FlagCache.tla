----------------------------- MODULE FlagCache -----------------------------
(***************************************************************************)
(* The replicated flag cache of internal/flags/service.go over the Redis   *)
(* bus of internal/pubsub/redis.go.  Postgres is the source of truth; each *)
(* replica keeps one snapshot per environment in memory.  A write request  *)
(* commits to Postgres, then propagate() reloads every affected            *)
(* environment on its own replica and publishes one event for it; the      *)
(* other replicas reload when their event loop receives the event.         *)
(*                                                                         *)
(* Everything that reads Postgres between two lock acquisitions is a step  *)
(* of its own: reloadEnv and warm run a query for the flags, a query for   *)
(* the segments, and only then take the lock and install the result, so    *)
(* two reloads of one environment may overlap.                             *)
(*                                                                         *)
(* Data is abstracted to versions: db[e] counts the committed changes of   *)
(* the flag rows and of the segment rows that environment e evaluates      *)
(* against, 0 meaning no rows.  A cache without an entry for e evaluates   *)
(* like one with an empty entry, so both are version 0.                    *)
(***************************************************************************)
EXTENDS Naturals, Sequences, FiniteSets

CONSTANTS
  Replicas,    \* server processes behind the load balancer
  Envs,        \* environment ids, of one project
  Requests,    \* handler goroutines that write; each serves one request at a time
  WriteTo,     \* the replicas the load balancer sends writes to
  UpAtStart,   \* the replicas that are warmed and subscribed initially
  EnvsAtStart, \* the environments that exist initially
  Ops,         \* the kinds of write that occur
  MaxWrites,   \* bound: writes
  MaxFaults,   \* bound: failed queries, lost answers, failed publishes and lost events
  MaxBoots,    \* bound: process starts
  MaxCrashes   \* bound: process stops

AllOps == {"config", "flag", "delete", "segment", "createenv", "deleteproject"}

ASSUME FlagCacheAssumption ==
  /\ Replicas # {} /\ Envs # {}
  /\ Requests \cap Replicas = {}
  /\ WriteTo \subseteq Replicas
  /\ UpAtStart \subseteq Replicas
  /\ EnvsAtStart \subseteq Envs
  /\ Ops \subseteq AllOps
  /\ MaxWrites \in Nat /\ MaxFaults \in Nat
  /\ MaxBoots \in Nat /\ MaxCrashes \in Nat

\* A task runs reloadEnv: the handler goroutine of a request, or the event loop
\* of a replica (the replica itself names its loop).
Tasks == Requests \cup Replicas

VARIABLES
  envs,    \* Postgres: the environments that exist
  db,      \* Postgres: the versions each environment evaluates against
  phase,   \* per replica: how far Service.Start has come
  warm,    \* per replica: what warm() has read so far
  cache,   \* per replica: Service.cache
  inbox,   \* per replica: events delivered to its subscription, not yet handled
  pc,      \* per task: the next step it takes
  at,      \* per task: the replica it runs on
  env,     \* per task: the environment it is reloading
  got,     \* per task: what reloadEnv has read so far
  todo,    \* per task: environments propagate() has still to publish
  ensure,  \* per task: environments EnsureFlagConfigs has still to insert into
  cause,   \* history: why a replica may miss the latest version of an environment
  writes, faults, boots, crashes \* counters for the bounds

vars == <<envs, db, phase, warm, cache, inbox, pc, at, env, got, todo, ensure,
          cause, writes, faults, boots, crashes>>
counters == <<writes, faults, boots, crashes>>
taskvars == <<pc, at, env, got, todo, ensure>>

Snapshot == [flags : Nat, segs : Nat]
Empty == [flags |-> 0, segs |-> 0]
Event == [env : Envs, origin : Replicas]

Phases == {"down", "flags", "segs", "install", "gap", "sub"}
Steps == {"idle", "list", "ensure", "delete", "propagate", "next", "flags", "segs", "install", "publish"}
Causes == {"lost",      \* a publish failed, or the bus dropped the event
           "failed",    \* a query of the write path or of a reload failed
           "unanswered",\* Postgres committed the write but the writer got an error
           "overlap",   \* an older snapshot was installed over a newer one
           "boot",      \* the event was published while the replica was starting
           "crash",     \* the writing replica stopped before it had published
           "unlisted",  \* the write changed an environment it had not listed
           "unannounced"\* the write is of a kind that never propagates
          }

StoreType ==
  /\ envs \in SUBSET Envs
  /\ db \in [Envs -> Snapshot]

ReplicaType ==
  /\ phase \in [Replicas -> Phases]
  /\ warm \in [Replicas -> [Envs -> Snapshot]]
  /\ cache \in [Replicas -> [Envs -> Snapshot]]
  /\ inbox \in [Replicas -> Seq(Event)]

TaskType ==
  /\ pc \in [Tasks -> Steps]
  /\ at \in [Tasks -> Replicas]
  /\ env \in [Tasks -> Envs]
  /\ got \in [Tasks -> Snapshot]
  /\ todo \in [Tasks -> SUBSET Envs]
  /\ ensure \in [Tasks -> SUBSET Envs]

CauseType == cause \in [Replicas -> [Envs -> SUBSET Causes]]

CounterType == writes \in Nat /\ faults \in Nat /\ boots \in Nat /\ crashes \in Nat

\* Every variable of the cache, of the bus and of the goroutines has its type.
TypeOK == StoreType /\ ReplicaType /\ TaskType /\ CauseType /\ CounterType

Init ==
  /\ envs = EnvsAtStart
  /\ db = [e \in Envs |-> Empty]
  /\ phase = [r \in Replicas |-> IF r \in UpAtStart THEN "sub" ELSE "down"]
  /\ warm = [r \in Replicas |-> [e \in Envs |-> Empty]]
  /\ cache = [r \in Replicas |-> [e \in Envs |-> Empty]]
  /\ inbox = [r \in Replicas |-> <<>>]
  /\ pc = [t \in Tasks |-> "idle"]
  /\ at = [t \in Tasks |-> IF t \in Replicas THEN t ELSE CHOOSE r \in Replicas : TRUE]
  /\ env = [t \in Tasks |-> CHOOSE e \in Envs : TRUE]
  /\ got = [t \in Tasks |-> Empty]
  /\ todo = [t \in Tasks |-> {}]
  /\ ensure = [t \in Tasks |-> {}]
  /\ cause = [r \in Replicas |-> [e \in Envs |-> {}]]
  /\ writes = 0 /\ faults = 0 /\ boots = 0 /\ crashes = 0
-----------------------------------------------------------------------------
\* Task t will still install a snapshot of e that is current when it does so:
\* it has read nothing yet, or what it has read has not changed since.
Fresh(t, e) ==
  /\ env[t] = e
  /\ \/ pc[t] = "flags"
     \/ pc[t] = "segs" /\ got[t].flags = db[e].flags
     \/ pc[t] = "install" /\ got[t] = db[e]

\* The warm-up of replica r will still install a current snapshot of e.
FreshWarm(r, e) ==
  \/ phase[r] = "flags"
  \/ phase[r] = "segs" /\ warm[r][e].flags = db[e].flags
  \/ phase[r] = "install" /\ warm[r][e] = db[e]

\* Request w has committed a change of e that replica r has not been told of.
OwedBy(w, r, e) ==
  \/ pc[w] \in {"list", "propagate"} /\ e \in envs \ ensure[w]
  \/ pc[w] \in {"ensure", "next"} /\ e \in todo[w] \ ensure[w]
  \/ pc[w] \in {"flags", "segs", "install", "publish"} /\ e \in todo[w] /\ (env[w] # e \/ at[w] # r)

\* History only: cause with reason c recorded for the given <<replica, env>> pairs.
Blame(c, pairs) ==
  [r \in Replicas |-> [e \in Envs |->
     IF <<r, e>> \in pairs THEN cause[r][e] \cup {c} ELSE cause[r][e]]]

\* Snapshot s is older than snapshot c in one of its two parts.
Older(s, c) == s.flags < c.flags \/ s.segs < c.segs

\* History only: the recorded reasons after snapshot s is installed for e on r.
CauseAfter(r, e, s) ==
  IF s = db[e] THEN {}
  ELSE IF Older(s, cache[r][e]) THEN cause[r][e] \cup {"overlap"}
  ELSE cause[r][e]

-----------------------------------------------------------------------------
(***************************************************************************)
(* The write operations, up to the commit.  Any replica that runs serves   *)
(* requests: the HTTP server starts beside Service.Start, not after it.    *)
(***************************************************************************)
Serves(r, op) ==
  /\ op \in Ops
  /\ r \in WriteTo
  /\ phase[r] # "down"
  /\ writes < MaxWrites
  /\ writes' = writes + 1
  /\ UNCHANGED <<boots, crashes>>

Accepts(r, op) == Serves(r, op) /\ UNCHANGED faults

\* Request w starts on replica r with the given next step and work lists.
Begin(w, r, step, envList, rows) ==
  /\ pc[w] = "idle"
  /\ pc' = [pc EXCEPT ![w] = step]
  /\ at' = [at EXCEPT ![w] = r]
  /\ todo' = [todo EXCEPT ![w] = envList]
  /\ ensure' = [ensure EXCEPT ![w] = rows]
  /\ UNCHANGED <<env, got>>

BumpFlags(S) ==
  [e \in Envs |-> IF e \in S THEN [flags |-> db[e].flags + 1, segs |-> db[e].segs] ELSE db[e]]
BumpSegs(S) ==
  [e \in Envs |-> IF e \in S THEN [flags |-> db[e].flags, segs |-> db[e].segs + 1] ELSE db[e]]

\* SaveFlagConfig: UpsertFlagConfig commits one environment's config.
SaveFlagConfig(w, r, e) ==
  /\ Accepts(r, "config")
  /\ e \in envs
  /\ db' = BumpFlags({e})
  /\ Begin(w, r, "next", {e}, {})
  /\ UNCHANGED <<envs, phase, warm, cache, inbox, cause>>

\* SaveFlag commits the definition, which changes the flag in the environments S
\* that have its config row: all of them for a flag that exists, none for a new
\* one, some when an earlier SaveFlag failed half-way.  EnsureFlagConfigs then
\* inserts the missing rows.
SaveFlag(w, r, S) ==
  /\ Accepts(r, "flag")
  /\ S \subseteq envs
  /\ db' = BumpFlags(S)
  /\ Begin(w, r, "list", {}, Envs \ S)
  /\ UNCHANGED <<envs, phase, warm, cache, inbox, cause>>

\* DeleteFlag lists the environments first and deletes afterwards.
DeleteFlag(w, r) ==
  /\ Accepts(r, "delete")
  /\ Begin(w, r, "delete", envs, {})
  /\ UNCHANGED <<envs, db, phase, warm, cache, inbox, cause>>

DeleteFlagRow(w) ==
  /\ pc[w] = "delete"
  /\ db' = BumpFlags(envs)
  /\ cause' = Blame("unlisted", Replicas \X (envs \ todo[w]))
  /\ pc' = [pc EXCEPT ![w] = "next"]
  /\ UNCHANGED <<envs, phase, warm, cache, inbox, at, env, got, todo, ensure>> /\ UNCHANGED counters

\* SaveSegment and DeleteSegment: a segment is visible in every environment.
SaveSegment(w, r) ==
  /\ Accepts(r, "segment")
  /\ db' = BumpSegs(envs)
  /\ Begin(w, r, "propagate", {}, {})
  /\ UNCHANGED <<envs, phase, warm, cache, inbox, cause>>

\* CreateEnvironment inserts the environment and its backfilled rows in one
\* transaction, and reloads and publishes nothing.  Ids are never reused.
CreateEnvironment(r, e) ==
  /\ Accepts(r, "createenv")
  /\ e \notin envs /\ db[e] = Empty
  /\ envs' = envs \cup {e}
  /\ db' = [db EXCEPT ![e] = [flags |-> 1, segs |-> 1]]
  /\ cause' = Blame("unannounced", Replicas \X {e})
  /\ UNCHANGED <<phase, warm, cache, inbox>> /\ UNCHANGED taskvars

\* DeleteProject removes the environments by cascade, and publishes nothing.
DeleteProject(r) ==
  /\ Accepts(r, "deleteproject")
  /\ envs # {}
  /\ envs' = {}
  /\ db' = [e \in Envs |-> IF e \in envs THEN [flags |-> db[e].flags + 1, segs |-> db[e].segs + 1]
                                       ELSE db[e]]
  /\ cause' = Blame("unannounced", Replicas \X envs)
  /\ UNCHANGED <<phase, warm, cache, inbox>> /\ UNCHANGED taskvars
-----------------------------------------------------------------------------
(***************************************************************************)
(* After the commit: list the environments, insert missing config rows,    *)
(* then propagate(): for each environment reloadEnv, then Publish.         *)
(***************************************************************************)
Fault == faults < MaxFaults /\ faults' = faults + 1 /\ UNCHANGED <<writes, boots, crashes>>

\* The request ends (it returned to its caller, or its replica stopped).
Ended(S) ==
  /\ pc' = [t \in Tasks |-> IF t \in S THEN "idle" ELSE pc[t]]
  /\ todo' = [t \in Tasks |-> IF t \in S THEN {} ELSE todo[t]]
  /\ ensure' = [t \in Tasks |-> IF t \in S THEN {} ELSE ensure[t]]
  /\ got' = [t \in Tasks |-> IF t \in S THEN Empty ELSE got[t]]
  /\ UNCHANGED <<at, env>>

(***************************************************************************)
(* Postgres may commit a statement whose answer never arrives: the         *)
(* connection breaks, or the client has gone and its context is cancelled. *)
(* The handler gets an error and returns before it propagates.             *)
(***************************************************************************)
Unanswered(r, op, after, S) ==
  /\ Serves(r, op)
  /\ faults < MaxFaults /\ faults' = faults + 1
  /\ db' = after
  /\ cause' = Blame("unanswered", Replicas \X S)
  /\ UNCHANGED <<envs, phase, warm, cache, inbox>> /\ UNCHANGED taskvars

SaveFlagConfigUnanswered(r, e) == e \in envs /\ Unanswered(r, "config", BumpFlags({e}), {e})
SaveFlagUnanswered(r, S) == S \subseteq envs /\ Unanswered(r, "flag", BumpFlags(S), S)
SaveSegmentUnanswered(r) == Unanswered(r, "segment", BumpSegs(envs), envs)

\* The DELETE fails: the flag was gone (no fault), the statement did not run, or
\* it ran and its answer is lost.
DeleteFails(w) ==
  /\ pc[w] = "delete"
  /\ Ended({w})
  /\ \/ UNCHANGED counters /\ UNCHANGED <<db, cause>>
     \/ Fault /\ db' = BumpFlags(envs) /\ cause' = Blame("unanswered", Replicas \X envs)
  /\ UNCHANGED <<envs, phase, warm, cache, inbox>>

\* ListEnvironmentsByProject, by SaveFlag ("list") or by propagateProject.
ListEnvironments(w) ==
  /\ pc[w] \in {"list", "propagate"}
  /\ todo' = [todo EXCEPT ![w] = envs]
  /\ ensure' = [ensure EXCEPT ![w] = @ \cap envs]
  /\ pc' = [pc EXCEPT ![w] = IF @ = "list" THEN "ensure" ELSE "next"]
  /\ UNCHANGED <<envs, db, phase, warm, cache, inbox, at, env, got, cause>> /\ UNCHANGED counters

\* ListEnvironmentsByProject fails: the handler returns after the commit, propagating nothing.
ListFails(w) ==
  /\ pc[w] \in {"list", "propagate"}
  /\ Fault
  /\ Ended({w})
  /\ cause' = Blame("failed", Replicas \X (envs \ ensure[w]))
  /\ UNCHANGED <<envs, db, phase, warm, cache, inbox>>

\* One INSERT of EnsureFlagConfigs.  When another request, or the backfill of
\* CreateEnvironment, has inserted the row meanwhile it does nothing: counting it
\* as a change all the same only asks more of the caches.
EnsureFlagConfig(w, e) ==
  /\ pc[w] = "ensure"
  /\ e \in ensure[w] \cap envs
  /\ db' = BumpFlags({e})
  /\ ensure' = [ensure EXCEPT ![w] = @ \ {e}]
  /\ UNCHANGED <<envs, phase, warm, cache, inbox, pc, at, env, got, todo, cause>> /\ UNCHANGED counters

EnsureDone(w) ==
  /\ pc[w] = "ensure"
  /\ ensure[w] = {}
  /\ pc' = [pc EXCEPT ![w] = "next"]
  /\ UNCHANGED <<envs, db, phase, warm, cache, inbox, at, env, got, todo, ensure, cause>> /\ UNCHANGED counters

\* An INSERT fails, be the row missing or not (always, once the environment is
\* gone): SaveFlag returns without propagating the definition it has committed
\* and the rows it has inserted.
EnsureFails(w) ==
  /\ pc[w] = "ensure"
  /\ \/ Fault
     \/ ~(todo[w] \subseteq envs) /\ UNCHANGED counters
  /\ Ended({w})
  /\ cause' = Blame("failed", Replicas \X (todo[w] \ ensure[w]))
  /\ UNCHANGED <<envs, db, phase, warm, cache, inbox>>

\* An INSERT commits and its answer is lost.
EnsureUnanswered(w, e) ==
  /\ pc[w] = "ensure"
  /\ e \in ensure[w] \cap envs
  /\ Fault
  /\ Ended({w})
  /\ db' = BumpFlags({e})
  /\ cause' = Blame("unanswered", Replicas \X ((todo[w] \ ensure[w]) \cup {e}))
  /\ UNCHANGED <<envs, phase, warm, cache, inbox>>

NextEnv(w, e) ==
  /\ pc[w] = "next"
  /\ e \in todo[w]
  /\ env' = [env EXCEPT ![w] = e]
  /\ pc' = [pc EXCEPT ![w] = "flags"]
  /\ UNCHANGED <<envs, db, phase, warm, cache, inbox, at, got, todo, ensure, cause>> /\ UNCHANGED counters

Return(w) ==
  /\ pc[w] = "next"
  /\ todo[w] = {}
  /\ Ended({w})
  /\ UNCHANGED <<envs, db, phase, warm, cache, inbox, cause>> /\ UNCHANGED counters

\* reloadEnv: the two queries, then the install under the lock.
ReadFlags(t) ==
  /\ pc[t] = "flags"
  /\ got' = [got EXCEPT ![t].flags = db[env[t]].flags]
  /\ pc' = [pc EXCEPT ![t] = "segs"]
  /\ UNCHANGED <<envs, db, phase, warm, cache, inbox, at, env, todo, ensure, cause>> /\ UNCHANGED counters

ReadSegs(t) ==
  /\ pc[t] = "segs"
  /\ got' = [got EXCEPT ![t].segs = db[env[t]].segs]
  /\ pc' = [pc EXCEPT ![t] = "install"]
  /\ UNCHANGED <<envs, db, phase, warm, cache, inbox, at, env, todo, ensure, cause>> /\ UNCHANGED counters

\* What follows reloadEnv: a request publishes, an event loop waits for the next event.
AfterReload(t) == IF t \in Requests THEN "publish" ELSE "idle"

Install(t) ==
  /\ pc[t] = "install"
  /\ cache' = [cache EXCEPT ![at[t]][env[t]] = got[t]]
  /\ cause' = [cause EXCEPT ![at[t]][env[t]] = CauseAfter(at[t], env[t], got[t])]
  /\ got' = [got EXCEPT ![t] = Empty]
  /\ pc' = [pc EXCEPT ![t] = AfterReload(t)]
  /\ UNCHANGED <<envs, db, phase, warm, inbox, at, env, todo, ensure>> /\ UNCHANGED counters

\* A query of reloadEnv fails: logged, the cache keeps its snapshot, the caller carries on.
ReloadFails(t) ==
  /\ pc[t] \in {"flags", "segs"}
  /\ Fault
  /\ cause' = Blame("failed", {<<at[t], env[t]>>})
  /\ got' = [got EXCEPT ![t] = Empty]
  /\ pc' = [pc EXCEPT ![t] = AfterReload(t)]
  /\ UNCHANGED <<envs, db, phase, warm, cache, inbox, at, env, todo, ensure>>

\* Publish: Redis hands the event to every subscription that exists now.
Publish(w) ==
  /\ pc[w] = "publish"
  /\ inbox' = [r \in Replicas |->
                 IF phase[r] = "sub" THEN Append(inbox[r], [env |-> env[w], origin |-> at[w]])
                                     ELSE inbox[r]]
  /\ cause' = Blame("boot", {r \in Replicas \ {at[w]} : phase[r] \in {"segs", "install", "gap"}} \X {env[w]})
  /\ todo' = [todo EXCEPT ![w] = @ \ {env[w]}]
  /\ pc' = [pc EXCEPT ![w] = "next"]
  /\ UNCHANGED <<envs, db, phase, warm, cache, at, env, got, ensure>> /\ UNCHANGED counters

\* Publish fails: logged, and the next environment is propagated.
PublishFails(w) ==
  /\ pc[w] = "publish"
  /\ Fault
  /\ cause' = Blame("lost", (Replicas \ {at[w]}) \X {env[w]})
  /\ todo' = [todo EXCEPT ![w] = @ \ {env[w]}]
  /\ pc' = [pc EXCEPT ![w] = "next"]
  /\ UNCHANGED <<envs, db, phase, warm, cache, inbox, at, env, got, ensure>>
-----------------------------------------------------------------------------
(***************************************************************************)
(* The event loop of a subscribed replica: one event at a time, in order.  *)
(***************************************************************************)
\* Wrong variant: the origin check is inverted.
OnEventInverted(r) ==
  /\ phase[r] = "sub" /\ pc[r] = "idle"
  /\ inbox[r] # <<>>
  /\ inbox' = [inbox EXCEPT ![r] = Tail(@)]
  /\ IF Head(inbox[r]).origin # r
     THEN UNCHANGED <<pc, env>>
     ELSE /\ pc' = [pc EXCEPT ![r] = "flags"]
          /\ env' = [env EXCEPT ![r] = Head(inbox[r]).env]
  /\ UNCHANGED <<envs, db, phase, warm, cache, at, got, todo, ensure, cause>> /\ UNCHANGED counters

\* Wrong variant: the loop waits for its own event to go away.
OnEventBlocks(r) ==
  /\ phase[r] = "sub" /\ pc[r] = "idle"
  /\ inbox[r] # <<>>
  /\ Head(inbox[r]).origin # r
  /\ inbox' = [inbox EXCEPT ![r] = Tail(@)]
  /\ pc' = [pc EXCEPT ![r] = "flags"]
  /\ env' = [env EXCEPT ![r] = Head(inbox[r]).env]
  /\ UNCHANGED <<envs, db, phase, warm, cache, at, got, todo, ensure, cause>> /\ UNCHANGED counters

\* onEvent: skip an event this replica published itself, reload for any other.
OnEvent(r) ==
  /\ phase[r] = "sub" /\ pc[r] = "idle"
  /\ inbox[r] # <<>>
  /\ inbox' = [inbox EXCEPT ![r] = Tail(@)]
  /\ IF Head(inbox[r]).origin = r
     THEN UNCHANGED <<pc, env>>
     ELSE /\ pc' = [pc EXCEPT ![r] = "flags"]
          /\ env' = [env EXCEPT ![r] = Head(inbox[r]).env]
  /\ UNCHANGED <<envs, db, phase, warm, cache, at, got, todo, ensure, cause>> /\ UNCHANGED counters

\* Redis pub/sub is at most once: an event of the subscription is lost.
LoseEvent(r) ==
  /\ inbox[r] # <<>>
  /\ Fault
  /\ inbox' = [inbox EXCEPT ![r] = Tail(@)]
  /\ cause' = Blame("lost", {<<r, Head(inbox[r]).env>>})
  /\ UNCHANGED <<envs, db, phase, warm, cache>> /\ UNCHANGED taskvars
-----------------------------------------------------------------------------
(***************************************************************************)
(* Start: warm the whole cache, then subscribe.  A failed query of warm    *)
(* stops the process, as a crash does.                                     *)
(***************************************************************************)
Boot(r) ==
  /\ phase[r] = "down"
  /\ boots < MaxBoots
  /\ phase' = [phase EXCEPT ![r] = "flags"]
  /\ cause' = [cause EXCEPT ![r] = [e \in Envs |-> {}]]
  /\ boots' = boots + 1
  /\ UNCHANGED <<envs, db, warm, cache, inbox, writes, faults, crashes>> /\ UNCHANGED taskvars

WarmFlags(r) ==
  /\ phase[r] = "flags"
  /\ warm' = [warm EXCEPT ![r] = [e \in Envs |-> [flags |-> db[e].flags, segs |-> 0]]]
  /\ phase' = [phase EXCEPT ![r] = "segs"]
  /\ UNCHANGED <<envs, db, cache, inbox, cause>> /\ UNCHANGED taskvars /\ UNCHANGED counters

WarmSegs(r) ==
  /\ phase[r] = "segs"
  /\ warm' = [warm EXCEPT ![r] = [e \in Envs |-> [flags |-> warm[r][e].flags, segs |-> db[e].segs]]]
  /\ phase' = [phase EXCEPT ![r] = "install"]
  /\ UNCHANGED <<envs, db, cache, inbox, cause>> /\ UNCHANGED taskvars /\ UNCHANGED counters

WarmInstall(r) ==
  /\ phase[r] = "install"
  /\ cache' = [cache EXCEPT ![r] = warm[r]]
  /\ cause' = [cause EXCEPT ![r] = [e \in Envs |-> CauseAfter(r, e, warm[r][e])]]
  /\ warm' = [warm EXCEPT ![r] = [e \in Envs |-> Empty]]
  /\ phase' = [phase EXCEPT ![r] = "gap"]
  /\ UNCHANGED <<envs, db, inbox>> /\ UNCHANGED taskvars /\ UNCHANGED counters

Subscribe(r) ==
  /\ phase[r] = "gap"
  /\ phase' = [phase EXCEPT ![r] = "sub"]
  /\ UNCHANGED <<envs, db, warm, cache, inbox, cause>> /\ UNCHANGED taskvars /\ UNCHANGED counters

\* The process stops; requests it was serving are cut off where they are.
Crash(r) ==
  /\ phase[r] # "down"
  /\ crashes < MaxCrashes
  /\ phase' = [phase EXCEPT ![r] = "down"]
  /\ warm' = [warm EXCEPT ![r] = [e \in Envs |-> Empty]]
  /\ cache' = [cache EXCEPT ![r] = [e \in Envs |-> Empty]]
  /\ inbox' = [inbox EXCEPT ![r] = <<>>]
  /\ Ended({t \in Tasks : at[t] = r})
  /\ cause' = Blame("crash", {p \in (Replicas \ {r}) \X Envs :
                                \E w \in Requests : at[w] = r /\ OwedBy(w, p[1], p[2])})
  /\ crashes' = crashes + 1
  /\ UNCHANGED <<envs, db, writes, faults, boots>>
-----------------------------------------------------------------------------
Write ==
  \E r \in Replicas :
    \/ \E w \in Requests :
         \/ \E e \in Envs : SaveFlagConfig(w, r, e)
         \/ \E S \in SUBSET envs : SaveFlag(w, r, S)
         \/ DeleteFlag(w, r) \/ SaveSegment(w, r)
    \/ \E e \in Envs : CreateEnvironment(r, e)
    \/ DeleteProject(r)

WriteUnanswered ==
  \E r \in Replicas :
    \/ \E e \in Envs : SaveFlagConfigUnanswered(r, e)
    \/ \E S \in SUBSET envs : SaveFlagUnanswered(r, S)
    \/ SaveSegmentUnanswered(r)

\* The steps a goroutine takes by itself once a request or an event started it.
RequestStep(w) ==
  \/ DeleteFlagRow(w) \/ ListEnvironments(w) \/ EnsureDone(w)
  \/ \E e \in Envs : EnsureFlagConfig(w, e) \/ NextEnv(w, e)
  \/ (EnsureFails(w) /\ UNCHANGED counters)
  \/ Return(w) \/ Publish(w)
ReloadStep(t) == ReadFlags(t) \/ ReadSegs(t) \/ Install(t)
StartStep(r) == WarmFlags(r) \/ WarmSegs(r) \/ WarmInstall(r) \/ Subscribe(r)

Faulty ==
  \/ WriteUnanswered
  \/ \E w \in Requests : DeleteFails(w) \/ ListFails(w) \/ EnsureFails(w) \/ PublishFails(w)
  \/ \E w \in Requests, e \in Envs : EnsureUnanswered(w, e)
  \/ \E t \in Tasks : ReloadFails(t)
  \/ \E r \in Replicas : LoseEvent(r)

Next ==
  \/ Write
  \/ \E w \in Requests : RequestStep(w)
  \/ \E t \in Tasks : ReloadStep(t)
  \/ \E r \in Replicas : OnEvent(r) \/ StartStep(r) \/ Boot(r) \/ Crash(r)
  \/ Faulty

Spec == Init /\ [][Next]_vars

\* A goroutine that has started runs on; clients need not write, processes need
\* not be started, and nothing has to fail.
Fairness ==
  /\ \A w \in Requests : WF_vars(RequestStep(w))
  /\ \A t \in Tasks : WF_vars(ReloadStep(t))
  /\ \A r \in Replicas : WF_vars(OnEvent(r)) /\ WF_vars(StartStep(r))

FairSpec == Spec /\ Fairness
-----------------------------------------------------------------------------
\* An event for e from another replica waits for the event loop of r.
HasEvent(r, e) ==
  \E i \in DOMAIN inbox[r] : inbox[r][i].env = e /\ inbox[r][i].origin # r

\* Something under way will still bring the current version of e to replica r.
Owed(r, e) ==
  \/ FreshWarm(r, e)
  \/ HasEvent(r, e)
  \/ \E t \in Tasks : at[t] = r /\ Fresh(t, e)
  \/ \E w \in Requests : OwedBy(w, r, e)

AtMost(s, d) == s.flags <= d.flags /\ s.segs <= d.segs

\* No cache, and no reload or warm-up under way, holds a version that Postgres
\* has not committed: what two queries of one reload have read may be of
\* different ages, but neither is from the future.
NeverAhead ==
  /\ \A r \in Replicas, e \in Envs :
       /\ AtMost(cache[r][e], db[e])
       /\ phase[r] \in {"segs", "install"} => warm[r][e].flags <= db[e].flags
       /\ phase[r] = "install" => warm[r][e].segs <= db[e].segs
  /\ \A t \in Tasks :
       /\ pc[t] \in {"segs", "install"} => got[t].flags <= db[env[t]].flags
       /\ pc[t] = "install" => got[t].segs <= db[env[t]].segs

\* The event loop of a replica runs on that replica and only reloads.
LoopsReload ==
  \A r \in Replicas : at[r] = r /\ pc[r] \in {"idle", "flags", "segs", "install"}

\* EnsureFlagConfigs inserts rows only into environments propagate() will announce.
EnsureListed ==
  \A w \in Requests :
    /\ pc[w] = "ensure" => ensure[w] \subseteq todo[w]
    /\ pc[w] \notin {"list", "ensure"} => ensure[w] = {}

\* Completeness of the failure analysis: a running replica whose cache misses
\* the latest committed version of an environment will still be told of it, or
\* one of the recorded causes happened and no current snapshot was installed
\* since.  There is no other way in which propagate(), onEvent() and warm() let
\* a cache go stale, whatever the interleaving.
StaleHasCause ==
  \A r \in Replicas, e \in Envs :
    phase[r] # "down" /\ cache[r][e] # db[e] => cause[r][e] # {} \/ Owed(r, e)

Quiescent ==
  /\ \A t \in Tasks : pc[t] = "idle"
  /\ \A r \in Replicas : inbox[r] = <<>> /\ phase[r] \in {"down", "sub"}

\* Once everything has finished, a subscribed replica without a recorded cause
\* serves what Postgres holds.
ConvergedUnlessCaused ==
  Quiescent => \A r \in Replicas, e \in Envs :
                 phase[r] = "sub" /\ cause[r][e] = {} => cache[r][e] = db[e]

\* Writes stop eventually in the bounded model, and from then on every
\* subscribed replica is current or has a recorded cause: the goroutines of
\* propagate(), the event loop and Start finish and do not wait on each other.
Settles ==
  <>[](\A r \in Replicas, e \in Envs :
         phase[r] = "sub" => cache[r][e] = db[e] \/ cause[r][e] # {})
=============================================================================
