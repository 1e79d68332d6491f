-------------------------- MODULE FlagCacheProofs --------------------------
(***************************************************************************)
(* Proofs about FlagCache, for every number of replicas, environments,     *)
(* requests, faults, starts and crashes.                                   *)
(***************************************************************************)
EXTENDS FlagCache, TLAPS

-----------------------------------------------------------------------------
(* Typing, one lemma per group of variables.                               *)

\* Recording a cause keeps the causes well typed.
LEMMA BlameType ==
  ASSUME CauseType, NEW c \in Causes, NEW S
  PROVE  Blame(c, S) \in [Replicas -> [Envs -> SUBSET Causes]]
BY DEF CauseType, Blame

\* So does dropping the causes an up-to-date install makes obsolete.
LEMMA CauseAfterType ==
  ASSUME CauseType, NEW r \in Replicas, NEW e \in Envs, NEW s
  PROVE  CauseAfter(r, e, s) \in SUBSET Causes
BY DEF CauseType, CauseAfter, Causes

\* The initial state is well typed.
LEMMA InitType == Init => TypeOK
BY FlagCacheAssumption
DEF Init, TypeOK, StoreType, ReplicaType, TaskType, CauseType, CounterType,
    Snapshot, Empty, Event, Phases, Steps, Tasks

\* Every step keeps the types of Postgres' rows and the environment lists.
LEMMA StoreTypeStep == TypeOK /\ [Next]_vars => StoreType'
<1> SUFFICES ASSUME TypeOK, [Next]_vars PROVE StoreType'
  OBVIOUS
<1> USE DEF TypeOK, StoreType, Snapshot
<1>1. ASSUME NEW w \in Requests, NEW r \in Replicas, NEW e \in Envs, SaveFlagConfig(w, r, e)
      PROVE StoreType'
  BY <1>1 DEF SaveFlagConfig, BumpFlags
<1>2. ASSUME NEW w \in Requests, NEW r \in Replicas, NEW S, SaveFlag(w, r, S) PROVE StoreType'
  BY <1>2 DEF SaveFlag, BumpFlags
<1>3. ASSUME NEW w \in Requests, NEW r \in Replicas, SaveSegment(w, r) PROVE StoreType'
  BY <1>3 DEF SaveSegment, BumpSegs
<1>4. ASSUME NEW r \in Replicas, NEW e \in Envs, CreateEnvironment(r, e) PROVE StoreType'
  BY <1>4 DEF CreateEnvironment
<1>5. ASSUME NEW r \in Replicas, DeleteProject(r) PROVE StoreType'
  BY <1>5 DEF DeleteProject
<1>6. ASSUME NEW w \in Requests, DeleteFlagRow(w) PROVE StoreType'
  BY <1>6 DEF DeleteFlagRow, BumpFlags
<1>7. ASSUME NEW w \in Requests, NEW e \in Envs, EnsureFlagConfig(w, e) \/ EnsureUnanswered(w, e)
      PROVE StoreType'
  BY <1>7 DEF EnsureFlagConfig, EnsureUnanswered, BumpFlags
<1>8. CASE UNCHANGED <<envs, db>>
  BY <1>8
<1>9. ASSUME NEW w \in Requests, DeleteFails(w) PROVE StoreType'
  BY <1>9 DEF DeleteFails, BumpFlags
<1>10. ASSUME WriteUnanswered PROVE StoreType'
  <2>1. ASSUME NEW S, db' = BumpFlags(S) \/ db' = BumpSegs(S), envs' = envs PROVE StoreType'
    BY <2>1 DEF BumpFlags, BumpSegs
  <2> HIDE DEF TypeOK, StoreType, Snapshot
  <2>. QED
    BY <1>10, <2>1
    DEF WriteUnanswered, SaveFlagConfigUnanswered, SaveFlagUnanswered, SaveSegmentUnanswered, Unanswered
<1>. QED
  BY <1>1, <1>2, <1>3, <1>4, <1>5, <1>6, <1>7, <1>8, <1>9, <1>10
  DEF Next, vars, Write, RequestStep, ReloadStep, StartStep, Faulty,
      EnsureDone, DeleteFlag, ListEnvironments, ListFails, EnsureFails, NextEnv, Return,
      ReadFlags, ReadSegs, Install, ReloadFails, Publish, PublishFails, OnEvent,
      LoseEvent, Boot, WarmFlags, WarmSegs, WarmInstall, Subscribe, Crash

\* Every step keeps the types of the caches, the subscriptions and the bus.
LEMMA ReplicaTypeStep == TypeOK /\ [Next]_vars => ReplicaType'
<1> SUFFICES ASSUME TypeOK, [Next]_vars PROVE ReplicaType'
  OBVIOUS
<1> USE DEF TypeOK, ReplicaType
<1>1. ASSUME NEW t \in Tasks, Install(t) PROVE ReplicaType'
  BY <1>1 DEF Install, TaskType
<1>2. ASSUME NEW w \in Requests, Publish(w) PROVE ReplicaType'
  <2>1. [env |-> env[w], origin |-> at[w]] \in Event
    BY DEF TaskType, Event, Tasks
  <2>2. inbox' \in [Replicas -> Seq(Event)]
    BY <1>2, <2>1 DEF Publish
  <2>. QED
    BY <1>2, <2>2 DEF Publish
<1>3. ASSUME NEW r \in Replicas, OnEvent(r) PROVE ReplicaType'
  BY <1>3 DEF OnEvent
<1>4. ASSUME NEW r \in Replicas, LoseEvent(r) PROVE ReplicaType'
  BY <1>4 DEF LoseEvent
<1>5. ASSUME NEW r \in Replicas, Boot(r) PROVE ReplicaType'
  BY <1>5 DEF Boot, Phases
<1>6. ASSUME NEW r \in Replicas, WarmFlags(r) PROVE ReplicaType'
  BY <1>6 DEF WarmFlags, Phases, Snapshot, StoreType
<1>7. ASSUME NEW r \in Replicas, WarmSegs(r) PROVE ReplicaType'
  BY <1>7 DEF WarmSegs, Phases, Snapshot, StoreType
<1>8. ASSUME NEW r \in Replicas, WarmInstall(r) PROVE ReplicaType'
  BY <1>8 DEF WarmInstall, Phases, Snapshot, Empty
<1>9. ASSUME NEW r \in Replicas, Subscribe(r) PROVE ReplicaType'
  BY <1>9 DEF Subscribe, Phases
<1>10. ASSUME NEW r \in Replicas, Crash(r) PROVE ReplicaType'
  BY <1>10 DEF Crash, Phases, Snapshot, Empty
<1>11. CASE UNCHANGED <<phase, warm, cache, inbox>>
  BY <1>11
<1>12. ASSUME Write \/ WriteUnanswered PROVE UNCHANGED <<phase, warm, cache, inbox>>
  BY <1>12
  DEF Write, WriteUnanswered, SaveFlagConfigUnanswered, SaveFlagUnanswered, SaveSegmentUnanswered,
      Unanswered, SaveFlagConfig, SaveFlag, DeleteFlag, SaveSegment, CreateEnvironment, DeleteProject
<1>. QED
  BY <1>1, <1>2, <1>3, <1>4, <1>5, <1>6, <1>7, <1>8, <1>9, <1>10, <1>11, <1>12
  DEF Next, vars, RequestStep, ReloadStep, StartStep, Faulty,
      DeleteFlagRow, DeleteFails, ListEnvironments, ListFails, EnsureFlagConfig, EnsureDone,
      EnsureFails, EnsureUnanswered, NextEnv, Return, ReadFlags, ReadSegs, ReloadFails, PublishFails

\* Every step keeps the types of the requests and the event loops.
LEMMA TaskTypeStep == TypeOK /\ [Next]_vars => TaskType'
<1> SUFFICES ASSUME TypeOK, [Next]_vars PROVE TaskType'
  OBVIOUS
<1> USE DEF TypeOK, TaskType, Tasks
<1>1. ASSUME NEW w \in Requests, NEW r \in Replicas,
             NEW step \in Steps, NEW R \in SUBSET Envs, Begin(w, r, step, {}, R)
      PROVE TaskType'
  BY <1>1 DEF Begin
<1>2. ASSUME NEW w \in Requests, NEW r \in Replicas, NEW e \in Envs, SaveFlagConfig(w, r, e)
      PROVE TaskType'
  BY <1>2 DEF SaveFlagConfig, Begin, Steps
<1>3. ASSUME NEW w \in Requests, NEW r \in Replicas, DeleteFlag(w, r) PROVE TaskType'
  BY <1>3 DEF DeleteFlag, Begin, Steps, StoreType
<1>4. ASSUME NEW S, Ended(S) PROVE TaskType'
  BY <1>4 DEF Ended, Steps, Snapshot, Empty
<1>5. ASSUME NEW w \in Requests, DeleteFlagRow(w) PROVE TaskType'
  BY <1>5 DEF DeleteFlagRow, Steps
<1>6. ASSUME NEW w \in Requests, ListEnvironments(w) PROVE TaskType'
  BY <1>6 DEF ListEnvironments, Steps, StoreType
<1>7. ASSUME NEW w \in Requests, NEW e \in Envs, EnsureFlagConfig(w, e) PROVE TaskType'
  BY <1>7 DEF EnsureFlagConfig, Steps
<1>8. ASSUME NEW w \in Requests, NEW e \in Envs, NextEnv(w, e) PROVE TaskType'
  BY <1>8 DEF NextEnv, Steps
<1>9. ASSUME NEW t \in Tasks, ReadFlags(t) PROVE TaskType'
  BY <1>9 DEF ReadFlags, Steps, Snapshot, StoreType
<1>10. ASSUME NEW t \in Tasks, ReadSegs(t) PROVE TaskType'
  BY <1>10 DEF ReadSegs, Steps, Snapshot, StoreType
<1>11. ASSUME NEW t \in Tasks, Install(t) \/ ReloadFails(t) PROVE TaskType'
  BY <1>11 DEF Install, ReloadFails, AfterReload, Steps, Snapshot, Empty
<1>12. ASSUME NEW w \in Requests, Publish(w) \/ PublishFails(w) PROVE TaskType'
  BY <1>12 DEF Publish, PublishFails, Steps
<1>13. ASSUME NEW r \in Replicas, OnEvent(r) PROVE TaskType'
  <2>1. inbox[r] \in Seq(Event) /\ inbox[r] # <<>>
    BY <1>13 DEF OnEvent, ReplicaType
  <2>2. Head(inbox[r]) \in Event
    BY <2>1
  <2>3. Head(inbox[r]).env \in Envs
    BY <2>2 DEF Event
  <2>. QED
    BY <1>13, <2>3 DEF OnEvent, Steps
<1>14. CASE UNCHANGED <<pc, at, env, got, todo, ensure>>
  BY <1>14
<1>15. ASSUME Write PROVE TaskType'
  <2>1. ASSUME NEW w \in Requests, NEW r \in Replicas, NEW S \in SUBSET envs, SaveFlag(w, r, S)
        PROVE TaskType'
    <3>1. "list" \in Steps /\ Envs \ S \in SUBSET Envs
      BY DEF Steps
    <3> HIDE DEF TypeOK, TaskType, Tasks
    <3>. QED
      BY <1>1, <2>1, <3>1 DEF SaveFlag
  <2>2. ASSUME NEW w \in Requests, NEW r \in Replicas, SaveSegment(w, r) PROVE TaskType'
    <3>1. "propagate" \in Steps /\ {} \in SUBSET Envs
      BY DEF Steps
    <3> HIDE DEF TypeOK, TaskType, Tasks
    <3>. QED
      BY <1>1, <2>2, <3>1 DEF SaveSegment
  <2> HIDE DEF TypeOK, TaskType, Tasks
  <2>. QED
    BY <1>15, <2>1, <2>2, <1>2, <1>3, <1>14 DEF Write, CreateEnvironment, DeleteProject, taskvars
<1>16. ASSUME Faulty PROVE TaskType'
  <2>1. ASSUME WriteUnanswered PROVE TaskType'
    <3>1. UNCHANGED taskvars
      BY <2>1
      DEF WriteUnanswered, SaveFlagConfigUnanswered, SaveFlagUnanswered, SaveSegmentUnanswered, Unanswered
    <3>. QED
      BY <3>1, <1>14 DEF taskvars
  <2>. QED
    BY <1>16, <2>1, <1>4, <1>11, <1>12, <1>14
    DEF Faulty, DeleteFails, ListFails, EnsureFails, EnsureUnanswered, LoseEvent, taskvars
<1>17. ASSUME NEW w \in Requests, RequestStep(w) PROVE TaskType'
  <2>1. ASSUME EnsureDone(w) PROVE TaskType'
    BY <2>1 DEF EnsureDone, Steps
  <2>. QED
    BY <1>17, <2>1, <1>4, <1>5, <1>6, <1>7, <1>8, <1>12 DEF RequestStep, EnsureFails, Return
<1>18. ASSUME NEW r \in Replicas, StartStep(r) \/ Boot(r) \/ Crash(r) PROVE TaskType'
  BY <1>18, <1>4, <1>14
  DEF StartStep, Boot, Crash, WarmFlags, WarmSegs, WarmInstall, Subscribe, taskvars
<1>. QED
  BY <1>9, <1>10, <1>11, <1>13, <1>14, <1>15, <1>16, <1>17, <1>18 DEF Next, vars, ReloadStep

\* Every step keeps the types of the recorded causes.
LEMMA CauseTypeStep == TypeOK /\ [Next]_vars => CauseType'
<1> SUFFICES ASSUME TypeOK, [Next]_vars PROVE CauseType'
  OBVIOUS
<1> USE DEF TypeOK
<1>1. ASSUME NEW c \in Causes, NEW S, cause' = Blame(c, S) PROVE CauseType'
  BY <1>1, BlameType DEF CauseType
<1>2. ASSUME NEW t \in Tasks, Install(t) PROVE CauseType'
  <2>1. at[t] \in Replicas /\ env[t] \in Envs
    BY DEF TaskType
  <2>. QED
    BY <1>2, <2>1, CauseAfterType DEF Install, CauseType
<1>3. ASSUME NEW r \in Replicas, Boot(r) PROVE CauseType'
  BY <1>3 DEF Boot, CauseType
<1>4. ASSUME NEW r \in Replicas, WarmInstall(r) PROVE CauseType'
  BY <1>4, CauseAfterType DEF WarmInstall, CauseType
<1>5. CASE UNCHANGED cause
  BY <1>5 DEF CauseType
<1>6. ASSUME Write PROVE CauseType'
  BY <1>1, <1>5, <1>6
  DEF Write, SaveFlagConfig, SaveFlag, DeleteFlag, SaveSegment,
      CreateEnvironment, DeleteProject, Causes
<1>7. ASSUME Faulty PROVE CauseType'
  <2>1. ASSUME WriteUnanswered PROVE CauseType'
    BY <1>1, <2>1
    DEF WriteUnanswered, SaveFlagConfigUnanswered, SaveFlagUnanswered, SaveSegmentUnanswered,
        Unanswered, Causes
  <2>. QED
    BY <1>1, <1>5, <1>7, <2>1
    DEF Faulty, DeleteFails, ListFails, EnsureFails, EnsureUnanswered, PublishFails, ReloadFails,
        LoseEvent, Causes
<1>8. ASSUME NEW w \in Requests, RequestStep(w) PROVE CauseType'
  BY <1>1, <1>5, <1>8
  DEF RequestStep, DeleteFlagRow, ListEnvironments, EnsureFlagConfig, EnsureDone, NextEnv, EnsureFails,
      Return, Publish, Causes
<1>9. ASSUME NEW r \in Replicas, Crash(r) PROVE CauseType'
  BY <1>1, <1>9 DEF Crash, Causes
<1>. QED
  BY <1>2, <1>3, <1>4, <1>5, <1>6, <1>7, <1>8, <1>9
  DEF Next, vars, ReloadStep, StartStep, ReadFlags, ReadSegs, OnEvent, WarmFlags, WarmSegs, Subscribe

\* Every step keeps the types of the bounded counters.
LEMMA CounterTypeStep == TypeOK /\ [Next]_vars => CounterType'
<1> SUFFICES ASSUME TypeOK, [Next]_vars PROVE CounterType'
  OBVIOUS
<1> USE DEF TypeOK, CounterType
<1>1. ASSUME NEW r, NEW op, Accepts(r, op) PROVE CounterType'
  BY <1>1 DEF Accepts, Serves
<1>2. ASSUME Fault PROVE CounterType'
  BY <1>2 DEF Fault
<1>3. CASE UNCHANGED counters
  BY <1>3 DEF counters
<1>4. ASSUME NEW r \in Replicas, Boot(r) \/ Crash(r) PROVE CounterType'
  BY <1>4 DEF Boot, Crash
<1>5. ASSUME Write PROVE CounterType'
  BY <1>1, <1>5
  DEF Write, SaveFlagConfig, SaveFlag, DeleteFlag, SaveSegment,
      CreateEnvironment, DeleteProject
<1>6. ASSUME Faulty PROVE CounterType'
  <2>1. ASSUME WriteUnanswered PROVE CounterType'
    <3>1. ASSUME NEW r, NEW op, NEW after, NEW S, Unanswered(r, op, after, S) PROVE CounterType'
      BY <3>1 DEF Unanswered, Serves
    <3> HIDE DEF TypeOK, CounterType
    <3>. QED
      BY <2>1, <3>1
      DEF WriteUnanswered, SaveFlagConfigUnanswered, SaveFlagUnanswered, SaveSegmentUnanswered
  <2>. QED
    BY <1>2, <1>3, <1>6, <2>1
    DEF Faulty, DeleteFails, ListFails, EnsureFails, EnsureUnanswered, PublishFails, ReloadFails,
        LoseEvent
<1>7. ASSUME NEW w \in Requests, RequestStep(w) PROVE CounterType'
  BY <1>3, <1>7
  DEF RequestStep, DeleteFlagRow, ListEnvironments, EnsureFlagConfig, EnsureDone, NextEnv, Return, Publish
<1>8. ASSUME UNCHANGED vars PROVE CounterType'
  BY <1>8 DEF vars
<1>. QED
  BY <1>3, <1>4, <1>5, <1>6, <1>7, <1>8
  DEF Next, ReloadStep, StartStep, ReadFlags, ReadSegs, Install, OnEvent,
      WarmFlags, WarmSegs, WarmInstall, Subscribe

\* The types of the replicated flag cache hold in every reachable state.
THEOREM Typing == Spec => []TypeOK
<1>1. TypeOK /\ [Next]_vars => TypeOK'
  BY StoreTypeStep, ReplicaTypeStep, TaskTypeStep, CauseTypeStep, CounterTypeStep DEF TypeOK
<1>. QED
  BY InitType, <1>1, PTL DEF Spec
-----------------------------------------------------------------------------
(* The inductive invariant behind StaleHasCause.                           *)

\* An event loop only ever runs reloads: it never publishes.
LEMMA LoopsStep == TypeOK /\ LoopsReload /\ [Next]_vars => LoopsReload'
<1> SUFFICES ASSUME TypeOK, LoopsReload, [Next]_vars, NEW q \in Replicas
             PROVE  at'[q] = q /\ pc'[q] \in {"idle", "flags", "segs", "install"}
  BY DEF LoopsReload
<1> USE FlagCacheAssumption DEF TypeOK, TaskType, LoopsReload, Tasks
<1>1. ASSUME NEW w \in Requests, NEW r, NEW step, NEW L, NEW R, Begin(w, r, step, L, R)
      PROVE at'[q] = q /\ pc'[q] = pc[q]
  BY <1>1 DEF Begin
<1>2. ASSUME NEW S, Ended(S) PROVE at'[q] = q /\ pc'[q] \in {"idle", pc[q]}
  BY <1>2 DEF Ended
<1>3. ASSUME Write PROVE at'[q] = q /\ pc'[q] = pc[q]
  BY <1>1, <1>3
  DEF Write, SaveFlagConfig, SaveFlag, DeleteFlag, SaveSegment,
      CreateEnvironment, DeleteProject, taskvars
<1>4. ASSUME NEW w \in Requests, RequestStep(w) PROVE at'[q] = q /\ pc'[q] \in {"idle", pc[q]}
  BY <1>2, <1>4
  DEF RequestStep, DeleteFlagRow, ListEnvironments, EnsureFlagConfig, EnsureDone, NextEnv, EnsureFails,
      Return, Publish
<1>5. ASSUME NEW t \in Tasks, ReloadStep(t) \/ ReloadFails(t)
      PROVE at'[q] = q /\ pc'[q] \in {"idle", "segs", "install", pc[q]}
  BY <1>5 DEF ReloadStep, ReadFlags, ReadSegs, Install, ReloadFails, AfterReload
<1>6. ASSUME Faulty PROVE at'[q] = q /\ pc'[q] \in {"idle", "segs", "install", pc[q]}
  <2>1. ASSUME WriteUnanswered PROVE at'[q] = q /\ pc'[q] = pc[q]
    BY <2>1
    DEF WriteUnanswered, SaveFlagConfigUnanswered, SaveFlagUnanswered, SaveSegmentUnanswered,
        Unanswered, taskvars
  <2>. QED
    BY <1>2, <1>5, <1>6, <2>1
    DEF Faulty, DeleteFails, ListFails, EnsureFails, EnsureUnanswered, PublishFails, LoseEvent, taskvars
<1>7. ASSUME NEW r \in Replicas, OnEvent(r) PROVE at'[q] = q /\ pc'[q] \in {"flags", pc[q]}
  BY <1>7 DEF OnEvent
<1>8. ASSUME NEW r \in Replicas, StartStep(r) \/ Boot(r) \/ Crash(r)
      PROVE at'[q] = q /\ pc'[q] \in {"idle", pc[q]}
  BY <1>2, <1>8
  DEF StartStep, Boot, Crash, WarmFlags, WarmSegs, WarmInstall, Subscribe, taskvars
<1>. QED
  BY <1>3, <1>4, <1>5, <1>6, <1>7, <1>8 DEF Next, vars

\* Postgres only moves forward.
LEMMA DbGrows ==
  TypeOK /\ [Next]_vars => \A e \in Envs : AtMost(db[e], db'[e])
<1> SUFFICES ASSUME TypeOK, [Next]_vars, NEW e \in Envs PROVE AtMost(db[e], db'[e])
  OBVIOUS
<1> USE DEF TypeOK, StoreType, Snapshot, AtMost
<1>1. ASSUME NEW S, db' = BumpFlags(S) \/ db' = BumpSegs(S) PROVE AtMost(db[e], db'[e])
  BY <1>1 DEF BumpFlags, BumpSegs
<1>2. ASSUME NEW r \in Replicas, NEW f \in Envs, CreateEnvironment(r, f) PROVE AtMost(db[e], db'[e])
  BY <1>2 DEF CreateEnvironment, Empty
<1>3. ASSUME NEW r \in Replicas, DeleteProject(r) PROVE AtMost(db[e], db'[e])
  BY <1>3 DEF DeleteProject
<1>4. CASE UNCHANGED db
  BY <1>4
<1>5. ASSUME WriteUnanswered PROVE AtMost(db[e], db'[e])
  BY <1>1, <1>5
  DEF WriteUnanswered, SaveFlagConfigUnanswered, SaveFlagUnanswered, SaveSegmentUnanswered, Unanswered
<1>. QED
  BY <1>1, <1>2, <1>3, <1>4, <1>5
  DEF Next, vars, Write, RequestStep, ReloadStep, StartStep, Faulty, SaveFlagConfig, SaveFlag,
      SaveSegment, DeleteFlagRow, DeleteFails, EnsureFlagConfig, EnsureUnanswered,
      EnsureDone, DeleteFlag, ListEnvironments, ListFails, EnsureFails, NextEnv, Return,
      ReadFlags, ReadSegs, Install, ReloadFails, Publish, PublishFails, OnEvent,
      LoseEvent, Boot, WarmFlags, WarmSegs, WarmInstall, Subscribe, Crash

\* No step puts a snapshot into a cache or a warm-up that Postgres has not committed.
LEMMA ReplicaNeverAhead ==
  ASSUME TypeOK, TypeOK', NeverAhead, [Next]_vars, NEW r \in Replicas, NEW e \in Envs
  PROVE  /\ AtMost(cache'[r][e], db'[e])
         /\ phase'[r] \in {"segs", "install"} => warm'[r][e].flags <= db'[e].flags
         /\ phase'[r] = "install" => warm'[r][e].segs <= db'[e].segs
<1> DEFINE Goal == /\ AtMost(cache'[r][e], db'[e])
                   /\ phase'[r] \in {"segs", "install"} => warm'[r][e].flags <= db'[e].flags
                   /\ phase'[r] = "install" => warm'[r][e].segs <= db'[e].segs
<1>a. /\ AtMost(cache[r][e], db[e])
      /\ phase[r] \in {"segs", "install"} => warm[r][e].flags <= db[e].flags
      /\ phase[r] = "install" => warm[r][e].segs <= db[e].segs
  BY DEF NeverAhead
<1>b. AtMost(db[e], db'[e])
  BY DbGrows
<1>c. /\ db[e] \in Snapshot /\ db'[e] \in Snapshot /\ cache[r][e] \in Snapshot
      /\ warm[r][e] \in Snapshot
  BY DEF TypeOK, StoreType, ReplicaType
<1> USE DEF Snapshot, AtMost
<1>1. ASSUME UNCHANGED <<cache, warm, phase>> PROVE Goal
  BY <1>1, <1>a, <1>b, <1>c
<1>2. ASSUME NEW t \in Tasks, Install(t) PROVE Goal
  <2>1. /\ got[t] \in Snapshot /\ at[t] \in Replicas /\ env[t] \in Envs
        /\ got[t].flags <= db[env[t]].flags /\ got[t].segs <= db[env[t]].segs
    BY <1>2 DEF Install, NeverAhead, TypeOK, TaskType
  <2>2. cache'[r][e] \in {cache[r][e], got[t]} /\ (cache'[r][e] # cache[r][e] => e = env[t])
    BY <1>2, <2>1 DEF Install, TypeOK, ReplicaType
  <2>3. AtMost(cache'[r][e], db'[e])
    BY <1>a, <1>b, <1>c, <2>1, <2>2
  <2>. QED
    BY <1>2, <1>a, <1>b, <1>c, <2>3 DEF Install
<1>3. ASSUME NEW q \in Replicas, Boot(q) PROVE Goal
  BY <1>3, <1>a, <1>b, <1>c DEF Boot, TypeOK, ReplicaType
<1>4. ASSUME NEW q \in Replicas, WarmFlags(q) PROVE Goal
  BY <1>4, <1>a, <1>b, <1>c DEF WarmFlags, TypeOK, ReplicaType
<1>5. ASSUME NEW q \in Replicas, WarmSegs(q) PROVE Goal
  BY <1>5, <1>a, <1>b, <1>c DEF WarmSegs, TypeOK, ReplicaType
<1>6. ASSUME NEW q \in Replicas, WarmInstall(q) PROVE Goal
  BY <1>6, <1>a, <1>b, <1>c DEF WarmInstall, TypeOK, ReplicaType
<1>7. ASSUME NEW q \in Replicas, Subscribe(q) PROVE Goal
  BY <1>7, <1>a, <1>b, <1>c DEF Subscribe, TypeOK, ReplicaType
<1>8. ASSUME NEW q \in Replicas, Crash(q) PROVE Goal
  BY <1>8, <1>a, <1>b, <1>c DEF Crash, TypeOK, ReplicaType, Empty
<1> HIDE DEF Goal
<1>9. ASSUME Write PROVE UNCHANGED <<cache, warm, phase>>
  BY <1>9
  DEF Write, SaveFlagConfig, SaveFlag, DeleteFlag, SaveSegment,
      CreateEnvironment, DeleteProject
<1>10. ASSUME NEW w \in Requests, RequestStep(w) PROVE UNCHANGED <<cache, warm, phase>>
  BY <1>10
  DEF RequestStep, DeleteFlagRow, ListEnvironments, EnsureFlagConfig, EnsureDone, NextEnv, EnsureFails,
      Return, Publish
<1>11. ASSUME Faulty PROVE UNCHANGED <<cache, warm, phase>>
  BY <1>11
  DEF Faulty, WriteUnanswered, SaveFlagConfigUnanswered, SaveFlagUnanswered, SaveSegmentUnanswered,
      Unanswered, DeleteFails, ListFails, EnsureFails, EnsureUnanswered, PublishFails, ReloadFails,
      LoseEvent
<1>12. ASSUME NEW t \in Tasks, ReadFlags(t) \/ ReadSegs(t) PROVE UNCHANGED <<cache, warm, phase>>
  BY <1>12 DEF ReadFlags, ReadSegs
<1>13. ASSUME NEW q \in Replicas, OnEvent(q) PROVE UNCHANGED <<cache, warm, phase>>
  BY <1>13 DEF OnEvent
<1>14. ASSUME UNCHANGED vars PROVE UNCHANGED <<cache, warm, phase>>
  BY <1>14 DEF vars
<1>15. Goal
  BY <1>1, <1>2, <1>3, <1>4, <1>5, <1>6, <1>7, <1>8, <1>9, <1>10, <1>11, <1>12, <1>13, <1>14
  DEF Next, ReloadStep, StartStep
<1>. QED
  BY <1>15 DEF Goal

\* No step lets a reload hold a snapshot that Postgres has not committed.
LEMMA TaskNeverAhead ==
  ASSUME TypeOK, TypeOK', NeverAhead, LoopsReload, [Next]_vars, NEW t \in Tasks
  PROVE  /\ pc'[t] \in {"segs", "install"} => got'[t].flags <= db'[env'[t]].flags
         /\ pc'[t] = "install" => got'[t].segs <= db'[env'[t]].segs
<1> DEFINE Goal == /\ pc'[t] \in {"segs", "install"} => got'[t].flags <= db'[env'[t]].flags
                   /\ pc'[t] = "install" => got'[t].segs <= db'[env'[t]].segs
           Same == pc'[t] = pc[t] /\ got'[t] = got[t] /\ env'[t] = env[t]
           Away == pc'[t] \notin {"segs", "install"}
<1>a. /\ pc[t] \in {"segs", "install"} => got[t].flags <= db[env[t]].flags
      /\ pc[t] = "install" => got[t].segs <= db[env[t]].segs
  BY DEF NeverAhead
<1>b. AtMost(db[env[t]], db'[env[t]])
  BY DbGrows DEF TypeOK, TaskType
<1>c. /\ db[env[t]] \in Snapshot /\ db'[env[t]] \in Snapshot /\ got[t] \in Snapshot
  BY DEF TypeOK, StoreType, TaskType
<1>1. ASSUME Same PROVE Goal
  BY <1>1, <1>a, <1>b, <1>c DEF AtMost, Snapshot
<1>2. ASSUME Away PROVE Goal
  BY <1>2
<1> USE DEF TypeOK, TaskType
<1>3. ASSUME NEW w \in Requests, NEW r, NEW step \in {"next", "list", "delete", "propagate"},
             NEW L, NEW R, Begin(w, r, step, L, R)
      PROVE Same \/ Away
  BY <1>3 DEF Begin, Tasks
<1>4. ASSUME NEW S, Ended(S) PROVE Same \/ Away
  BY <1>4 DEF Ended
<1>5. ASSUME Write PROVE Same \/ Away
  <2> HIDE DEF Same, Away
  <2>1. CASE UNCHANGED taskvars
    BY <2>1 DEF taskvars, Same
  <2>. QED
    BY <1>3, <1>5, <2>1
    DEF Write, SaveFlagConfig, SaveFlag, DeleteFlag, SaveSegment,
        CreateEnvironment, DeleteProject
<1>6. ASSUME NEW w \in Requests, RequestStep(w) PROVE Same \/ Away
  BY <1>4, <1>6
  DEF RequestStep, DeleteFlagRow, ListEnvironments, EnsureFlagConfig, EnsureDone, NextEnv, EnsureFails,
      Return, Publish, Tasks
<1>7. ASSUME NEW u \in Tasks, ReadFlags(u) PROVE Goal
  <2>1. CASE u = t
    BY <1>7, <2>1, <1>c DEF ReadFlags, Snapshot
  <2>2. CASE u # t
    BY <1>7, <2>2, <1>1 DEF ReadFlags
  <2>. QED BY <2>1, <2>2
<1>8. ASSUME NEW u \in Tasks, ReadSegs(u) PROVE Goal
  <2>1. CASE u = t
    BY <1>8, <2>1, <1>a, <1>c DEF ReadSegs, Snapshot
  <2>2. CASE u # t
    BY <1>8, <2>2, <1>1 DEF ReadSegs
  <2>. QED BY <2>1, <2>2
<1>9. ASSUME NEW u \in Tasks, Install(u) \/ ReloadFails(u) PROVE Same \/ Away
  BY <1>9 DEF Install, ReloadFails, AfterReload
<1>10. ASSUME Faulty PROVE Same \/ Away
  <2>1. ASSUME WriteUnanswered PROVE Same
    BY <2>1
    DEF WriteUnanswered, SaveFlagConfigUnanswered, SaveFlagUnanswered, SaveSegmentUnanswered,
        Unanswered, taskvars
  <2>. QED
    BY <1>4, <1>9, <1>10, <2>1
    DEF Faulty, DeleteFails, ListFails, EnsureFails, EnsureUnanswered, PublishFails, LoseEvent,
        taskvars, Tasks
<1>11. ASSUME NEW r \in Replicas, OnEvent(r) PROVE Same \/ Away
  BY <1>11 DEF OnEvent, Tasks
<1>12. ASSUME NEW r \in Replicas, StartStep(r) \/ Boot(r) \/ Crash(r) PROVE Same \/ Away
  BY <1>4, <1>12
  DEF StartStep, Boot, Crash, WarmFlags, WarmSegs, WarmInstall, Subscribe, taskvars
<1>13. ASSUME UNCHANGED vars PROVE Same
  BY <1>13 DEF vars
<1> HIDE DEF Goal, Same, Away
<1>14. Goal
  BY <1>1, <1>2, <1>5, <1>6, <1>7, <1>8, <1>9, <1>10, <1>11, <1>12, <1>13 DEF Next, ReloadStep
<1>. QED
  BY <1>14 DEF Goal

-----------------------------------------------------------------------------
(* StaleHasCause for one replica and one environment, action by action.    *)

Told(r, e) == phase[r] # "down" /\ cache[r][e] # db[e] => cause[r][e] # {} \/ Owed(r, e)

IInv == TypeOK /\ NeverAhead /\ LoopsReload /\ EnsureListed /\ StaleHasCause

\* Recording a cause keeps the ones that are there.
LEMMA BlameGrows ==
  ASSUME NEW c, NEW S, cause' = Blame(c, S), NEW r \in Replicas, NEW e \in Envs
  PROVE  /\ cause[r][e] # {} => cause'[r][e] # {}
         /\ <<r, e>> \in S => cause'[r][e] # {}
BY DEF Blame

\* Owed is preserved when each of its four reasons is.
LEMMA OwedKept ==
  ASSUME NEW r \in Replicas, NEW e \in Envs,
         FreshWarm(r, e) => FreshWarm(r, e)',
         HasEvent(r, e) => HasEvent(r, e)',
         \A t \in Tasks : at[t] = r /\ Fresh(t, e) => at'[t] = r /\ Fresh(t, e)',
         \A u \in Requests : OwedBy(u, r, e) => OwedBy(u, r, e)'
  PROVE  Owed(r, e) => Owed(r, e)'
BY DEF Owed

\* The steps of a request that leave the cache, the bus and Postgres' view of e alone.
LEMMA BeginTold ==
  ASSUME IInv, NEW w \in Requests, NEW r \in Replicas, NEW e \in Envs, NEW q \in Replicas,
         NEW step \in {"list", "delete", "next", "propagate"}, NEW L, NEW R,
         Begin(w, q, step, L, R), UNCHANGED <<envs, phase, warm, cache, inbox, cause>>,
         db'[e] # db[e] => OwedBy(w, r, e)'
  PROVE  Told(r, e)'
<1> USE DEF IInv, TypeOK, TaskType, Tasks
<1>1. Told(r, e)
  BY DEF Told, StaleHasCause
<1>2. CASE db'[e] # db[e]
  BY <1>2 DEF Told, Owed
<1>3. CASE db'[e] = db[e]
  <2>1. FreshWarm(r, e) => FreshWarm(r, e)'
    BY <1>3 DEF FreshWarm
  <2>2. HasEvent(r, e) => HasEvent(r, e)'
    BY DEF HasEvent
  <2>3. \A t \in Tasks : at[t] = r /\ Fresh(t, e) => at'[t] = r /\ Fresh(t, e)'
    BY <1>3 DEF Begin, Fresh
  <2>4. \A u \in Requests : OwedBy(u, r, e) => OwedBy(u, r, e)'
    BY DEF Begin, OwedBy
  <2>. QED
    BY <1>1, <1>3, <2>1, <2>2, <2>3, <2>4, OwedKept DEF Told
<1>. QED
  BY <1>2, <1>3

\* A committed write leaves every running replica told, owed or with a cause.
LEMMA WriteTold ==
  ASSUME IInv, TypeOK', Write, NEW r \in Replicas, NEW e \in Envs
  PROVE  Told(r, e)'
<1> USE DEF IInv, TypeOK, TaskType, StoreType, Tasks
<1>1. ASSUME NEW w \in Requests, NEW q \in Replicas, NEW f \in Envs, SaveFlagConfig(w, q, f)
      PROVE  Told(r, e)'
  <2>1. db'[e] # db[e] => OwedBy(w, r, e)'
    BY <1>1 DEF SaveFlagConfig, Begin, BumpFlags, OwedBy
  <2>. QED
    BY <1>1, <2>1, BeginTold DEF SaveFlagConfig
<1>2. ASSUME NEW w \in Requests, NEW q \in Replicas, NEW S, SaveFlag(w, q, S) PROVE Told(r, e)'
  <2>1. db'[e] # db[e] => OwedBy(w, r, e)'
    BY <1>2 DEF SaveFlag, Begin, BumpFlags, OwedBy
  <2>. QED
    BY <1>2, <2>1, BeginTold DEF SaveFlag
<1>3. ASSUME NEW w \in Requests, NEW q \in Replicas, SaveSegment(w, q) PROVE Told(r, e)'
  <2>1. db'[e] # db[e] => OwedBy(w, r, e)'
    BY <1>3 DEF SaveSegment, Begin, BumpSegs, OwedBy
  <2>. QED
    BY <1>3, <2>1, BeginTold DEF SaveSegment
<1>5. ASSUME NEW w \in Requests, NEW q \in Replicas, DeleteFlag(w, q) PROVE Told(r, e)'
  BY <1>5, BeginTold DEF DeleteFlag
<1>6. ASSUME NEW q \in Replicas, NEW f \in Envs, CreateEnvironment(q, f) PROVE Told(r, e)'
  <2>1. CASE e = f
    <3>1. <<r, e>> \in Replicas \X {f}
      BY <2>1
    <3>2. cause' = Blame("unannounced", Replicas \X {f})
      BY <1>6 DEF CreateEnvironment
    <3>3. cause'[r][e] = cause[r][e] \cup {"unannounced"}
      BY <3>1, <3>2 DEF Blame
    <3>. QED
      BY <3>3 DEF Told
  <2>2. CASE e # f
    <3>1. /\ db'[e] = db[e] /\ UNCHANGED <<phase, warm, cache, inbox>> /\ UNCHANGED taskvars
          /\ e \in envs => e \in envs'
      BY <1>6, <2>2 DEF CreateEnvironment
    <3>2. cause[r][e] # {} => cause'[r][e] # {}
      BY <1>6, BlameGrows DEF CreateEnvironment
    <3>3. Owed(r, e) => Owed(r, e)'
      <4>1. \A u \in Requests : OwedBy(u, r, e) => OwedBy(u, r, e)'
        BY <3>1 DEF OwedBy, taskvars
      <4>2. \A t \in Tasks : at[t] = r /\ Fresh(t, e) => at'[t] = r /\ Fresh(t, e)'
        BY <3>1 DEF Fresh, taskvars
      <4>3. (FreshWarm(r, e) => FreshWarm(r, e)') /\ (HasEvent(r, e) => HasEvent(r, e)')
        BY <3>1 DEF FreshWarm, HasEvent
      <4>. QED
        BY <4>1, <4>2, <4>3, OwedKept
    <3>. QED
      BY <3>1, <3>2, <3>3 DEF Told, StaleHasCause
  <2>. QED
    BY <2>1, <2>2
<1>7. ASSUME NEW q \in Replicas, DeleteProject(q) PROVE Told(r, e)'
  <2>1. CASE e \in envs
    <3>1. <<r, e>> \in Replicas \X envs
      BY <2>1
    <3>2. cause' = Blame("unannounced", Replicas \X envs)
      BY <1>7 DEF DeleteProject
    <3>3. cause'[r][e] = cause[r][e] \cup {"unannounced"}
      BY <3>1, <3>2 DEF Blame
    <3>. QED
      BY <3>3 DEF Told
  <2>2. CASE e \notin envs
    <3>1. db'[e] = db[e] /\ UNCHANGED <<phase, warm, cache, inbox>> /\ UNCHANGED taskvars
      BY <1>7, <2>2 DEF DeleteProject
    <3>2. cause[r][e] # {} => cause'[r][e] # {}
      BY <1>7, BlameGrows DEF DeleteProject
    <3>3. Owed(r, e) => Owed(r, e)'
      BY <2>2, <3>1 DEF Owed, FreshWarm, HasEvent, Fresh, OwedBy, taskvars
    <3>. QED
      BY <3>1, <3>2, <3>3 DEF Told, StaleHasCause
  <2>. QED
    BY <2>1, <2>2
<1>. QED
  BY <1>1, <1>2, <1>3, <1>5, <1>6, <1>7 DEF Write

\* So does a write that commits without its writer learning of it: it is a cause.
LEMMA UnansweredTold ==
  ASSUME IInv, TypeOK', WriteUnanswered, NEW r \in Replicas, NEW e \in Envs
  PROVE  Told(r, e)'
<1> USE DEF IInv, TypeOK, TaskType, StoreType, Tasks
<1>1. ASSUME NEW q, NEW op, NEW after, NEW S, Unanswered(q, op, after, S),
             after[e] # db[e] => e \in S
      PROVE  Told(r, e)'
  <2> DEFINE P == Replicas \X S
  <2>1. cause' = Blame("unanswered", P) /\ (e \in S => <<r, e>> \in P)
    BY <1>1 DEF Unanswered
  <2> HIDE DEF P
  <2>2. /\ cause[r][e] # {} => cause'[r][e] # {}
        /\ e \in S => cause'[r][e] # {}
    BY <2>1, BlameGrows
  <2>3. CASE e \in S
    BY <2>2, <2>3 DEF Told
  <2>4. CASE e \notin S
    <3>1. db'[e] = db[e] /\ UNCHANGED <<envs, phase, warm, cache, inbox>> /\ UNCHANGED taskvars
      BY <1>1, <2>4 DEF Unanswered
    <3>2. Owed(r, e) => Owed(r, e)'
      <4>1. \A u \in Requests : OwedBy(u, r, e) => OwedBy(u, r, e)'
        BY <3>1 DEF OwedBy, taskvars
      <4>2. \A t \in Tasks : at[t] = r /\ Fresh(t, e) => at'[t] = r /\ Fresh(t, e)'
        BY <3>1 DEF Fresh, taskvars
      <4>3. (FreshWarm(r, e) => FreshWarm(r, e)') /\ (HasEvent(r, e) => HasEvent(r, e)')
        BY <3>1 DEF FreshWarm, HasEvent
      <4>. QED
        BY <4>1, <4>2, <4>3, OwedKept
    <3>. QED
      BY <2>2, <3>1, <3>2 DEF Told, StaleHasCause
  <2>. QED
    BY <2>3, <2>4
<1>2. ASSUME NEW S PROVE /\ BumpFlags(S)[e] # db[e] => e \in S
                         /\ BumpSegs(S)[e] # db[e] => e \in S
  BY DEF BumpFlags, BumpSegs
<1>3. BumpSegs(envs)[e] # db[e] => e \in envs
  BY <1>2
<1> HIDE DEF IInv, TypeOK, TaskType, StoreType, Tasks
<1>. QED
  BY <1>1, <1>2, <1>3
  DEF WriteUnanswered, SaveFlagConfigUnanswered, SaveFlagUnanswered, SaveSegmentUnanswered

\* A step of request w that leaves caches, bus and start-up alone, keeps every
\* recorded cause, and either keeps what w owes e or records a cause for it.
LEMMA RequestKeeps ==
  ASSUME IInv, NEW w \in Requests, NEW r \in Replicas, NEW e \in Envs,
         UNCHANGED <<phase, warm, cache, inbox>>, at' = at, envs' = envs, db'[e] = db[e],
         \A t \in Tasks \ {w} : /\ pc'[t] = pc[t] /\ env'[t] = env[t] /\ got'[t] = got[t]
                                /\ todo'[t] = todo[t] /\ ensure'[t] = ensure[t],
         at[w] = r /\ Fresh(w, e) => Fresh(w, e)',
         cause[r][e] # {} => cause'[r][e] # {},
         OwedBy(w, r, e) => Owed(r, e)' \/ cause'[r][e] # {}
  PROVE  Told(r, e)'
<1> USE DEF Tasks
<1>1. Told(r, e)
  BY DEF Told, StaleHasCause, IInv
<1>2. \A u \in Requests \ {w} : OwedBy(u, r, e) => OwedBy(u, r, e)'
  BY DEF OwedBy
<1>3. \A t \in Tasks : at[t] = r /\ Fresh(t, e) => at'[t] = r /\ Fresh(t, e)'
  BY DEF Fresh
<1>4. (FreshWarm(r, e) => FreshWarm(r, e)') /\ (HasEvent(r, e) => HasEvent(r, e)')
  BY DEF FreshWarm, HasEvent
<1>5. Owed(r, e) => Owed(r, e)' \/ cause'[r][e] # {}
  BY <1>2, <1>3, <1>4 DEF Owed
<1>. QED
  BY <1>1, <1>5 DEF Told

\* So do the steps of a request between its commit and its reloads.
LEMMA RequestTold ==
  ASSUME IInv, NEW w \in Requests, NEW r \in Replicas, NEW e \in Envs,
         \/ DeleteFlagRow(w) \/ DeleteFails(w) \/ ListEnvironments(w) \/ ListFails(w)
         \/ EnsureDone(w) \/ EnsureFails(w) \/ Return(w)
         \/ \E f \in Envs : EnsureFlagConfig(w, f) \/ EnsureUnanswered(w, f) \/ NextEnv(w, f)
  PROVE  Told(r, e)'
<1> USE DEF IInv, TypeOK, TaskType, StoreType, Tasks
<1>0. w \in Tasks
  OBVIOUS
<1>1. CASE DeleteFlagRow(w)
  <2>1. CASE e \in envs \ todo[w]
    <3>1. <<r, e>> \in Replicas \X (envs \ todo[w])
      BY <2>1
    <3>2. cause' = Blame("unlisted", Replicas \X (envs \ todo[w]))
      BY <1>1 DEF DeleteFlagRow
    <3>3. cause'[r][e] = cause[r][e] \cup {"unlisted"}
      BY <3>1, <3>2 DEF Blame
    <3>. QED
      BY <3>3 DEF Told
  <2>2. CASE e \in todo[w]
    <3>1. OwedBy(w, r, e)'
      BY <1>1, <2>2 DEF DeleteFlagRow, OwedBy, EnsureListed
    <3>. QED
      BY <3>1 DEF Told, Owed
  <2>3. CASE e \notin envs /\ e \notin todo[w]
    <3>1. db'[e] = db[e] /\ ~OwedBy(w, r, e) /\ ~Fresh(w, e)
      BY <1>1, <2>3 DEF DeleteFlagRow, BumpFlags, OwedBy, Fresh
    <3>2. cause[r][e] # {} => cause'[r][e] # {}
      BY <1>1, BlameGrows DEF DeleteFlagRow
    <3>. QED
      BY <1>1, <3>1, <3>2, RequestKeeps DEF DeleteFlagRow
  <2>. QED
    BY <2>1, <2>2, <2>3
<1>2. CASE ListEnvironments(w)
  <2>1. ~Fresh(w, e) /\ (OwedBy(w, r, e) => OwedBy(w, r, e)')
    BY <1>2 DEF ListEnvironments, OwedBy, Fresh
  <2>2. OwedBy(w, r, e)' => Owed(r, e)'
    BY DEF Owed
  <2>. QED
    BY <1>2, <2>1, <2>2, RequestKeeps DEF ListEnvironments
<1>3. CASE ListFails(w)
  <2> DEFINE S == Replicas \X (envs \ ensure[w])
  <2>1. ~Fresh(w, e) /\ (OwedBy(w, r, e) => <<r, e>> \in S)
    BY <1>3 DEF ListFails, OwedBy, Fresh
  <2>2. cause' = Blame("failed", S)
    BY <1>3 DEF ListFails
  <2> HIDE DEF S
  <2>3. /\ cause[r][e] # {} => cause'[r][e] # {}
        /\ <<r, e>> \in S => cause'[r][e] # {}
    BY <2>2, BlameGrows
  <2>. QED
    BY <1>3, <2>1, <2>3, RequestKeeps DEF ListFails, Ended
<1>4. CASE EnsureFails(w)
  <2> DEFINE S == Replicas \X (todo[w] \ ensure[w])
  <2>1. ~Fresh(w, e) /\ (OwedBy(w, r, e) => <<r, e>> \in S)
    BY <1>4 DEF EnsureFails, OwedBy, Fresh
  <2>2. cause' = Blame("failed", S)
    BY <1>4 DEF EnsureFails
  <2> HIDE DEF S
  <2>3. /\ cause[r][e] # {} => cause'[r][e] # {}
        /\ <<r, e>> \in S => cause'[r][e] # {}
    BY <2>2, BlameGrows
  <2>. QED
    BY <1>4, <2>1, <2>3, RequestKeeps DEF EnsureFails, Ended
<1>5. CASE Return(w)
  <2>1. ~Fresh(w, e) /\ ~OwedBy(w, r, e)
    BY <1>5 DEF Return, OwedBy, Fresh
  <2>. QED
    BY <1>5, <2>1, RequestKeeps DEF Return, Ended
<1>6. ASSUME NEW f \in Envs, EnsureFlagConfig(w, f) PROVE Told(r, e)'
  <2>1. CASE e = f
    <3>1. OwedBy(w, r, e)'
      BY <1>6, <2>1 DEF EnsureFlagConfig, OwedBy, EnsureListed
    <3>. QED
      BY <3>1 DEF Told, Owed
  <2>2. CASE e # f
    <3>1. ~Fresh(w, e) /\ (OwedBy(w, r, e) => OwedBy(w, r, e)') /\ db'[e] = db[e]
      BY <1>6, <2>2 DEF EnsureFlagConfig, OwedBy, Fresh, BumpFlags
    <3>2. OwedBy(w, r, e)' => Owed(r, e)'
      BY DEF Owed
    <3>. QED
      BY <1>6, <3>1, <3>2, RequestKeeps DEF EnsureFlagConfig
  <2>. QED
    BY <2>1, <2>2
<1>7. ASSUME NEW f \in Envs, NextEnv(w, f) PROVE Told(r, e)'
  <2>1. ~Fresh(w, e)
    BY <1>7 DEF NextEnv, Fresh
  <2>2. OwedBy(w, r, e) => OwedBy(w, r, e)' \/ (at'[w] = r /\ Fresh(w, e)')
    BY <1>7 DEF NextEnv, OwedBy, Fresh
  <2>3. OwedBy(w, r, e)' \/ (at'[w] = r /\ Fresh(w, e)') => Owed(r, e)'
    BY DEF Owed
  <2>. QED
    BY <1>7, <2>1, <2>2, <2>3, RequestKeeps DEF NextEnv
<1>8. CASE EnsureDone(w)
  <2>1. ~Fresh(w, e) /\ (OwedBy(w, r, e) => OwedBy(w, r, e)')
    BY <1>8 DEF EnsureDone, OwedBy, Fresh
  <2>2. OwedBy(w, r, e)' => Owed(r, e)'
    BY DEF Owed
  <2>. QED
    BY <1>8, <2>1, <2>2, RequestKeeps DEF EnsureDone
<1>9. ASSUME NEW f \in Envs, EnsureUnanswered(w, f) PROVE Told(r, e)'
  <2> DEFINE S == Replicas \X ((todo[w] \ ensure[w]) \cup {f})
  <2>1. ~Fresh(w, e) /\ (OwedBy(w, r, e) \/ db'[e] # db[e] => <<r, e>> \in S)
    BY <1>9 DEF EnsureUnanswered, OwedBy, Fresh, BumpFlags
  <2>2. cause' = Blame("unanswered", S)
    BY <1>9 DEF EnsureUnanswered
  <2> HIDE DEF S
  <2>3. /\ cause[r][e] # {} => cause'[r][e] # {}
        /\ <<r, e>> \in S => cause'[r][e] # {}
    BY <2>2, BlameGrows
  <2>4. CASE db'[e] # db[e]
    BY <2>1, <2>3, <2>4 DEF Told
  <2>5. CASE db'[e] = db[e]
    BY <1>9, <2>1, <2>3, <2>5, RequestKeeps DEF EnsureUnanswered, Ended
  <2>. QED
    BY <2>4, <2>5
<1>10. CASE DeleteFails(w)
  <2>1. ~Fresh(w, e) /\ ~OwedBy(w, r, e)
    BY <1>10 DEF DeleteFails, OwedBy, Fresh
  <2>2. CASE UNCHANGED <<db, cause>>
    BY <1>10, <2>1, <2>2, RequestKeeps DEF DeleteFails, Ended
  <2>3. CASE db' = BumpFlags(envs) /\ cause' = Blame("unanswered", Replicas \X envs)
    <3> DEFINE S == Replicas \X envs
    <3>1. (db'[e] # db[e] => <<r, e>> \in S) /\ cause' = Blame("unanswered", S)
      BY <2>3 DEF BumpFlags
    <3> HIDE DEF S
    <3>2. /\ cause[r][e] # {} => cause'[r][e] # {}
          /\ <<r, e>> \in S => cause'[r][e] # {}
      BY <3>1, BlameGrows
    <3>3. CASE db'[e] # db[e]
      BY <3>1, <3>2, <3>3 DEF Told
    <3>4. CASE db'[e] = db[e]
      BY <1>10, <2>1, <3>2, <3>4, RequestKeeps DEF DeleteFails, Ended
    <3>. QED
      BY <3>3, <3>4
  <2>. QED
    BY <1>10, <2>2, <2>3 DEF DeleteFails
<1>. QED
  BY <1>1, <1>2, <1>3, <1>4, <1>5, <1>6, <1>7, <1>8, <1>9, <1>10

\* Two snapshots are the same when both parts are.
LEMMA SnapshotEqual ==
  ASSUME NEW s \in Snapshot, NEW d \in Snapshot, s.flags = d.flags, s.segs = d.segs
  PROVE  s = d
BY DEF Snapshot

\* A snapshot that is not ahead of d and differs from d is older than d.
LEMMA OlderThan ==
  ASSUME NEW s \in Snapshot, NEW d \in Snapshot, AtMost(s, d), s # d
  PROVE  Older(s, d)
<1>1. s.flags # d.flags \/ s.segs # d.segs
  BY SnapshotEqual
<1>. QED
  BY <1>1 DEF AtMost, Older, Snapshot

\* Installing snapshot s for e on r leaves r told of e.
LEMMA InstallTold ==
  ASSUME IInv, NEW r \in Replicas, NEW e \in Envs, NEW s \in Snapshot, AtMost(s, db[e]),
         cache'[r][e] = s, cause'[r][e] = CauseAfter(r, e, s), db' = db,
         s # db[e] /\ Owed(r, e) => Owed(r, e)',
         phase'[r] # "down" => phase[r] # "down"
  PROVE  Told(r, e)'
<1>1. CASE s = db[e]
  BY <1>1 DEF Told
<1>2. CASE s # db[e] /\ Older(s, cache[r][e])
  BY <1>2 DEF Told, CauseAfter
<1>3. CASE s # db[e] /\ ~Older(s, cache[r][e])
  <2>1. cache[r][e] # db[e]
    BY <1>3, OlderThan DEF IInv, TypeOK, StoreType
  <2>2. cause'[r][e] = cause[r][e]
    BY <1>3 DEF CauseAfter
  <2>3. phase[r] # "down" => cause[r][e] # {} \/ Owed(r, e)
    BY <2>1 DEF IInv, StaleHasCause
  <2>. QED
    BY <1>3, <2>2, <2>3 DEF Told
<1>. QED
  BY <1>1, <1>2, <1>3

\* So do the two queries of a reload.
LEMMA ReadTold ==
  ASSUME IInv, NEW t \in Tasks, ReadFlags(t) \/ ReadSegs(t), NEW r \in Replicas, NEW e \in Envs
  PROVE  Told(r, e)'
<1> USE DEF IInv, TypeOK, TaskType, StoreType
<1>1. /\ UNCHANGED <<envs, db, phase, warm, cache, inbox, at, env, todo, ensure, cause>>
      /\ \A u \in Tasks \ {t} : pc'[u] = pc[u] /\ got'[u] = got[u]
      /\ pc[t] \in {"flags", "segs"} /\ pc'[t] \in {"segs", "install"}
  BY DEF ReadFlags, ReadSegs
<1>2. (FreshWarm(r, e) => FreshWarm(r, e)') /\ (HasEvent(r, e) => HasEvent(r, e)')
  BY <1>1 DEF FreshWarm, HasEvent
<1>3. Fresh(t, e) => Fresh(t, e)'
  <2>1. CASE ReadFlags(t)
    BY <2>1 DEF ReadFlags, Fresh, Snapshot
  <2>2. CASE ReadSegs(t)
    <3>1. /\ got'[t].flags = got[t].flags /\ got'[t].segs = db[env[t]].segs /\ got'[t] \in Snapshot
          /\ pc'[t] = "install" /\ pc[t] = "segs" /\ db[env[t]] \in Snapshot
      BY <2>2 DEF ReadSegs, Snapshot
    <3>2. Fresh(t, e) => got'[t] = db[e]
      BY <3>1, SnapshotEqual DEF Fresh
    <3>. QED
      BY <1>1, <3>1, <3>2 DEF Fresh
  <2>. QED
    BY <2>1, <2>2
<1>4. \A u \in Tasks : at[u] = r /\ Fresh(u, e) => at'[u] = r /\ Fresh(u, e)'
  BY <1>1, <1>3 DEF Fresh
<1>5. \A u \in Requests : OwedBy(u, r, e) => OwedBy(u, r, e)'
  BY <1>1 DEF OwedBy, Tasks
<1>6. Owed(r, e) => Owed(r, e)'
  BY <1>2, <1>4, <1>5, OwedKept
<1>. QED
  BY <1>1, <1>6 DEF Told, StaleHasCause

\* So does the end of a reload, by installing or by failing.
LEMMA ReloadDoneTold ==
  ASSUME IInv, NEW t \in Tasks, Install(t) \/ ReloadFails(t), NEW r \in Replicas, NEW e \in Envs
  PROVE  Told(r, e)'
<1> USE DEF IInv, TypeOK, TaskType, StoreType
<1> DEFINE Target == r = at[t] /\ e = env[t]
<1>1. /\ UNCHANGED <<envs, db, phase, warm, inbox, at, env, todo, ensure>>
      /\ \A u \in Tasks \ {t} : pc'[u] = pc[u] /\ got'[u] = got[u]
      /\ pc[t] \in {"flags", "segs", "install"} /\ pc'[t] = AfterReload(t)
  BY DEF Install, ReloadFails
<1>2. (FreshWarm(r, e) => FreshWarm(r, e)') /\ (HasEvent(r, e) => HasEvent(r, e)')
  BY <1>1 DEF FreshWarm, HasEvent
<1>3. \A u \in Tasks \ {t} : at[u] = r /\ Fresh(u, e) => at'[u] = r /\ Fresh(u, e)'
  BY <1>1 DEF Fresh
<1>4. \A u \in Requests : OwedBy(u, r, e) => OwedBy(u, r, e)'
  BY <1>1 DEF OwedBy, Tasks, AfterReload
<1>5. Owed(r, e) /\ ~(Target /\ Fresh(t, e)) => Owed(r, e)'
  BY <1>2, <1>3, <1>4 DEF Owed, Fresh
<1>6. CASE ~Target
  <2>1. cache'[r][e] = cache[r][e]
    BY <1>6 DEF Install, ReloadFails, ReplicaType
  <2>2. cause[r][e] # {} => cause'[r][e] # {}
    <3>1. CASE Install(t)
      BY <1>6, <3>1 DEF Install, CauseType
    <3>2. CASE ReloadFails(t)
      BY <3>2, BlameGrows DEF ReloadFails
    <3>. QED BY <3>1, <3>2
  <2>. QED
    BY <1>1, <1>5, <1>6, <2>1, <2>2 DEF Told, StaleHasCause
<1>7. CASE Target /\ ReloadFails(t)
  <2>1. <<r, e>> \in {<<at[t], env[t]>>}
    BY <1>7
  <2>2. cause' = Blame("failed", {<<at[t], env[t]>>})
    BY <1>7 DEF ReloadFails
  <2>3. cause'[r][e] # {}
    BY <2>1, <2>2, BlameGrows
  <2>. QED
    BY <2>3 DEF Told
<1>8. CASE Target /\ Install(t)
  <2>1. /\ cache'[r][e] = got[t] /\ cause'[r][e] = CauseAfter(r, e, got[t]) /\ got[t] \in Snapshot
        /\ pc[t] = "install"
    BY <1>8 DEF Install, ReplicaType, CauseType
  <2>2. AtMost(got[t], db[e])
    BY <1>8, <2>1 DEF NeverAhead, AtMost
  <2>3. got[t] # db[e] => ~Fresh(t, e)
    BY <2>1 DEF Fresh
  <2>. QED
    BY <1>1, <1>5, <1>8, <2>1, <2>2, <2>3, InstallTold
<1>. QED
  BY <1>6, <1>7, <1>8

\* So does broadcasting the change, or failing to.
LEMMA PublishTold ==
  ASSUME IInv, NEW w \in Requests, Publish(w) \/ PublishFails(w), NEW r \in Replicas, NEW e \in Envs
  PROVE  Told(r, e)'
<1> USE DEF IInv, TypeOK, TaskType, Tasks
<1>1. /\ UNCHANGED <<envs, db, phase, warm, cache, at, env, got, ensure>>
      /\ pc[w] = "publish" /\ pc'[w] = "next" /\ todo'[w] = todo[w] \ {env[w]}
      /\ \A u \in Tasks \ {w} : pc'[u] = pc[u] /\ todo'[u] = todo[u]
      /\ ensure[w] = {}
  BY DEF Publish, PublishFails, EnsureListed
<1>2. cause[r][e] # {} => cause'[r][e] # {}
  BY BlameGrows DEF Publish, PublishFails
<1>3. FreshWarm(r, e) => FreshWarm(r, e)'
  BY <1>1 DEF FreshWarm
<1>4. HasEvent(r, e) => HasEvent(r, e)'
  <2>1. CASE PublishFails(w)
    BY <2>1 DEF PublishFails, HasEvent
  <2>2. CASE Publish(w) /\ phase[r] = "sub" /\ HasEvent(r, e)
    <3>1. inbox[r] \in Seq(Event)
      BY DEF ReplicaType
    <3>2. PICK i \in DOMAIN inbox[r] : inbox[r][i].env = e /\ inbox[r][i].origin # r
      BY <2>2 DEF HasEvent
    <3>3. inbox'[r] = Append(inbox[r], [env |-> env[w], origin |-> at[w]])
      BY <2>2 DEF Publish
    <3>4. i \in DOMAIN inbox'[r] /\ inbox'[r][i] = inbox[r][i]
      BY <3>1, <3>2, <3>3
    <3>. QED
      BY <3>2, <3>4 DEF HasEvent
  <2>3. CASE Publish(w) /\ phase[r] # "sub"
    BY <2>3 DEF Publish, HasEvent
  <2>. QED
    BY <2>1, <2>2, <2>3
<1>5. \A u \in Tasks : at[u] = r /\ Fresh(u, e) => at'[u] = r /\ Fresh(u, e)'
  BY <1>1 DEF Fresh
<1>6. \A u \in Requests \ {w} : OwedBy(u, r, e) => OwedBy(u, r, e)'
  BY <1>1 DEF OwedBy
<1>7. OwedBy(w, r, e) => OwedBy(w, r, e)' \/ (e = env[w] /\ at[w] # r)
  BY <1>1 DEF OwedBy
<1>8. CASE ~(e = env[w] /\ at[w] # r)
  <2>1. Owed(r, e) => Owed(r, e)'
    BY <1>3, <1>4, <1>5, <1>6, <1>7, <1>8 DEF Owed
  <2>. QED
    BY <1>1, <1>2, <2>1 DEF Told, StaleHasCause
<1>9. CASE e = env[w] /\ at[w] # r /\ PublishFails(w)
  <2> DEFINE S == (Replicas \ {at[w]}) \X {env[w]}
  <2>1. <<r, e>> \in S
    BY <1>9
  <2>2. cause' = Blame("lost", S)
    BY <1>9 DEF PublishFails
  <2> HIDE DEF S
  <2>3. cause'[r][e] # {}
    BY <2>1, <2>2, BlameGrows
  <2>. QED
    BY <2>3 DEF Told
<1>10. CASE e = env[w] /\ at[w] # r /\ Publish(w)
  <2> DEFINE Starting == {q \in Replicas \ {at[w]} : phase[q] \in {"segs", "install", "gap"}} \X {env[w]}
  <2>1. CASE phase[r] = "sub"
    <3>1. inbox[r] \in Seq(Event) /\ inbox'[r] = Append(inbox[r], [env |-> env[w], origin |-> at[w]])
      BY <1>10, <2>1 DEF Publish, ReplicaType
    <3>2. /\ Len(inbox[r]) + 1 \in DOMAIN inbox'[r]
          /\ inbox'[r][Len(inbox[r]) + 1] = [env |-> env[w], origin |-> at[w]]
      BY <3>1
    <3>3. HasEvent(r, e)'
      BY <1>10, <3>2 DEF HasEvent
    <3>. QED
      BY <3>3 DEF Told, Owed
  <2>2. CASE phase[r] \in {"segs", "install", "gap"}
    <3>1. <<r, e>> \in Starting
      BY <1>10, <2>2
    <3>2. cause' = Blame("boot", Starting)
      BY <1>10 DEF Publish
    <3>3. cause'[r][e] = cause[r][e] \cup {"boot"}
      BY <3>1, <3>2 DEF Blame
    <3>. QED
      BY <3>3 DEF Told
  <2>3. CASE phase[r] = "flags"
    BY <1>1, <2>3 DEF Told, Owed, FreshWarm
  <2>4. CASE phase[r] = "down"
    BY <1>1, <2>4 DEF Told
  <2>. QED
    BY <2>1, <2>2, <2>3, <2>4 DEF ReplicaType, Phases
<1>. QED
  BY <1>8, <1>9, <1>10

\* Recording a cause for one replica and environment leaves the others alone.
LEMMA BlamesOne ==
  ASSUME NEW c, NEW r \in Replicas, NEW e \in Envs, cause' = Blame(c, {<<r, e>>})
  PROVE  cause'[r][e] # {}
BY DEF Blame

\* So does handling, or losing, an event.
LEMMA EventTold ==
  ASSUME IInv, NEW q \in Replicas, OnEvent(q) \/ LoseEvent(q), NEW r \in Replicas, NEW e \in Envs
  PROVE  Told(r, e)'
<1> USE DEF IInv, TypeOK, TaskType, ReplicaType, Tasks, LoopsReload
<1>1. /\ UNCHANGED <<envs, db, phase, warm, cache, at, got, todo, ensure>>
      /\ inbox[q] # <<>> /\ inbox' = [inbox EXCEPT ![q] = Tail(inbox[q])]
      /\ \A u \in Tasks \ {q} : pc'[u] = pc[u] /\ env'[u] = env[u]
  BY DEF OnEvent, LoseEvent, taskvars
<1>2. cause[r][e] # {} => cause'[r][e] # {}
  <2>1. CASE OnEvent(q)
    BY <2>1 DEF OnEvent
  <2>2. CASE LoseEvent(q)
    <3> DEFINE S == {<<q, Head(inbox[q]).env>>}
    <3>1. cause' = Blame("lost", S)
      BY <2>2 DEF LoseEvent
    <3> HIDE DEF S
    <3>. QED
      BY <3>1, BlameGrows
  <2>. QED BY <2>1, <2>2
<1>3. FreshWarm(r, e) => FreshWarm(r, e)'
  BY <1>1 DEF FreshWarm
<1>4. \A u \in Tasks : at[u] = r /\ Fresh(u, e) => at'[u] = r /\ Fresh(u, e)'
  BY <1>1 DEF Fresh, OnEvent, LoseEvent, taskvars
<1>5. \A u \in Requests : OwedBy(u, r, e) => OwedBy(u, r, e)'
  BY <1>1, FlagCacheAssumption DEF OwedBy
<1>6. HasEvent(r, e) => HasEvent(r, e)' \/ (r = q /\ Head(inbox[r]).env = e /\ Head(inbox[r]).origin # r)
  <2> SUFFICES ASSUME HasEvent(r, e) PROVE HasEvent(r, e)' \/ (r = q /\ Head(inbox[r]).env = e /\ Head(inbox[r]).origin # r)
    OBVIOUS
  <2>1. PICK i \in DOMAIN inbox[r] : inbox[r][i].env = e /\ inbox[r][i].origin # r
    BY DEF HasEvent
  <2>2. CASE r # q
    BY <1>1, <2>1, <2>2 DEF HasEvent
  <2>3. CASE r = q /\ i = 1
    BY <1>1, <2>1, <2>3
  <2>4. CASE r = q /\ i # 1
    <3>1. inbox[r] \in Seq(Event) /\ inbox'[r] = Tail(inbox[r])
      BY <1>1, <2>4
    <3>2. i - 1 \in DOMAIN inbox'[r] /\ inbox'[r][i - 1] = inbox[r][i]
      BY <2>1, <2>4, <3>1
    <3>. QED
      BY <2>1, <3>2 DEF HasEvent
  <2>. QED
    BY <2>2, <2>3, <2>4
<1>7. CASE r = q /\ Head(inbox[r]).env = e /\ Head(inbox[r]).origin # r /\ OnEvent(q)
  <2>1. at'[r] = r /\ Fresh(r, e)'
    BY <1>1, <1>7 DEF OnEvent, Fresh
  <2>. QED
    BY <2>1 DEF Told, Owed
<1>8. CASE r = q /\ Head(inbox[r]).env = e /\ Head(inbox[r]).origin # r /\ LoseEvent(q)
  <2>1. cause' = Blame("lost", {<<q, Head(inbox[q]).env>>}) /\ q = r /\ Head(inbox[q]).env = e
    BY <1>8 DEF LoseEvent
  <2> HIDE DEF IInv, TypeOK, TaskType, ReplicaType, Tasks, LoopsReload
  <2>2. cause'[r][e] # {}
    BY <2>1, BlamesOne
  <2>. QED
    BY <2>2 DEF Told
<1>9. CASE ~(r = q /\ Head(inbox[r]).env = e /\ Head(inbox[r]).origin # r)
  <2>1. Owed(r, e) => Owed(r, e)'
    BY <1>3, <1>4, <1>5, <1>6, <1>9, OwedKept
  <2>. QED
    BY <1>1, <1>2, <2>1 DEF Told, StaleHasCause
<1>. QED
  BY <1>7, <1>8, <1>9

\* So do the steps of a starting replica.
LEMMA StartTold ==
  ASSUME IInv, NEW q \in Replicas, StartStep(q) \/ Boot(q), NEW r \in Replicas, NEW e \in Envs
  PROVE  Told(r, e)'
<1> USE DEF IInv, TypeOK, ReplicaType, StoreType, CauseType, StartStep
<1>1. UNCHANGED <<envs, db, inbox>> /\ UNCHANGED taskvars
  BY DEF Boot, WarmFlags, WarmSegs, WarmInstall, Subscribe
<1>2. HasEvent(r, e) => HasEvent(r, e)'
  BY <1>1 DEF HasEvent
<1>3. \A u \in Tasks : at[u] = r /\ Fresh(u, e) => at'[u] = r /\ Fresh(u, e)'
  BY <1>1 DEF Fresh, taskvars
<1>4. \A u \in Requests : OwedBy(u, r, e) => OwedBy(u, r, e)'
  BY <1>1 DEF OwedBy, taskvars
<1>5. CASE r # q
  <2>1. /\ phase'[r] = phase[r] /\ cache'[r] = cache[r] /\ warm'[r] = warm[r] /\ cause'[r] = cause[r]
    BY <1>5 DEF Boot, WarmFlags, WarmSegs, WarmInstall, Subscribe
  <2>2. FreshWarm(r, e) => FreshWarm(r, e)'
    BY <1>1, <2>1 DEF FreshWarm
  <2>3. Owed(r, e) => Owed(r, e)'
    BY <1>2, <1>3, <1>4, <2>2, OwedKept
  <2>. QED
    BY <1>1, <2>1, <2>3 DEF Told, StaleHasCause
<1>6. CASE r = q /\ Boot(q)
  <2>1. FreshWarm(r, e)'
    BY <1>6 DEF Boot, FreshWarm
  <2>. QED
    BY <2>1 DEF Told, Owed
<1>7. CASE r = q /\ (WarmFlags(q) \/ WarmSegs(q))
  <2>1. phase[r] # "down" /\ cache' = cache /\ cause' = cause
    BY <1>7 DEF WarmFlags, WarmSegs
  <2>2. FreshWarm(r, e) => FreshWarm(r, e)'
    <3>1. CASE WarmFlags(q)
      BY <1>1, <1>7, <3>1 DEF WarmFlags, FreshWarm
    <3>2. CASE WarmSegs(q)
      <4>1. /\ warm'[r][e] = [flags |-> warm[r][e].flags, segs |-> db[e].segs]
            /\ phase[r] = "segs" /\ phase'[r] = "install" /\ db[e] \in Snapshot /\ warm[r][e] \in Snapshot
        BY <1>7, <3>2 DEF WarmSegs
      <4>2. FreshWarm(r, e) => warm'[r][e] = db[e]
        BY <4>1, SnapshotEqual DEF FreshWarm, Snapshot
      <4>. QED
        BY <1>1, <4>1, <4>2 DEF FreshWarm
    <3>. QED
      BY <1>7, <3>1, <3>2
  <2>3. Owed(r, e) => Owed(r, e)'
    BY <1>2, <1>3, <1>4, <2>2, OwedKept
  <2>. QED
    BY <1>1, <2>1, <2>3 DEF Told, StaleHasCause
<1>8. CASE r = q /\ WarmInstall(q)
  <2>1. /\ cache'[r][e] = warm[r][e] /\ cause'[r][e] = CauseAfter(r, e, warm[r][e])
        /\ warm[r][e] \in Snapshot /\ phase[r] = "install"
    BY <1>8 DEF WarmInstall
  <2>2. AtMost(warm[r][e], db[e])
    BY <2>1 DEF NeverAhead, AtMost
  <2>3. warm[r][e] # db[e] => ~FreshWarm(r, e)
    BY <2>1 DEF FreshWarm
  <2>4. warm[r][e] # db[e] /\ Owed(r, e) => Owed(r, e)'
    BY <1>2, <1>3, <1>4, <2>3 DEF Owed
  <2>. QED
    BY <1>1, <2>1, <2>2, <2>4, InstallTold
<1>9. CASE r = q /\ Subscribe(q)
  <2>1. phase[r] = "gap" /\ cache' = cache /\ cause' = cause
    BY <1>9 DEF Subscribe
  <2>2. FreshWarm(r, e) => FreshWarm(r, e)'
    BY <2>1 DEF FreshWarm
  <2>3. Owed(r, e) => Owed(r, e)'
    BY <1>2, <1>3, <1>4, <2>2, OwedKept
  <2>. QED
    BY <1>1, <2>1, <2>3 DEF Told, StaleHasCause
<1>. QED
  BY <1>5, <1>6, <1>7, <1>8, <1>9

\* So does a crash: what the replica owed its siblings becomes a cause.
LEMMA CrashTold ==
  ASSUME IInv, NEW q \in Replicas, Crash(q), NEW r \in Replicas, NEW e \in Envs
  PROVE  Told(r, e)'
<1> USE DEF IInv, TypeOK, ReplicaType, TaskType, CauseType, Tasks
<1>1. CASE r = q
  BY <1>1 DEF Crash, Told
<1>2. CASE r # q
  <2> DEFINE S == {p \in (Replicas \ {q}) \X Envs :
                     \E w \in Requests : at[w] = q /\ OwedBy(w, p[1], p[2])}
  <2>1. /\ phase'[r] = phase[r] /\ cache'[r] = cache[r] /\ warm'[r] = warm[r] /\ inbox'[r] = inbox[r]
        /\ UNCHANGED <<envs, db, at, env>>
        /\ \A u \in Tasks : at[u] # q => /\ pc'[u] = pc[u] /\ got'[u] = got[u]
                                         /\ todo'[u] = todo[u] /\ ensure'[u] = ensure[u]
    BY <1>2 DEF Crash, Ended
  <2>2. cause' = Blame("crash", S)
    BY DEF Crash
  <2>3. \A w \in Requests : at[w] = q /\ OwedBy(w, r, e) => <<r, e>> \in S
    BY <1>2
  <2> HIDE DEF S
  <2>4. /\ cause[r][e] # {} => cause'[r][e] # {}
        /\ <<r, e>> \in S => cause'[r][e] # {}
    BY <2>2, BlameGrows
  <2>5. (FreshWarm(r, e) => FreshWarm(r, e)') /\ (HasEvent(r, e) => HasEvent(r, e)')
    BY <2>1 DEF FreshWarm, HasEvent
  <2>6. \A u \in Tasks : at[u] = r /\ Fresh(u, e) => at'[u] = r /\ Fresh(u, e)'
    BY <1>2, <2>1 DEF Fresh
  <2>7. \A u \in Requests : at[u] # q /\ OwedBy(u, r, e) => OwedBy(u, r, e)'
    BY <2>1 DEF OwedBy
  <2>8. Owed(r, e) => Owed(r, e)' \/ cause'[r][e] # {}
    BY <2>3, <2>4, <2>5, <2>6, <2>7 DEF Owed
  <2>. QED
    BY <2>1, <2>4, <2>8 DEF Told, StaleHasCause
<1>. QED
  BY <1>1, <1>2

\* The environments a request still has to backfill are ones it has listed.
LEMMA EnsureListedStep == TypeOK /\ EnsureListed /\ [Next]_vars => EnsureListed'
<1> SUFFICES ASSUME TypeOK, EnsureListed, [Next]_vars, NEW u \in Requests
             PROVE  /\ pc'[u] = "ensure" => ensure'[u] \subseteq todo'[u]
                    /\ pc'[u] \notin {"list", "ensure"} => ensure'[u] = {}
  BY DEF EnsureListed
<1> DEFINE Goal == /\ pc'[u] = "ensure" => ensure'[u] \subseteq todo'[u]
                   /\ pc'[u] \notin {"list", "ensure"} => ensure'[u] = {}
           Same == pc'[u] = pc[u] /\ todo'[u] = todo[u] /\ ensure'[u] = ensure[u]
           Done == /\ ensure'[u] = ensure[u]
                   /\ pc'[u] \notin {"list", "ensure"} /\ pc[u] \notin {"list", "ensure"}
<1>1. ASSUME Same \/ Done PROVE Goal
  BY <1>1 DEF EnsureListed
<1> USE FlagCacheAssumption DEF TypeOK, TaskType, Tasks
<1>2. ASSUME NEW w \in Requests, NEW r, NEW step \in {"next", "list", "delete", "propagate"},
             NEW L, NEW R, Begin(w, r, step, L, R), step = "list" \/ R = {}
      PROVE Goal
  BY <1>2, <1>1 DEF Begin
<1>3. ASSUME NEW S, Ended(S) PROVE Goal
  BY <1>3, <1>1 DEF Ended
<1>4. ASSUME Write PROVE Goal
  <2>1. CASE UNCHANGED taskvars
    BY <2>1, <1>1 DEF taskvars
  <2> HIDE DEF Goal
  <2>. QED
    BY <1>2, <1>4, <2>1
    DEF Write, SaveFlagConfig, SaveFlag, DeleteFlag, SaveSegment,
        CreateEnvironment, DeleteProject
<1>5. ASSUME NEW w \in Requests, ListEnvironments(w) PROVE Goal
  BY <1>5, <1>1 DEF ListEnvironments, EnsureListed
<1>6. ASSUME NEW w \in Requests, NEW f \in Envs, EnsureFlagConfig(w, f) \/ EnsureDone(w) PROVE Goal
  BY <1>6, <1>1 DEF EnsureFlagConfig, EnsureDone, EnsureListed
<1>7. ASSUME NEW w \in Requests, NEW f \in Envs, DeleteFlagRow(w) \/ NextEnv(w, f) PROVE Same \/ Done
  BY <1>7 DEF DeleteFlagRow, NextEnv
<1>8. ASSUME NEW w \in Requests, Publish(w) \/ PublishFails(w) PROVE Same \/ Done
  BY <1>8 DEF Publish, PublishFails
<1>9. ASSUME NEW t \in Tasks, ReloadStep(t) \/ ReloadFails(t) PROVE Same \/ Done
  BY <1>9 DEF ReloadStep, ReadFlags, ReadSegs, Install, ReloadFails, AfterReload
<1>10. ASSUME NEW r \in Replicas, OnEvent(r) \/ StartStep(r) \/ Boot(r) \/ LoseEvent(r) PROVE Same
  BY <1>10 DEF OnEvent, StartStep, Boot, WarmFlags, WarmSegs, WarmInstall, Subscribe, LoseEvent, taskvars
<1>11. ASSUME UNCHANGED vars PROVE Same
  BY <1>11 DEF vars
<1>15. ASSUME WriteUnanswered PROVE Same
  BY <1>15
  DEF WriteUnanswered, SaveFlagConfigUnanswered, SaveFlagUnanswered, SaveSegmentUnanswered,
      Unanswered, taskvars
<1> HIDE DEF Goal, Same, Done
<1>12. ASSUME NEW w \in Requests, RequestStep(w) PROVE Goal
  BY <1>1, <1>3, <1>5, <1>6, <1>7, <1>8, <1>12, FlagCacheAssumption DEF RequestStep, EnsureFails, Return, DeleteFlagRow
<1>13. ASSUME Faulty PROVE Goal
  BY <1>1, <1>3, <1>8, <1>9, <1>10, <1>13, <1>15
  DEF Faulty, DeleteFails, ListFails, EnsureFails, EnsureUnanswered
<1>14. Goal
  BY <1>1, <1>3, <1>4, <1>9, <1>10, <1>11, <1>12, <1>13 DEF Next, Crash
<1>. QED
  BY <1>14 DEF Goal

\* The initial state satisfies the inductive invariant.
LEMMA InitInv == Init => IInv
<1> SUFFICES ASSUME Init PROVE IInv
  OBVIOUS
<1>1. TypeOK
  BY InitType
<1>2. NeverAhead
  BY DEF Init, NeverAhead, AtMost, Empty, Tasks
<1>3. LoopsReload /\ EnsureListed
  BY DEF Init, LoopsReload, EnsureListed, Tasks
<1>4. StaleHasCause
  BY DEF Init, StaleHasCause
<1>. QED
  BY <1>1, <1>2, <1>3, <1>4 DEF IInv

\* Every step keeps the inductive invariant.
LEMMA StepInv == IInv /\ [Next]_vars => IInv'
<1> SUFFICES ASSUME IInv, [Next]_vars PROVE IInv'
  OBVIOUS
<1>1. TypeOK'
  BY StoreTypeStep, ReplicaTypeStep, TaskTypeStep, CauseTypeStep, CounterTypeStep DEF TypeOK, IInv
<1>2. NeverAhead'
  BY <1>1, ReplicaNeverAhead, TaskNeverAhead DEF IInv, NeverAhead
<1>3. LoopsReload' /\ EnsureListed'
  BY LoopsStep, EnsureListedStep DEF IInv
<1>4. ASSUME NEW r \in Replicas, NEW e \in Envs PROVE Told(r, e)'
  <2>1. CASE UNCHANGED vars
    <3>1. Told(r, e)
      BY DEF IInv, StaleHasCause, Told
    <3>2. Owed(r, e) => Owed(r, e)'
      BY <2>1 DEF vars, Owed, FreshWarm, HasEvent, Fresh, OwedBy
    <3>. QED
      BY <2>1, <3>1, <3>2 DEF vars, Told
  <2>2. CASE Next
    BY <1>1, <2>2, WriteTold, UnansweredTold, RequestTold, ReadTold, ReloadDoneTold, PublishTold, EventTold,
       StartTold, CrashTold
    DEF Next, RequestStep, ReloadStep, Faulty
  <2>. QED
    BY <2>1, <2>2
<1>5. StaleHasCause'
  BY <1>4 DEF Told, StaleHasCause
<1>. QED
  BY <1>1, <1>2, <1>3, <1>5 DEF IInv

\* For every number of replicas, environments, concurrent writes, faults, starts
\* and crashes: a running replica that misses the latest version of an
\* environment will still be told of it, or one of the eight recorded causes
\* explains why not.
THEOREM StalenessExplained == Spec => []StaleHasCause
<1>1. IInv => StaleHasCause
  BY DEF IInv
<1>. QED
  BY InitInv, StepInv, <1>1, PTL DEF Spec

\* No replica ever serves a version Postgres has not committed.
THEOREM CacheBehind == Spec => []NeverAhead
<1>1. IInv => NeverAhead
  BY DEF IInv
<1>. QED
  BY InitInv, StepInv, <1>1, PTL DEF Spec

\* The caches converge: when nothing is under way, a subscribed replica for
\* which no cause is recorded serves exactly what Postgres holds.
THEOREM Convergence == Spec => []ConvergedUnlessCaused
<1>1. IInv => ConvergedUnlessCaused
  <2> SUFFICES ASSUME IInv, Quiescent, NEW r \in Replicas, NEW e \in Envs,
                      phase[r] = "sub", cause[r][e] = {}
               PROVE  cache[r][e] = db[e]
    BY DEF ConvergedUnlessCaused
  <2>1. ~FreshWarm(r, e)
    BY DEF FreshWarm
  <2>2. ~HasEvent(r, e)
    BY DEF Quiescent, HasEvent
  <2>3. \A t \in Tasks : ~Fresh(t, e)
    BY DEF Quiescent, Fresh
  <2>4. \A w \in Requests : ~OwedBy(w, r, e)
    BY DEF Quiescent, OwedBy, Tasks
  <2>. QED
    BY <2>1, <2>2, <2>3, <2>4 DEF IInv, StaleHasCause, Owed
<1>. QED
  BY InitInv, StepInv, <1>1, PTL DEF Spec
=============================================================================
