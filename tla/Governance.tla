---------------------------- MODULE Governance -----------------------------
(***************************************************************************)
(* Everything that writes one flag's config in one environment: PUT and    *)
(* PATCH requests, approved change requests, the scheduler's due changes   *)
(* and fired triggers (internal/governance).  The last three read a        *)
(* status, apply, and mark the outcome in separate statements.  All but    *)
(* PUT apply through PatchFlagConfig (internal/flags/service.go), which    *)
(* reads the config, edits it in memory and writes all of it back; PUT     *)
(* writes a config of its own.                                             *)
(*                                                                         *)
(* The config is abstracted to the edits it descends from: how often the   *)
(* instructions of each change were applied on the way to it.  Telling the *)
(* replicas' caches (propagate) cannot fail the caller and is the subject  *)
(* of FlagCache.  A trigger is fired by whoever holds its current token.   *)
(***************************************************************************)
EXTENDS Naturals, FiniteSets

CONSTANTS
  Requests,    \* change requests
  Scheduled,   \* scheduled changes
  Triggers,    \* flag triggers
  Patches,     \* PATCH requests
  Puts,        \* PUT requests
  Invalid,     \* changes whose instructions ApplyInstructions refuses
  Handlers,    \* request goroutines, of any replica
  Schedulers,  \* scheduler goroutines, one per replica
  Batch,       \* dueBatchSize
  MaxFires,    \* bound: firings of triggers, PATCH and PUT requests
  MaxFaults    \* bound: failed statements, stopped processes, deletions of the flag

Changes == Requests \cup Scheduled \cup Triggers \cup Patches \cup Puts
Workers == Handlers \cup Schedulers

ASSUME GovernanceAssumption ==
  /\ Changes # {}
  /\ Requests \cap (Scheduled \cup Triggers \cup Patches \cup Puts) = {}
  /\ Scheduled \cap (Triggers \cup Patches \cup Puts) = {}
  /\ Triggers \cap (Patches \cup Puts) = {}
  /\ Patches \cap Puts = {}
  /\ Invalid \subseteq Changes
  /\ Handlers \cap Schedulers = {}
  /\ Batch \in Nat \ {0}
  /\ MaxFires \in Nat /\ MaxFaults \in Nat

VARIABLES
  exists,  \* is the flag there?
  config,  \* the stored config: how often each change is in it
  status,  \* the row of each change
  due,     \* per scheduled change: has its time come?
  pc, item, seen, \* per worker: next step, the change it applies, the config it read
  queue,   \* per worker: due changes it has listed and not yet taken up
  applied, \* history: how often each change was written
  runs,    \* per trigger: execution_count
  excuse,  \* history: what explains a change that is not applied exactly once
  unread,  \* history, per worker about to write: changes written since it read
  overwritten, \* history: changes a write has dropped, having replaced or not read them
  early,   \* history: scheduled changes cancelled before their time
  fires, faults

vars == <<exists, config, status, due, pc, item, seen, queue, applied, runs,
          excuse, unread, overwritten, early, fires, faults>>
rows == <<status, due, runs, early>>
flag == <<exists, config, applied, unread, overwritten>>

Status == {"none", "pending", "approved", "rejected", "applied", "cancelled", "failed",
           "enabled", "disabled", "deleted"}
Steps == {"idle", "read", "save", "mark", "fail", "reject"}
Excuses == {"overlap", "unmarked"}

\* Types of the rows, the workers and the config.
TypeOK ==
  /\ exists \in BOOLEAN
  /\ config \in [Changes -> Nat]
  /\ status \in [Changes -> Status]
  /\ due \in [Scheduled -> BOOLEAN]
  /\ pc \in [Workers -> Steps]
  /\ item \in [Workers -> Changes]
  /\ seen \in [Workers -> [Changes -> Nat]]
  /\ queue \in [Workers -> SUBSET Scheduled]
  /\ applied \in [Changes -> Nat]
  /\ runs \in [Triggers -> Nat]
  /\ excuse \in [Changes -> SUBSET Excuses]
  /\ unread \in [Workers -> SUBSET Changes]
  /\ overwritten \in SUBSET Changes
  /\ early \in SUBSET Scheduled
  /\ fires \in Nat /\ faults \in Nat

Nothing == [c \in Changes |-> 0]
AnyChange == CHOOSE c \in Changes : TRUE

Init ==
  /\ exists = TRUE
  /\ config = Nothing
  /\ status = [c \in Changes |-> "none"]
  /\ due = [c \in Scheduled |-> FALSE]
  /\ pc = [w \in Workers |-> "idle"]
  /\ item = [w \in Workers |-> AnyChange]
  /\ seen = [w \in Workers |-> Nothing]
  /\ queue = [w \in Workers |-> {}]
  /\ applied = Nothing
  /\ runs = [c \in Triggers |-> 0]
  /\ excuse = [c \in Changes |-> {}]
  /\ unread = [w \in Workers |-> {}]
  /\ overwritten = {}
  /\ early = {}
  /\ fires = 0 /\ faults = 0

\* Worker w has taken change c up, or listed it, and is not done with it.
Holds(w, c) == (pc[w] # "idle" /\ item[w] = c) \/ c \in queue[w]

\* History only: the excuses after the changes of S are given reason x.
Excused(x, S) == [c \in Changes |-> IF c \in S THEN excuse[c] \cup {x} ELSE excuse[c]]

\* History only: the changes of S that some worker other than w already holds.
Contended(w, S) == {c \in S : \E v \in Workers \ {w} : Holds(v, c)}
-----------------------------------------------------------------------------
(***************************************************************************)
(* The rows: one guarded or unguarded statement each.                      *)
(***************************************************************************)
\* A new row for the flag, in its first status.
Insert(c, first) ==
  /\ exists /\ status[c] = "none"
  /\ status' = [status EXCEPT ![c] = first]
  /\ UNCHANGED <<due, runs, early, pc, item, seen, queue, excuse, fires, faults>> /\ UNCHANGED flag

Create(c) == c \in Requests /\ Insert(c, "pending")

Schedule(c) == c \in Scheduled /\ Insert(c, "pending")

\* enabled is the default of the column.
CreateTrigger(c) == c \in Triggers /\ Insert(c, "enabled")

TimePasses(c) ==
  /\ c \in Scheduled /\ ~due[c]
  /\ status[c] # "none"
  /\ due' = [due EXCEPT ![c] = TRUE]
  /\ UNCHANGED <<status, runs, early, pc, item, seen, queue, excuse, fires, faults>> /\ UNCHANGED flag

\* CancelScheduledChange: UPDATE ... WHERE status = 'pending'.
Cancel(c) ==
  /\ c \in Scheduled /\ status[c] = "pending"
  /\ status' = [status EXCEPT ![c] = "cancelled"]
  /\ early' = IF due[c] THEN early ELSE early \cup {c}
  /\ excuse' = Excused("overlap", {d \in {c} : \E w \in Workers : Holds(w, d)})
  /\ UNCHANGED <<due, runs, pc, item, seen, queue, fires, faults>> /\ UNCHANGED flag

SetTriggerEnabled(c, on) ==
  /\ c \in Triggers
  /\ status[c] = (IF on THEN "disabled" ELSE "enabled")
  /\ status' = [status EXCEPT ![c] = IF on THEN "enabled" ELSE "disabled"]
  /\ UNCHANGED <<due, runs, early, pc, item, seen, queue, excuse, fires, faults>> /\ UNCHANGED flag

DeleteTrigger(c) ==
  /\ c \in Triggers /\ status[c] \in {"enabled", "disabled"}
  /\ status' = [status EXCEPT ![c] = "deleted"]
  /\ UNCHANGED <<due, runs, early, pc, item, seen, queue, excuse, fires, faults>> /\ UNCHANGED flag
-----------------------------------------------------------------------------
(***************************************************************************)
(* Taking a change up.  The status is read here and not again.             *)
(***************************************************************************)
Take(w, c, step) ==
  /\ pc[w] = "idle"
  /\ pc' = [pc EXCEPT ![w] = step]
  /\ item' = [item EXCEPT ![w] = c]
  /\ excuse' = Excused("overlap", Contended(w, {c}))
  /\ UNCHANGED <<seen, faults>> /\ UNCHANGED rows /\ UNCHANGED flag

\* Wrong variant: the status of the request is not looked at.
ApproveAny(w, c) ==
  /\ c \in Requests /\ status[c] # "none"
  /\ Take(w, c, "read")
  /\ UNCHANGED <<queue, fires>>

Approve(w, c) ==
  /\ c \in Requests /\ status[c] = "pending"
  /\ Take(w, c, "read")
  /\ UNCHANGED <<queue, fires>>

Reject(w, c) ==
  /\ c \in Requests /\ status[c] = "pending"
  /\ Take(w, c, "reject")
  /\ UNCHANGED <<queue, fires>>

Patch(w, c) ==
  /\ c \in Patches
  /\ fires < MaxFires
  /\ fires' = fires + 1
  /\ Take(w, c, "read")
  /\ UNCHANGED queue

Put(w, c) ==
  /\ c \in Puts
  /\ fires < MaxFires
  /\ fires' = fires + 1
  /\ Take(w, c, "read")
  /\ UNCHANGED queue

\* Fire looks the trigger up by its token and tests its enabled column.
Fire(w, c) ==
  /\ c \in Triggers /\ status[c] = "enabled"
  /\ fires < MaxFires
  /\ fires' = fires + 1
  /\ Take(w, c, "read")
  /\ UNCHANGED queue

\* Wrong variant: changes are listed whether or not their time has come.
ListDueAll(w) ==
  LET S == {c \in Scheduled : status[c] = "pending"} IN
  /\ pc[w] = "idle" /\ queue[w] = {}
  /\ S # {}
  /\ \E Q \in SUBSET S : Q # {} /\ queue' = [queue EXCEPT ![w] = Q]
  /\ excuse' = Excused("overlap", Contended(w, queue'[w]))
  /\ UNCHANGED <<pc, item, seen, fires, faults>> /\ UNCHANGED rows /\ UNCHANGED flag

\* A tick of the scheduler: ListDueScheduledChanges, limited to Batch rows.
ListDue(w) ==
  LET S == {c \in Scheduled : status[c] = "pending" /\ due[c]} IN
  /\ pc[w] = "idle" /\ queue[w] = {}
  /\ S # {}
  /\ \E Q \in SUBSET S :
       /\ Cardinality(Q) = (IF Cardinality(S) < Batch THEN Cardinality(S) ELSE Batch)
       /\ queue' = [queue EXCEPT ![w] = Q]
  /\ excuse' = Excused("overlap", Contended(w, queue'[w]))
  /\ UNCHANGED <<pc, item, seen, fires, faults>> /\ UNCHANGED rows /\ UNCHANGED flag

\* The loop of applyDue takes the next listed change up, whatever its status is now.
TakeDue(w, c) ==
  /\ c \in queue[w]
  /\ Take(w, c, "read")
  /\ queue' = [queue EXCEPT ![w] = @ \ {c}]
  /\ UNCHANGED fires
-----------------------------------------------------------------------------
(***************************************************************************)
(* applyInstructions and PatchFlagConfig: read, edit, write everything.    *)
(* PUT reads the flag's definition only, to validate its own config by.    *)
(***************************************************************************)
Read(w) ==
  /\ pc[w] = "read"
  /\ exists /\ item[w] \notin Invalid
  /\ seen' = [seen EXCEPT ![w] = IF item[w] \in Puts THEN Nothing ELSE config]
  /\ pc' = [pc EXCEPT ![w] = "save"]
  /\ UNCHANGED <<item, queue, excuse, fires, faults>> /\ UNCHANGED rows /\ UNCHANGED flag

\* What follows a successful write: PATCH and PUT are done, anything else is marked.
AfterSave(c) == IF c \in Patches \cup Puts THEN "idle" ELSE "mark"

\* Worker w goes on to the given step and forgets the config it read.
Goto(w, step) ==
  /\ pc' = [pc EXCEPT ![w] = step]
  /\ seen' = [seen EXCEPT ![w] = Nothing]
  /\ item' = [item EXCEPT ![w] = IF step = "idle" THEN AnyChange ELSE @]

\* History only: what a write of worker w drops from the config.
Dropped(w) == IF item[w] \in Puts THEN {c \in Changes : applied[c] > 0} ELSE unread[w]

\* History only: a write of worker w is one the others about to write have not read.
Missed(w) ==
  [v \in Workers |-> IF v # w /\ pc[v] = "save" /\ item[v] \notin Puts
                     THEN unread[v] \cup {item[w]} ELSE {}]

\* Wrong variant: the instructions are applied to an empty config, as PUT's body is.
WriteReplacing(w) ==
  /\ config' = [Nothing EXCEPT ![item[w]] = @ + 1]
  /\ applied' = [applied EXCEPT ![item[w]] = @ + 1]
  /\ overwritten' = overwritten \cup Dropped(w)
  /\ unread' = Missed(w)
  /\ UNCHANGED exists

\* UpsertFlagConfig writes the edited copy of what was read.
Write(w) ==
  /\ config' = [seen[w] EXCEPT ![item[w]] = @ + 1]
  /\ applied' = [applied EXCEPT ![item[w]] = @ + 1]
  /\ overwritten' = overwritten \cup Dropped(w)
  /\ unread' = Missed(w)
  /\ UNCHANGED exists

Save(w) ==
  /\ pc[w] = "save" /\ exists
  /\ Write(w)
  /\ Goto(w, AfterSave(item[w]))
  /\ UNCHANGED <<queue, excuse, fires, faults>> /\ UNCHANGED rows

Fault == faults < MaxFaults /\ faults' = faults + 1

\* The scheduler marks a change it could not apply failed; a handler returns.
AfterFailure(c) == IF c \in Scheduled THEN "fail" ELSE "idle"

\* Applying fails: a statement failed, the flag is gone, or the instructions
\* are refused.
ApplyFails(w) ==
  /\ pc[w] \in {"read", "save"}
  /\ \/ Fault
     \/ (~exists \/ item[w] \in Invalid) /\ UNCHANGED faults
  /\ Goto(w, AfterFailure(item[w]))
  /\ unread' = [unread EXCEPT ![w] = {}]
  /\ UNCHANGED <<exists, config, applied, overwritten, queue, excuse, fires>> /\ UNCHANGED rows

\* The write takes effect but its answer is lost (connection, request context):
\* the caller sees an error.
SaveUnanswered(w) ==
  /\ pc[w] = "save" /\ exists
  /\ Fault
  /\ Write(w)
  /\ Goto(w, AfterFailure(item[w]))
  /\ excuse' = Excused("unmarked", {item[w]})
  /\ UNCHANGED <<queue, fires>> /\ UNCHANGED rows
-----------------------------------------------------------------------------
(***************************************************************************)
(* Marking the outcome.  The scheduled_changes statements are guarded by   *)
(* status = 'pending', the change_requests statement is not.               *)
(***************************************************************************)
MarkApproved(w) ==
  /\ pc[w] = "mark" /\ item[w] \in Requests
  /\ status' = [status EXCEPT ![item[w]] = "approved"]
  /\ Goto(w, "idle")
  /\ UNCHANGED <<due, runs, early, queue, excuse, fires, faults>> /\ UNCHANGED flag

MarkRejected(w) ==
  /\ pc[w] = "reject"
  /\ status' = [status EXCEPT ![item[w]] = "rejected"]
  /\ Goto(w, "idle")
  /\ UNCHANGED <<due, runs, early, queue, excuse, fires, faults>> /\ UNCHANGED flag

\* Wrong variant: only a success is written down; a failed change stays pending.
MarkScheduledApplied(w) ==
  /\ pc[w] \in {"mark", "fail"} /\ item[w] \in Scheduled
  /\ status' = [status EXCEPT ![item[w]] =
                  IF @ = "pending" /\ pc[w] = "mark" THEN "applied" ELSE @]
  /\ Goto(w, "idle")
  /\ UNCHANGED <<due, runs, early, queue, excuse, fires, faults>> /\ UNCHANGED flag

\* Wrong variant: the outcome is written whatever the row says.
MarkScheduledAny(w) ==
  /\ pc[w] \in {"mark", "fail"} /\ item[w] \in Scheduled
  /\ status' = [status EXCEPT ![item[w]] = IF pc[w] = "mark" THEN "applied" ELSE "failed"]
  /\ Goto(w, "idle")
  /\ UNCHANGED <<due, runs, early, queue, excuse, fires, faults>> /\ UNCHANGED flag

\* MarkScheduledChangeApplied and MarkScheduledChangeFailed.
MarkScheduled(w) ==
  /\ pc[w] \in {"mark", "fail"} /\ item[w] \in Scheduled
  /\ status' = [status EXCEPT ![item[w]] =
                  IF @ # "pending" THEN @ ELSE IF pc[w] = "mark" THEN "applied" ELSE "failed"]
  /\ Goto(w, "idle")
  /\ UNCHANGED <<due, runs, early, queue, excuse, fires, faults>> /\ UNCHANGED flag

\* Wrong variant: an execution that was already counted is counted again.
RecordTwice(w) ==
  /\ pc[w] = "mark" /\ item[w] \in Triggers
  /\ runs' = [runs EXCEPT ![item[w]] = @ + 2]
  /\ Goto(w, "idle")
  /\ UNCHANGED <<status, due, early, queue, excuse, fires, faults>> /\ UNCHANGED flag

\* RecordFlagTriggerExecution; no row is left to count in once it was deleted.
RecordExecution(w) ==
  /\ pc[w] = "mark" /\ item[w] \in Triggers
  /\ runs' = [runs EXCEPT ![item[w]] = IF status[item[w]] = "deleted" THEN @ ELSE @ + 1]
  /\ Goto(w, "idle")
  /\ UNCHANGED <<status, due, early, queue, excuse, fires, faults>> /\ UNCHANGED flag

\* The marking statement fails: logged or returned, and nothing is undone.
MarkFails(w) ==
  /\ pc[w] \in {"mark", "fail", "reject"}
  /\ Fault
  /\ excuse' = Excused("unmarked", IF pc[w] = "mark" THEN {item[w]} ELSE {})
  /\ Goto(w, "idle")
  /\ UNCHANGED <<queue, fires>> /\ UNCHANGED rows /\ UNCHANGED flag

\* The process stops: the goroutine is gone, the statements it issued stay.
Stop(w) ==
  /\ pc[w] # "idle" \/ queue[w] # {}
  /\ Fault
  /\ excuse' = Excused("unmarked", IF pc[w] = "mark" THEN {item[w]} ELSE {})
  /\ Goto(w, "idle")
  /\ queue' = [queue EXCEPT ![w] = {}]
  /\ unread' = [unread EXCEPT ![w] = {}]
  /\ UNCHANGED <<exists, config, applied, overwritten, fires>> /\ UNCHANGED rows

\* DeleteFlag: its config rows go with it, the governance rows stay.
DeleteFlag ==
  /\ exists
  /\ Fault
  /\ exists' = FALSE
  /\ config' = Nothing
  /\ overwritten' = {}
  /\ UNCHANGED <<applied, unread, pc, item, seen, queue, excuse, fires>> /\ UNCHANGED rows
-----------------------------------------------------------------------------
Row ==
  \E c \in Changes :
    \/ Create(c) \/ Schedule(c) \/ TimePasses(c) \/ Cancel(c)
    \/ CreateTrigger(c) \/ DeleteTrigger(c)
    \/ \E on \in BOOLEAN : SetTriggerEnabled(c, on)

Begin(w, c) == Approve(w, c) \/ Reject(w, c) \/ Patch(w, c) \/ Put(w, c) \/ Fire(w, c)

\* What a goroutine that has taken a change up does by itself.
Proceed(w) ==
  \/ Read(w) \/ Save(w)
  \/ MarkApproved(w) \/ MarkRejected(w) \/ MarkScheduled(w) \/ RecordExecution(w)
  \/ (ApplyFails(w) /\ UNCHANGED faults)

Tick(w) == ListDue(w) \/ \E c \in Scheduled : TakeDue(w, c)

Next ==
  \/ Row
  \/ \E w \in Handlers : \E c \in Changes : Begin(w, c)
  \/ \E w \in Schedulers : Tick(w)
  \/ \E w \in Workers : Proceed(w) \/ ApplyFails(w) \/ SaveUnanswered(w)
                         \/ MarkFails(w) \/ Stop(w)
  \/ DeleteFlag

Spec == Init /\ [][Next]_vars

\* The ticker fires again and again, and a goroutine that runs goes on.
Fairness ==
  /\ \A w \in Workers : WF_vars(Proceed(w))
  /\ \A w \in Schedulers : WF_vars(Tick(w))

FairSpec == Spec /\ Fairness
-----------------------------------------------------------------------------
Marking(c) == {w \in Workers : pc[w] = "mark" /\ item[w] = c}

\* Completeness of the failure analysis: the row of a request or a scheduled
\* change tells the truth about the config (resolved positively exactly if its
\* instructions were written once, otherwise not at all) unless two workers
\* held the change at once, or the outcome of a write was lost before the mark.
StatusHonest ==
  \A c \in Requests \cup Scheduled : excuse[c] = {} =>
    /\ status[c] \in {"approved", "applied"} => applied[c] = 1
    /\ status[c] \in {"none", "rejected", "cancelled", "failed"} => applied[c] = 0
    /\ status[c] = "pending" => applied[c] = (IF Marking(c) = {} THEN 0 ELSE 1)

\* Completeness of the ways to lose an edit: a change that is not in the stored
\* config as often as it was written was dropped by a PUT, which replaces the
\* config, or by a worker that had read the config before the change was written
\* and wrote after it.  What other edits, failures and retries do meanwhile
\* never costs an edit.
EditsKept == exists => \A c \in Changes \ overwritten : config[c] = applied[c]

\* A scheduled change cancelled before its time is never applied ("cancellable
\* until then", README.md).
EarlyCancelHolds == \A c \in early : applied[c] = 0 /\ status[c] = "cancelled"

\* A scheduled change that was resolved is never resolved again, however many
\* schedulers work on it: the guards of the three UPDATE statements.
ScheduledFinal ==
  [][\A c \in Scheduled : status[c] \notin {"none", "pending"} => status'[c] = status[c]]_vars

\* A trigger's execution_count never exceeds the writes it caused, and a write
\* is uncounted only while its firing is under way or after one was lost.
RunsCounted ==
  \A c \in Triggers :
    /\ runs[c] <= applied[c]
    /\ "unmarked" \notin excuse[c] /\ status[c] # "deleted" =>
         applied[c] = runs[c] + Cardinality(Marking(c))

\* Every due change is resolved in the end, although batches are limited,
\* statements fail and processes stop.
DueResolved ==
  \A c \in Scheduled : (status[c] = "pending" /\ due[c]) ~> status[c] # "pending"

\* "Reject a change request without applying it" (internal/server/changes.go).
RejectedNotApplied == \A c \in Requests : status[c] = "rejected" => applied[c] = 0

-----------------------------------------------------------------------------
(***************************************************************************)
(* The parts of the inductive invariants (proofs: GovernanceProofs).       *)
(***************************************************************************)
\* A worker works on a change of the kind its step is for.
StepsFit ==
  \A w \in Workers :
    /\ pc[w] = "reject" => item[w] \in Requests
    /\ pc[w] = "fail" => item[w] \in Scheduled
    /\ pc[w] = "mark" => item[w] \notin Patches \cup Puts

\* What a worker has read is what it will replace, up to the changes that were
\* written since or that are lost already.
CopiesCurrent ==
  exists =>
    \A w \in Workers : pc[w] = "save" /\ item[w] \notin Puts =>
      \A c \in Changes \ (overwritten \cup unread[w]) : seen[w][c] = config[c]

\* A PUT starts from nothing.
PutsBlank == \A w \in Workers : pc[w] = "save" /\ item[w] \in Puts => seen[w] = Nothing

\* Only changes whose time has come are held or written.
HeldDue ==
  \A c \in Scheduled :
    /\ \A w \in Workers : Holds(w, c) => due[c]
    /\ applied[c] > 0 => due[c]

\* Nobody holds a change that was cancelled before its time.
EarlyFree == \A c \in early : \A w \in Workers : ~Holds(w, c)

\* A scheduler does not have the change in hand in its list as well.
TakenOnce == \A w \in Workers : pc[w] # "idle" => item[w] \notin queue[w]

\* A change without excuse is held by one worker at most; while it is held it
\* is pending, and written exactly once the worker is about to mark it.
Accounted ==
  \A c \in Requests \cup Scheduled : excuse[c] = {} =>
    /\ \A v, w \in Workers : Holds(v, c) /\ Holds(w, c) => v = w
    /\ \A w \in Workers : Holds(w, c) =>
         /\ status[c] = "pending"
         /\ applied[c] = (IF pc[w] = "mark" /\ item[w] = c THEN 1 ELSE 0)
    /\ (\A w \in Workers : ~Holds(w, c)) =>
         applied[c] = (IF status[c] \in {"approved", "applied"} THEN 1 ELSE 0)
=============================================================================
