-------------------------- MODULE GovernanceProofs --------------------------
(***************************************************************************)
(* Proofs about Governance, for every number of changes, request           *)
(* goroutines and schedulers and any number of faults.                     *)
(***************************************************************************)
EXTENDS Governance, FiniteSetTheorems, TLAPS

\* There is a change to initialise the workers' items with.
LEMMA AnyChangeType == AnyChange \in Changes
BY GovernanceAssumption DEF AnyChange

\* The initial state is well typed.
LEMMA InitType == Init => TypeOK
<1> SUFFICES ASSUME Init PROVE TypeOK
  OBVIOUS
<1>1. /\ due \in [Scheduled -> BOOLEAN] /\ exists \in BOOLEAN
      /\ unread \in [Workers -> SUBSET Changes] /\ overwritten \in SUBSET Changes
  BY DEF Init
<1>2. pc \in [Workers -> Steps] /\ item \in [Workers -> Changes]
  BY AnyChangeType DEF Init, Steps
<1>3. Nothing \in [Changes -> Nat]
  BY DEF Nothing
<1>4. seen \in [Workers -> [Changes -> Nat]] /\ queue \in [Workers -> SUBSET Scheduled]
  BY <1>3 DEF Init
<1>5. status \in [Changes -> Status] /\ excuse \in [Changes -> SUBSET Excuses]
  BY DEF Init, Status
<1> QED
  BY <1>1, <1>2, <1>3, <1>4, <1>5 DEF Init, TypeOK

\* Recording an excuse keeps the excuses well typed.
LEMMA ExcusedType ==
  ASSUME TypeOK, NEW x \in Excuses, NEW S
  PROVE  Excused(x, S) \in [Changes -> SUBSET Excuses]
BY DEF TypeOK, Excused

\* Every step keeps the types.
LEMMA TypeStep == TypeOK /\ [Next]_vars => TypeOK'
<1> SUFFICES ASSUME TypeOK, [Next]_vars PROVE TypeOK'
  OBVIOUS
<1> USE DEF Workers, Changes
<1>0. Fault => faults' \in Nat
  BY DEF Fault, TypeOK
<1>1. ASSUME NEW c \in Changes, NEW first \in Status, Insert(c, first) PROVE TypeOK'
  BY <1>1 DEF Insert, TypeOK, flag, Status
<1>2. ASSUME NEW c \in Changes, TimePasses(c) PROVE TypeOK'
  BY <1>2 DEF TimePasses, TypeOK, flag
<1>3. ASSUME NEW c \in Changes, Cancel(c) PROVE TypeOK'
  BY <1>3, ExcusedType DEF Cancel, TypeOK, flag, Status, Excuses
<1>4. ASSUME NEW c \in Changes, NEW on \in BOOLEAN, SetTriggerEnabled(c, on) \/ DeleteTrigger(c) PROVE TypeOK'
  BY <1>4 DEF SetTriggerEnabled, DeleteTrigger, TypeOK, flag, Status
<1>5. ASSUME NEW w \in Workers, NEW c \in Changes, NEW step \in Steps, Take(w, c, step),
             queue' \in [Workers -> SUBSET Scheduled], fires' \in Nat
      PROVE  TypeOK'
  BY <1>5, ExcusedType DEF Take, TypeOK, flag, rows, Excuses
<1>6. ASSUME NEW w \in Workers, NEW c \in Changes, Begin(w, c) PROVE TypeOK'
  <2>1. queue' \in [Workers -> SUBSET Scheduled] /\ fires' \in Nat
    BY <1>6 DEF Begin, Approve, Reject, Patch, Put, Fire, TypeOK
  <2>2. \E step \in Steps : Take(w, c, step)
    BY <1>6 DEF Begin, Approve, Reject, Patch, Put, Fire, Steps
  <2> QED
    BY <1>5, <2>1, <2>2
<1>7. ASSUME NEW w \in Workers, ListDue(w) PROVE TypeOK'
  <2>1. excuse' \in [Changes -> SUBSET Excuses]
    BY <1>7, ExcusedType DEF ListDue, Excuses
  <2>2. queue' \in [Workers -> SUBSET Scheduled]
    BY <1>7 DEF ListDue, TypeOK
  <2> QED
    BY <1>7, <2>1, <2>2 DEF ListDue, TypeOK, flag, rows
<1>8. ASSUME NEW w \in Workers, NEW c \in Scheduled, TakeDue(w, c) PROVE TypeOK'
  BY <1>5, <1>8 DEF TakeDue, TypeOK, Steps
<1>9. ASSUME NEW w \in Workers, Read(w) PROVE TypeOK'
  <2>1. (IF item[w] \in Puts THEN Nothing ELSE config) \in [Changes -> Nat]
    BY DEF TypeOK, Nothing
  <2> QED
    BY <1>9, <2>1 DEF Read, TypeOK, flag, rows, Steps
<1>10. ASSUME NEW w \in Workers, NEW step \in Steps, Goto(w, step)
       PROVE  /\ pc' \in [Workers -> Steps] /\ item' \in [Workers -> Changes]
              /\ seen' \in [Workers -> [Changes -> Nat]]
  BY <1>10, AnyChangeType DEF Goto, TypeOK, Nothing
<1>11. ASSUME NEW w \in Workers, Write(w)
       PROVE  /\ exists' \in BOOLEAN
              /\ config' \in [Changes -> Nat] /\ applied' \in [Changes -> Nat]
              /\ unread' \in [Workers -> SUBSET Changes] /\ overwritten' \in SUBSET Changes
  <2>1. Missed(w) \in [Workers -> SUBSET Changes] /\ Dropped(w) \in SUBSET Changes
    BY DEF Missed, Dropped, TypeOK
  <2> QED
    BY <1>11, <2>1 DEF Write, TypeOK
<1>12. ASSUME NEW w \in Workers, Save(w) PROVE TypeOK'
  <2>1. AfterSave(item[w]) \in Steps
    BY DEF AfterSave, Steps
  <2> QED
    BY <1>10, <1>11, <1>12, <2>1 DEF Save, TypeOK, rows
<1>13. ASSUME NEW w \in Workers, SaveUnanswered(w) PROVE TypeOK'
  <2>1. AfterFailure(item[w]) \in Steps
    BY DEF AfterFailure, Steps
  <2>2. excuse' \in [Changes -> SUBSET Excuses]
    BY <1>13, ExcusedType DEF SaveUnanswered, Excuses
  <2> QED
    BY <1>0, <1>10, <1>11, <1>13, <2>1, <2>2 DEF SaveUnanswered, TypeOK, rows
<1>14. ASSUME NEW w \in Workers, ApplyFails(w) PROVE TypeOK'
  <2>1. AfterFailure(item[w]) \in Steps
    BY DEF AfterFailure, Steps
  <2> QED
    BY <1>0, <1>10, <1>14, <2>1 DEF ApplyFails, TypeOK, rows, flag
<1>15. ASSUME NEW w \in Workers, MarkApproved(w) \/ MarkRejected(w) \/ MarkScheduled(w) PROVE TypeOK'
  <2>1. "idle" \in Steps
    BY DEF Steps
  <2> QED
    BY <1>10, <1>15, <2>1 DEF MarkApproved, MarkRejected, MarkScheduled, TypeOK, flag, Status
<1>16. ASSUME NEW w \in Workers, RecordExecution(w) PROVE TypeOK'
  <2>1. "idle" \in Steps
    BY DEF Steps
  <2> QED
    BY <1>10, <1>16, <2>1 DEF RecordExecution, TypeOK, flag
<1>17. ASSUME NEW w \in Workers, MarkFails(w) \/ Stop(w) PROVE TypeOK'
  <2>1. "idle" \in Steps
    BY DEF Steps
  <2>2. excuse' \in [Changes -> SUBSET Excuses]
    BY <1>17, ExcusedType DEF MarkFails, Stop, Excuses
  <2>3. queue' \in [Workers -> SUBSET Scheduled]
    BY <1>17 DEF MarkFails, Stop, TypeOK
  <2> QED
    BY <1>0, <1>10, <1>17, <2>1, <2>2, <2>3 DEF MarkFails, Stop, TypeOK, rows, flag
<1>18. ASSUME DeleteFlag PROVE TypeOK'
  <2>1. Nothing \in [Changes -> Nat]
    BY DEF Nothing
  <2> QED
    BY <1>0, <1>18, <2>1 DEF DeleteFlag, TypeOK, rows
<1>19. ASSUME UNCHANGED vars PROVE TypeOK'
  BY <1>19 DEF vars, TypeOK
<1>20. ASSUME Row PROVE TypeOK'
  BY <1>1, <1>2, <1>3, <1>4, <1>20 DEF Row, Create, Schedule, CreateTrigger, Status
<1>21. ASSUME NEW w \in Workers, Proceed(w) PROVE TypeOK'
  BY <1>9, <1>12, <1>14, <1>15, <1>16, <1>21 DEF Proceed
<1> QED
  BY <1>6, <1>7, <1>8, <1>13, <1>14, <1>17, <1>18, <1>19, <1>20, <1>21 DEF Next, Tick

\* The types of the governance rows, the workers and the config hold in every
\* reachable state.
THEOREM Typing == Spec => []TypeOK
<1>1. TypeOK /\ [Next]_vars => TypeOK'
  BY TypeStep
<1> QED
  BY InitType, <1>1, PTL DEF Spec
-----------------------------------------------------------------------------
(***************************************************************************)
(* What the steps do to the workers, stated once.                          *)
(***************************************************************************)
\* Goto moves one worker; an item is kept unless the worker becomes idle.
LEMMA GotoFacts ==
  ASSUME TypeOK, NEW w \in Workers, NEW step, Goto(w, step)
  PROVE  /\ pc'[w] = step
         /\ step # "idle" => item'[w] = item[w]
         /\ \A v \in Workers \ {w} : pc'[v] = pc[v] /\ item'[v] = item[v] /\ seen'[v] = seen[v]
BY DEF Goto, TypeOK

\* Take gives one worker a change.
LEMMA TakeFacts ==
  ASSUME TypeOK, NEW w \in Workers, NEW c \in Changes, NEW step, Take(w, c, step)
  PROVE  /\ pc[w] = "idle" /\ pc'[w] = step /\ item'[w] = c
         /\ \A v \in Workers \ {w} : pc'[v] = pc[v] /\ item'[v] = item[v]
BY DEF Take, TypeOK

\* The steps of the rows, and the deletion of the flag, leave the workers alone.
LEMMA RowFrame == Row \/ DeleteFlag => UNCHANGED <<pc, item, seen, queue>>
BY DEF Row, Create, Schedule, CreateTrigger, Insert, TimePasses, Cancel, SetTriggerEnabled,
   DeleteTrigger, DeleteFlag

\* The steps that end a worker's hold on its change.
Ends(w) == MarkApproved(w) \/ MarkRejected(w) \/ MarkScheduled(w) \/ RecordExecution(w)
           \/ MarkFails(w) \/ Stop(w)

\* Every step is one of these.
LEMMA NextCases ==
  ASSUME Next
  PROVE  \/ Row \/ DeleteFlag
         \/ \E w \in Workers, c \in Changes : Begin(w, c)
         \/ \E w \in Schedulers : ListDue(w)
         \/ \E w \in Schedulers, c \in Scheduled : TakeDue(w, c)
         \/ \E w \in Workers : Read(w) \/ Save(w) \/ SaveUnanswered(w) \/ ApplyFails(w) \/ Ends(w)
BY DEF Next, Workers, Tick, Proceed, Ends
-----------------------------------------------------------------------------
\* Every step leaves each worker with a change of the kind its step is for.
LEMMA FitStep == TypeOK /\ StepsFit /\ [Next]_vars => StepsFit'
<1> SUFFICES ASSUME TypeOK, StepsFit, [Next]_vars, NEW v \in Workers
             PROVE  /\ pc'[v] = "reject" => item'[v] \in Requests
                    /\ pc'[v] = "fail" => item'[v] \in Scheduled
                    /\ pc'[v] = "mark" => item'[v] \notin Patches \cup Puts
  BY DEF StepsFit
<1> DEFINE Goal == /\ pc'[v] = "reject" => item'[v] \in Requests
                   /\ pc'[v] = "fail" => item'[v] \in Scheduled
                   /\ pc'[v] = "mark" => item'[v] \notin Patches \cup Puts
<1>0. ASSUME UNCHANGED <<pc, item>> PROVE Goal
  BY <1>0 DEF StepsFit
<1>1. ASSUME NEW w \in Workers, NEW c \in Changes, Begin(w, c) PROVE Goal
  <2>1. Take(w, c, "read") \/ (Take(w, c, "reject") /\ c \in Requests)
    BY <1>1 DEF Begin, Approve, Reject, Patch, Put, Fire
  <2> QED
    BY <2>1, TakeFacts DEF StepsFit
<1>2. ASSUME NEW w \in Schedulers, NEW c \in Scheduled, TakeDue(w, c) PROVE Goal
  BY <1>2, TakeFacts DEF TakeDue, StepsFit, Workers, Changes
<1>3. ASSUME NEW w \in Workers, Read(w) PROVE Goal
  BY <1>3 DEF Read, StepsFit, TypeOK
<1>4. ASSUME NEW w \in Workers, Save(w) PROVE Goal
  BY <1>4, GotoFacts DEF Save, AfterSave, StepsFit
<1>5. ASSUME NEW w \in Workers, SaveUnanswered(w) \/ ApplyFails(w) PROVE Goal
  BY <1>5, GotoFacts DEF SaveUnanswered, ApplyFails, AfterFailure, StepsFit
<1>6. ASSUME NEW w \in Workers, Ends(w) PROVE Goal
  <2>1. Goto(w, "idle")
    BY <1>6 DEF Ends, MarkApproved, MarkRejected, MarkScheduled, RecordExecution, MarkFails, Stop
  <2> QED
    BY <2>1, GotoFacts DEF StepsFit
<1>7. ASSUME Row \/ DeleteFlag \/ (\E w \in Schedulers : ListDue(w)) \/ UNCHANGED vars PROVE Goal
  BY <1>0, <1>7, RowFrame DEF ListDue, vars
<1> QED
  BY <1>1, <1>2, <1>3, <1>4, <1>5, <1>6, <1>7, NextCases DEF Goal
-----------------------------------------------------------------------------
(***************************************************************************)
(* EditsKept: the copy a worker has read agrees with the config it will    *)
(* replace in every change that was not written since it read; the write   *)
(* drops those that were, and puts the others back with one edit more.     *)
(***************************************************************************)
Kept == EditsKept /\ CopiesCurrent /\ PutsBlank

\* What a write leaves of the changes that it does not drop.
LEMMA WrittenKept ==
  ASSUME TypeOK, Kept, NEW w \in Workers, pc[w] = "save", exists, Write(w),
         NEW c \in Changes, c \notin overwritten'
  PROVE  /\ seen[w][c] = config[c] /\ config[c] = applied[c]
         /\ config'[c] = applied'[c]
<1>1. c \notin overwritten /\ c \notin Dropped(w)
  BY DEF Write, TypeOK
<1>2. config[c] = applied[c] /\ applied[c] \in Nat
  BY <1>1 DEF Kept, EditsKept, TypeOK
<1>3. seen[w][c] = config[c]
  <2>1. CASE item[w] \in Puts
    <3>1. applied[c] = 0
      BY <1>1, <1>2, <2>1 DEF Dropped
    <3> QED
      BY <1>2, <2>1, <3>1 DEF Kept, PutsBlank, Nothing
  <2>2. CASE item[w] \notin Puts
    BY <1>1, <2>2 DEF Dropped, Kept, CopiesCurrent
  <2> QED
    BY <2>1, <2>2
<1>4. config'[c] = applied'[c]
  BY <1>2, <1>3 DEF Write, TypeOK
<1> QED
  BY <1>2, <1>3, <1>4

\* Writing keeps the edits it does not drop, and the other copies current up to it.
LEMMA WriteKept ==
  ASSUME TypeOK, Kept, NEW w \in Workers, pc[w] = "save", exists, Write(w), NEW step, Goto(w, step),
         step # "save"
  PROVE  Kept'
<1>1. EditsKept'
  BY WrittenKept DEF EditsKept
<1>2. ASSUME NEW v \in Workers, pc'[v] = "save", item'[v] \notin Puts,
             NEW c \in Changes, c \notin overwritten', c \notin unread'[v]
      PROVE  seen'[v][c] = config'[c]
  <2>1. v # w /\ pc[v] = "save" /\ item[v] \notin Puts /\ seen'[v] = seen[v]
    BY <1>2, GotoFacts
  <2>2. c \notin unread[v] /\ c # item[w]
    BY <1>2, <2>1 DEF Write, Missed
  <2>3. c \notin overwritten
    BY <1>2 DEF Write, TypeOK
  <2>4. seen[v][c] = config[c]
    BY <2>1, <2>2, <2>3 DEF Kept, CopiesCurrent
  <2>5. config'[c] = seen[w][c]
    BY <2>2 DEF Write, TypeOK
  <2> QED
    BY <1>2, <2>1, <2>4, <2>5, WrittenKept
<1>3. CopiesCurrent'
  BY <1>2 DEF CopiesCurrent
<1>4. PutsBlank'
  BY GotoFacts DEF Kept, PutsBlank, Nothing
<1> QED
  BY <1>1, <1>3, <1>4 DEF Kept

\* Every step keeps the edits.
LEMMA KeptStep == TypeOK /\ Kept /\ [Next]_vars => Kept'
<1> SUFFICES ASSUME TypeOK, Kept, [Next]_vars PROVE Kept'
  OBVIOUS
<1>0. ASSUME UNCHANGED <<exists, config, applied, overwritten>>,
             \A v \in Workers : pc'[v] = "save" =>
               pc[v] = "save" /\ item'[v] = item[v] /\ seen'[v] = seen[v] /\ unread'[v] = unread[v]
      PROVE  Kept'
  <2>1. EditsKept'
    BY <1>0 DEF Kept, EditsKept
  <2>2. CopiesCurrent'
    BY <1>0 DEF Kept, CopiesCurrent
  <2>3. PutsBlank'
    BY <1>0 DEF Kept, PutsBlank, Nothing
  <2> QED
    BY <2>1, <2>2, <2>3 DEF Kept
<1>1. ASSUME NEW w \in Workers, NEW c \in Changes, Begin(w, c) PROVE Kept'
  <2>1. PICK step \in {"read", "reject"} : Take(w, c, step)
    BY <1>1 DEF Begin, Approve, Reject, Patch, Put, Fire
  <2>2. UNCHANGED flag /\ UNCHANGED seen
    BY <2>1 DEF Take
  <2> QED
    BY <1>0, <2>1, <2>2, TakeFacts DEF flag
<1>2. ASSUME NEW w \in Schedulers, NEW c \in Scheduled, TakeDue(w, c) PROVE Kept'
  <2>1. Take(w, c, "read") /\ w \in Workers /\ c \in Changes
    BY <1>2 DEF TakeDue, Workers, Changes
  <2>2. UNCHANGED flag /\ UNCHANGED seen
    BY <2>1 DEF Take
  <2> QED
    BY <1>0, <2>1, <2>2, TakeFacts DEF flag
<1>3. ASSUME NEW w \in Workers, Read(w) PROVE Kept'
  <2>1. \A v \in Workers \ {w} : pc'[v] = pc[v] /\ seen'[v] = seen[v]
    BY <1>3 DEF Read, TypeOK
  <2>2. seen'[w] = IF item[w] \in Puts THEN Nothing ELSE config
    BY <1>3 DEF Read, TypeOK
  <2>3. UNCHANGED <<exists, config, applied, overwritten, unread, item>>
    BY <1>3 DEF Read, flag
  <2>4. EditsKept'
    BY <2>3 DEF Kept, EditsKept
  <2>5. CopiesCurrent'
    BY <2>1, <2>2, <2>3 DEF Kept, CopiesCurrent
  <2>6. PutsBlank'
    BY <2>1, <2>2, <2>3 DEF Kept, PutsBlank, Nothing
  <2> QED
    BY <2>4, <2>5, <2>6 DEF Kept
<1>4. ASSUME NEW w \in Workers, Save(w) PROVE Kept'
  <2>1. AfterSave(item[w]) # "save"
    BY DEF AfterSave
  <2> QED
    BY <1>4, <2>1, WriteKept DEF Save
<1>5. ASSUME NEW w \in Workers, SaveUnanswered(w) PROVE Kept'
  <2>1. AfterFailure(item[w]) # "save"
    BY DEF AfterFailure
  <2> QED
    BY <1>5, <2>1, WriteKept DEF SaveUnanswered
<1>6. ASSUME NEW w \in Workers, ApplyFails(w) \/ Ends(w) PROVE Kept'
  <2>1. PICK step \in {"fail", "idle"} : Goto(w, step)
    BY <1>6 DEF ApplyFails, AfterFailure, Ends, MarkApproved, MarkRejected, MarkScheduled,
                RecordExecution, MarkFails, Stop
  <2>2. UNCHANGED <<exists, config, applied, overwritten>>
    BY <1>6 DEF ApplyFails, Ends, MarkApproved, MarkRejected, MarkScheduled,
                RecordExecution, MarkFails, Stop, flag
  <2>3. \A v \in Workers \ {w} : unread'[v] = unread[v]
    BY <1>6 DEF ApplyFails, Ends, MarkApproved, MarkRejected, MarkScheduled,
                RecordExecution, MarkFails, Stop, flag, TypeOK
  <2> QED
    BY <1>0, <2>1, <2>2, <2>3, GotoFacts
<1>7. ASSUME DeleteFlag PROVE Kept'
  BY <1>7 DEF DeleteFlag, Kept, EditsKept, CopiesCurrent, PutsBlank, Nothing
<1>8. ASSUME Row \/ (\E w \in Schedulers : ListDue(w)) \/ UNCHANGED vars PROVE Kept'
  <2>1. UNCHANGED flag /\ UNCHANGED <<pc, item, seen>>
    BY <1>8, RowFrame DEF ListDue, vars, flag, Row, Create, Schedule, CreateTrigger, Insert,
       TimePasses, Cancel, SetTriggerEnabled, DeleteTrigger
  <2> QED
    BY <1>0, <2>1 DEF flag
<1> QED
  BY <1>1, <1>2, <1>3, <1>4, <1>5, <1>6, <1>7, <1>8, NextCases

\* The ways an edit of the stored config can get lost are complete: a change
\* that is not in it as often as PatchFlagConfig or SaveFlagConfig wrote it was
\* in the config a PUT replaced, or was written between the read and the write
\* of a worker; every other interleaving, failure, retry and stop keeps it.
THEOREM EditLossesExplained == Spec => []EditsKept
<1>1. Init => Kept
  BY DEF Init, Kept, EditsKept, CopiesCurrent, PutsBlank
<1>2. TypeOK /\ Kept /\ [Next]_vars => Kept'
  BY KeptStep
<1>3. Kept => EditsKept
  BY DEF Kept
<1> QED
  BY <1>1, <1>2, <1>3, Typing, PTL DEF Spec
-----------------------------------------------------------------------------
(***************************************************************************)
(* Who holds what.                                                         *)
(***************************************************************************)
\* A worker that goes on with its change takes no other one up.
LEMMA HoldsGoto ==
  ASSUME TypeOK, NEW w \in Workers, NEW step, Goto(w, step), pc[w] # "idle" \/ step = "idle",
         \A v \in Workers : queue'[v] \subseteq queue[v]
  PROVE  \A v \in Workers, d \in Changes : Holds(v, d)' => Holds(v, d)
<1> SUFFICES ASSUME NEW v \in Workers, NEW d \in Changes, Holds(v, d)' PROVE Holds(v, d)
  OBVIOUS
<1>1. CASE v = w
  BY <1>1, GotoFacts DEF Holds
<1>2. CASE v # w
  BY <1>2, GotoFacts DEF Holds
<1> QED
  BY <1>1, <1>2

\* A worker that takes a change up holds nothing else that it did not hold.
LEMMA HoldsTake ==
  ASSUME TypeOK, NEW w \in Workers, NEW c \in Changes, NEW step, Take(w, c, step),
         \A v \in Workers : queue'[v] \subseteq queue[v]
  PROVE  \A v \in Workers, d \in Changes : Holds(v, d)' => Holds(v, d) \/ (v = w /\ d = c)
<1> SUFFICES ASSUME NEW v \in Workers, NEW d \in Changes, Holds(v, d)'
             PROVE  Holds(v, d) \/ (v = w /\ d = c)
  OBVIOUS
<1>1. CASE v = w
  BY <1>1, TakeFacts DEF Holds
<1>2. CASE v # w
  BY <1>2, TakeFacts DEF Holds
<1> QED
  BY <1>1, <1>2

\* The steps that go on with a change, or end it, take no other one up.
LEMMA HoldsProceed ==
  ASSUME TypeOK, NEW w \in Workers,
         Read(w) \/ Save(w) \/ SaveUnanswered(w) \/ ApplyFails(w) \/ Ends(w)
  PROVE  \A v \in Workers, d \in Changes : Holds(v, d)' => Holds(v, d)
<1>1. CASE Read(w)
  BY <1>1 DEF Read, Holds, TypeOK
<1>2. CASE Save(w) \/ SaveUnanswered(w) \/ ApplyFails(w)
  <2>1. UNCHANGED queue /\ pc[w] # "idle" /\ \E step : Goto(w, step)
    BY <1>2 DEF Save, SaveUnanswered, ApplyFails
  <2> QED
    BY <2>1, HoldsGoto
<1>3. CASE Ends(w)
  <2>1. Goto(w, "idle")
    BY <1>3 DEF Ends, MarkApproved, MarkRejected, MarkScheduled, RecordExecution, MarkFails, Stop
  <2>2. \A v \in Workers : queue'[v] \subseteq queue[v]
    BY <1>3 DEF Ends, MarkApproved, MarkRejected, MarkScheduled, RecordExecution, MarkFails, Stop, TypeOK
  <2> QED
    BY <2>1, <2>2, HoldsGoto
<1> QED
  BY <1>1, <1>2, <1>3
-----------------------------------------------------------------------------
(***************************************************************************)
(* EarlyCancelHolds: only due changes are listed, so one that is cancelled *)
(* before its time is in nobody's hands.                                   *)
(***************************************************************************)
EarlyInv == HeldDue /\ EarlyFree /\ EarlyCancelHolds

\* A step after which nobody holds more, and nothing else changes for the
\* scheduled changes, keeps the invariant.
LEMMA EarlyKept ==
  ASSUME TypeOK, EarlyInv, UNCHANGED <<due, early>>,
         \A v \in Workers, d \in Scheduled : Holds(v, d)' => Holds(v, d),
         \A d \in Scheduled : applied'[d] = applied[d]
                              \/ (\E v \in Workers : Holds(v, d)),
         \A d \in Scheduled : status'[d] = status[d] \/ status[d] # "cancelled"
  PROVE  EarlyInv'
<1>1. HeldDue'
  BY DEF EarlyInv, HeldDue
<1>2. EarlyFree'
  BY DEF EarlyInv, EarlyFree, TypeOK
<1>3. EarlyCancelHolds'
  BY DEF EarlyInv, EarlyFree, EarlyCancelHolds, TypeOK
<1> QED
  BY <1>1, <1>2, <1>3 DEF EarlyInv

\* Every step keeps it.
LEMMA EarlyStep == TypeOK /\ StepsFit /\ EarlyInv /\ [Next]_vars => EarlyInv'
<1> SUFFICES ASSUME TypeOK, StepsFit, EarlyInv, [Next]_vars PROVE EarlyInv'
  OBVIOUS
<1>1. ASSUME NEW c \in Changes, NEW on \in BOOLEAN,
             Create(c) \/ Schedule(c) \/ CreateTrigger(c) \/ SetTriggerEnabled(c, on) \/ DeleteTrigger(c)
      PROVE  EarlyInv'
  <2>1. /\ UNCHANGED <<due, early, pc, item, queue, applied>> /\ status[c] # "cancelled"
        /\ \E x : status' = [status EXCEPT ![c] = x]
    BY <1>1 DEF Create, Schedule, CreateTrigger, Insert, SetTriggerEnabled, DeleteTrigger, flag
  <2> QED
    BY <2>1, EarlyKept DEF Holds, TypeOK, Changes
<1>2. ASSUME NEW c \in Changes, TimePasses(c) PROVE EarlyInv'
  <2>1. \A d \in Scheduled : due[d] => due'[d]
    BY <1>2 DEF TimePasses, TypeOK
  <2> QED
    BY <1>2, <2>1 DEF TimePasses, EarlyInv, HeldDue, EarlyFree, EarlyCancelHolds, Holds, flag
<1>3. ASSUME NEW c \in Changes, Cancel(c) PROVE EarlyInv'
  <2>1. HeldDue'
    BY <1>3 DEF Cancel, EarlyInv, HeldDue, Holds, flag
  <2>2. c \in early' => c \in early \/ (~due[c] /\ applied[c] = 0 /\ \A w \in Workers : ~Holds(w, c))
    BY <1>3 DEF Cancel, EarlyInv, HeldDue, TypeOK, Changes
  <2>3. EarlyFree'
    BY <1>3, <2>2 DEF Cancel, EarlyInv, EarlyFree, Holds
  <2>4. EarlyCancelHolds'
    BY <1>3, <2>2 DEF Cancel, EarlyInv, EarlyCancelHolds, TypeOK, flag
  <2> QED
    BY <2>1, <2>3, <2>4 DEF EarlyInv
<1>4. ASSUME NEW w \in Workers, NEW c \in Changes, Begin(w, c) PROVE EarlyInv'
  <2>1. c \notin Scheduled /\ UNCHANGED queue /\ \E step : Take(w, c, step)
    BY <1>4, GovernanceAssumption DEF Begin, Approve, Reject, Patch, Put, Fire
  <2>2. \A v \in Workers, d \in Scheduled : Holds(v, d)' => Holds(v, d)
    BY <2>1, HoldsTake DEF Changes
  <2>3. UNCHANGED <<due, early, applied, status>>
    BY <2>1 DEF Take, rows, flag
  <2> QED
    BY <2>2, <2>3, EarlyKept
<1>5. ASSUME NEW w \in Schedulers, ListDue(w) PROVE EarlyInv'
  <2>1. \A d \in queue'[w] : d \in Scheduled /\ status[d] = "pending" /\ due[d]
    BY <1>5 DEF ListDue, TypeOK, Workers
  <2>2. \A v \in Workers, d \in Scheduled : Holds(v, d)' => Holds(v, d) \/ (status[d] = "pending" /\ due[d])
    BY <1>5, <2>1 DEF ListDue, Holds, TypeOK, Workers
  <2>3. UNCHANGED <<due, early, applied, status>>
    BY <1>5 DEF ListDue, rows, flag
  <2> QED
    BY <2>2, <2>3 DEF EarlyInv, HeldDue, EarlyFree, EarlyCancelHolds, TypeOK
<1>6. ASSUME NEW w \in Schedulers, NEW c \in Scheduled, TakeDue(w, c) PROVE EarlyInv'
  <2>1. w \in Workers /\ c \in Changes /\ Holds(w, c) /\ Take(w, c, "read")
    BY <1>6 DEF TakeDue, Holds, Workers, Changes
  <2>2. \A v \in Workers : queue'[v] \subseteq queue[v]
    BY <1>6 DEF TakeDue, TypeOK
  <2>3. \A v \in Workers, d \in Scheduled : Holds(v, d)' => Holds(v, d)
    BY <2>1, <2>2, HoldsTake DEF Changes
  <2>4. UNCHANGED <<due, early, applied, status>>
    BY <2>1 DEF Take, rows, flag
  <2> QED
    BY <2>3, <2>4, EarlyKept
<1>7. ASSUME NEW w \in Workers,
             Read(w) \/ Save(w) \/ SaveUnanswered(w) \/ ApplyFails(w) \/ Ends(w)
      PROVE  EarlyInv'
  <2>1. \A v \in Workers, d \in Scheduled : Holds(v, d)' => Holds(v, d)
    BY <1>7, HoldsProceed DEF Changes
  <2>2. UNCHANGED <<due, early>>
    BY <1>7 DEF Read, Save, SaveUnanswered, ApplyFails, Ends, MarkApproved, MarkRejected,
       MarkScheduled, RecordExecution, MarkFails, Stop, rows
  <2>3. \A d \in Scheduled : applied'[d] = applied[d] \/ Holds(w, d)
    <3>1. CASE Save(w) \/ SaveUnanswered(w)
      <4>1. pc[w] = "save" /\ Write(w)
        BY <3>1 DEF Save, SaveUnanswered
      <4>2. \A d \in Changes : d # item[w] => applied'[d] = applied[d]
        BY <4>1 DEF Write, TypeOK
      <4>3. Holds(w, item[w])
        BY <4>1 DEF Holds
      <4> QED
        BY <4>2, <4>3 DEF Changes
    <3>2. CASE Read(w) \/ ApplyFails(w) \/ Ends(w)
      BY <3>2 DEF Read, ApplyFails, Ends, MarkApproved, MarkRejected,
         MarkScheduled, RecordExecution, MarkFails, Stop, flag
    <3> QED
      BY <1>7, <3>1, <3>2
  <2>4. \A d \in Scheduled : status'[d] = status[d] \/ status[d] # "cancelled"
    <3>1. CASE MarkApproved(w) \/ MarkRejected(w)
      <4>1. item[w] \in Requests /\ \E x : status' = [status EXCEPT ![item[w]] = x]
        BY <3>1 DEF MarkApproved, MarkRejected, StepsFit
      <4> QED
        BY <4>1, GovernanceAssumption DEF TypeOK
    <3>2. CASE MarkScheduled(w)
      BY <3>2 DEF MarkScheduled, TypeOK
    <3>3. CASE UNCHANGED status
      BY <3>3
    <3> QED
      BY <1>7, <3>1, <3>2, <3>3 DEF Read, Save, SaveUnanswered, ApplyFails, Ends,
         RecordExecution, MarkFails, Stop, rows
  <2> QED
    BY <2>1, <2>2, <2>3, <2>4, EarlyKept
<1>8. ASSUME DeleteFlag \/ UNCHANGED vars PROVE EarlyInv'
  <2>1. UNCHANGED <<due, early, applied, status, pc, item, queue>>
    BY <1>8 DEF DeleteFlag, rows, vars
  <2> QED
    BY <2>1, EarlyKept DEF Holds
<1>9. ASSUME Row PROVE EarlyInv'
  BY <1>1, <1>2, <1>3, <1>9 DEF Row
<1> QED
  BY <1>4, <1>5, <1>6, <1>7, <1>8, <1>9, NextCases

\* A scheduled change cancelled before its time is never applied, whatever the
\* schedulers of all replicas do ("cancellable until then").
THEOREM EarlyCancelEffective == Spec => []EarlyCancelHolds
<1>1. Init => StepsFit /\ EarlyInv
  BY DEF Init, StepsFit, EarlyInv, HeldDue, EarlyFree, EarlyCancelHolds, Holds, Nothing, Changes
<1>2. TypeOK /\ StepsFit /\ [Next]_vars => StepsFit'
  BY FitStep
<1>3. TypeOK /\ StepsFit /\ EarlyInv /\ [Next]_vars => EarlyInv'
  BY EarlyStep
<1>4. EarlyInv => EarlyCancelHolds
  BY DEF EarlyInv
<1> QED
  BY <1>1, <1>2, <1>3, <1>4, Typing, PTL DEF Spec
-----------------------------------------------------------------------------
(***************************************************************************)
(* StatusHonest.                                                           *)
(***************************************************************************)
\* Worker w has written change c and is about to mark it.
Marks(w, c) == pc[w] = "mark" /\ item[w] = c

\* Accounted, for one change.
Acc(c) ==
  excuse[c] = {} =>
    /\ \A v, w \in Workers : Holds(v, c) /\ Holds(w, c) => v = w
    /\ \A w \in Workers : Holds(w, c) =>
         status[c] = "pending" /\ applied[c] = (IF Marks(w, c) THEN 1 ELSE 0)
    /\ (\A w \in Workers : ~Holds(w, c)) =>
         applied[c] = (IF status[c] \in {"approved", "applied"} THEN 1 ELSE 0)

\* A step that changes nothing about a change keeps its account.
LEMMA AccSame ==
  ASSUME NEW c, Acc(c), excuse'[c] = {} => excuse[c] = {},
         status'[c] = status[c], applied'[c] = applied[c],
         \A v \in Workers : (Holds(v, c)' <=> Holds(v, c)) /\ (Marks(v, c)' <=> Marks(v, c))
  PROVE  Acc(c)'
<1> SUFFICES ASSUME excuse'[c] = {}
             PROVE  /\ \A v, w \in Workers : Holds(v, c)' /\ Holds(w, c)' => v = w
                    /\ \A w \in Workers : Holds(w, c)' =>
                         status'[c] = "pending" /\ applied'[c] = (IF Marks(w, c)' THEN 1 ELSE 0)
                    /\ (\A w \in Workers : ~Holds(w, c)') =>
                         applied'[c] = (IF status'[c] \in {"approved", "applied"} THEN 1 ELSE 0)
  BY DEF Acc
<1> QED
  BY DEF Acc

\* A step in which the one holder lets go keeps the account if the row then
\* says what the holder had done.
LEMMA AccReleased ==
  ASSUME NEW c, Acc(c), excuse'[c] = {} => excuse[c] = {}, NEW w \in Workers, Holds(w, c),
         ~Holds(w, c)', \A v \in Workers : Holds(v, c)' => Holds(v, c),
         applied'[c] = applied[c],
         excuse'[c] = {} => (status'[c] \in {"approved", "applied"} <=> Marks(w, c))
  PROVE  Acc(c)'
<1> SUFFICES ASSUME excuse'[c] = {}
             PROVE  /\ \A v \in Workers : ~Holds(v, c)'
                    /\ applied'[c] = (IF status'[c] \in {"approved", "applied"} THEN 1 ELSE 0)
  BY DEF Acc
<1>1. \A v \in Workers : ~Holds(v, c)'
  BY DEF Acc
<1>2. applied'[c] = (IF status'[c] \in {"approved", "applied"} THEN 1 ELSE 0)
  BY DEF Acc
<1> QED
  BY <1>1, <1>2

\* Going on with one change is nothing to the others.
LEMMA GotoOthers ==
  ASSUME TypeOK, NEW w \in Workers, NEW step, Goto(w, step), pc[w] # "idle", UNCHANGED queue,
         NEW c, item[w] # c
  PROVE  \A v \in Workers : (Holds(v, c)' <=> Holds(v, c)) /\ (Marks(v, c)' <=> Marks(v, c))
<1> TAKE v \in Workers
<1>1. CASE v = w
  BY <1>1, GotoFacts DEF Holds, Marks
<1>2. CASE v # w
  BY <1>2, GotoFacts DEF Holds, Marks
<1> QED
  BY <1>1, <1>2

\* Nor is taking one up.
LEMMA TakeOthers ==
  ASSUME TypeOK, NEW w \in Workers, NEW d \in Changes, NEW step, Take(w, d, step),
         NEW c, c # d, \A v \in Workers : c \in queue'[v] <=> c \in queue[v]
  PROVE  \A v \in Workers : (Holds(v, c)' <=> Holds(v, c)) /\ (Marks(v, c)' <=> Marks(v, c))
<1> TAKE v \in Workers
<1>1. CASE v = w
  BY <1>1, TakeFacts DEF Holds, Marks
<1>2. CASE v # w
  BY <1>2, TakeFacts DEF Holds, Marks
<1> QED
  BY <1>1, <1>2

\* Excuses are never taken back.
LEMMA ExcusedGrows ==
  ASSUME NEW x, NEW S, NEW c \in Changes
  PROVE  /\ Excused(x, S)[c] = {} => excuse[c] = {}
         /\ c \in S => Excused(x, S)[c] # {}
BY DEF Excused

\* No step puts the change in hand back into the list.
LEMMA TakenStep == TypeOK /\ TakenOnce /\ [Next]_vars => TakenOnce'
<1> SUFFICES ASSUME TypeOK, TakenOnce, [Next]_vars, NEW v \in Workers, pc'[v] # "idle"
             PROVE  item'[v] \notin queue'[v]
  BY DEF TakenOnce
<1>1. ASSUME NEW w \in Workers, NEW c \in Changes, Begin(w, c) PROVE item'[v] \notin queue'[v]
  <2>1. c \notin Scheduled /\ UNCHANGED queue /\ \E step : Take(w, c, step)
    BY <1>1, GovernanceAssumption DEF Begin, Approve, Reject, Patch, Put, Fire
  <2>2. queue[v] \subseteq Scheduled
    BY DEF TypeOK
  <2> QED
    BY <2>1, <2>2, TakeFacts DEF TakenOnce
<1>2. ASSUME NEW w \in Schedulers, ListDue(w) PROVE item'[v] \notin queue'[v]
  <2>1. UNCHANGED <<pc, item>> /\ pc[w] = "idle" /\ \A u \in Workers \ {w} : queue'[u] = queue[u]
    BY <1>2 DEF ListDue, TypeOK, Workers
  <2> QED
    BY <2>1 DEF TakenOnce
<1>3. ASSUME NEW w \in Schedulers, NEW c \in Scheduled, TakeDue(w, c) PROVE item'[v] \notin queue'[v]
  <2>1. w \in Workers /\ c \in Changes /\ Take(w, c, "read")
    BY <1>3 DEF TakeDue, Workers, Changes
  <2>2. c \notin queue'[w] /\ \A u \in Workers \ {w} : queue'[u] = queue[u]
    BY <1>3, <2>1 DEF TakeDue, TypeOK
  <2> QED
    BY <2>1, <2>2, TakeFacts DEF TakenOnce
<1>4. ASSUME NEW w \in Workers, Read(w) PROVE item'[v] \notin queue'[v]
  BY <1>4 DEF Read, TakenOnce, TypeOK
<1>5. ASSUME NEW w \in Workers, Save(w) \/ SaveUnanswered(w) \/ ApplyFails(w) \/ Ends(w)
      PROVE  item'[v] \notin queue'[v]
  <2>1. (pc[w] # "idle" /\ \E step : Goto(w, step)) \/ Goto(w, "idle")
    BY <1>5 DEF Save, SaveUnanswered, ApplyFails, Ends, MarkApproved, MarkRejected, MarkScheduled,
       RecordExecution, MarkFails, Stop
  <2>2. queue'[v] \subseteq queue[v]
    BY <1>5 DEF Save, SaveUnanswered, ApplyFails, Ends, MarkApproved, MarkRejected, MarkScheduled,
       RecordExecution, MarkFails, Stop, TypeOK
  <2> QED
    BY <2>1, <2>2, GotoFacts DEF TakenOnce
<1>6. ASSUME Row \/ DeleteFlag \/ UNCHANGED vars PROVE item'[v] \notin queue'[v]
  BY <1>6, RowFrame DEF vars, TakenOnce
<1> QED
  BY <1>1, <1>2, <1>3, <1>4, <1>5, <1>6, NextCases

\* The rows' own statements keep the accounts.
LEMMA RowAcc ==
  ASSUME TypeOK, NEW c \in Requests \cup Scheduled, Acc(c), Row
  PROVE  Acc(c)'
<1> c \in Changes
  BY DEF Changes
<1>0. UNCHANGED <<pc, item, queue, applied>>
  BY DEF Row, Create, Schedule, CreateTrigger, Insert, TimePasses, Cancel, SetTriggerEnabled,
     DeleteTrigger, flag
<1>1. \A v \in Workers : (Holds(v, c)' <=> Holds(v, c)) /\ (Marks(v, c)' <=> Marks(v, c))
  BY <1>0 DEF Holds, Marks
<1>2. ASSUME UNCHANGED excuse, status'[c] = status[c] PROVE Acc(c)'
  BY <1>0, <1>1, <1>2, AccSame
<1>3. ASSUME NEW d \in Changes, Create(d) \/ Schedule(d) PROVE Acc(c)'
  <2>1. UNCHANGED excuse /\ status[d] = "none" /\ status' = [status EXCEPT ![d] = "pending"]
    BY <1>3 DEF Create, Schedule, Insert
  <2>2. CASE d # c
    BY <1>2, <2>1, <2>2 DEF TypeOK
  <2>3. CASE d = c
    <3>1. status'[c] = "pending" /\ status[c] = "none"
      BY <2>1, <2>3 DEF TypeOK
    <3> QED
      BY <1>0, <1>1, <2>1, <3>1 DEF Acc
  <2> QED
    BY <2>2, <2>3
<1>4. ASSUME NEW d \in Changes, NEW on \in BOOLEAN,
             CreateTrigger(d) \/ SetTriggerEnabled(d, on) \/ DeleteTrigger(d)
      PROVE  Acc(c)'
  <2>1. UNCHANGED excuse /\ d # c /\ \E x : status' = [status EXCEPT ![d] = x]
    BY <1>4, GovernanceAssumption DEF CreateTrigger, Insert, SetTriggerEnabled, DeleteTrigger
  <2> QED
    BY <1>2, <2>1 DEF TypeOK
<1>5. ASSUME NEW d \in Changes, TimePasses(d) PROVE Acc(c)'
  BY <1>2, <1>5 DEF TimePasses
<1>6. ASSUME NEW d \in Changes, Cancel(d) PROVE Acc(c)'
  <2>1. excuse'[c] = {} => excuse[c] = {}
    BY <1>6, ExcusedGrows DEF Cancel
  <2>2. CASE d # c
    <3>1. status'[c] = status[c]
      BY <1>6, <2>2 DEF Cancel, TypeOK
    <3> QED
      BY <1>0, <1>1, <2>1, <3>1, AccSame
  <2>3. CASE d = c
    <3>1. status'[c] = "cancelled" /\ status[c] = "pending"
      BY <1>6, <2>3 DEF Cancel, TypeOK
    <3>2. excuse'[c] = {} => \A w \in Workers : ~Holds(w, c)
      BY <1>6, <2>3, ExcusedGrows DEF Cancel
    <3> QED
      BY <1>0, <1>1, <2>1, <3>1, <3>2 DEF Acc
  <2> QED
    BY <2>2, <2>3
<1> QED
  BY <1>3, <1>4, <1>5, <1>6 DEF Row

\* Taking a pending change up keeps the accounts.
LEMMA TakeAcc ==
  ASSUME TypeOK, NEW c \in Requests \cup Scheduled, Acc(c),
         NEW w \in Workers, NEW d \in Changes, NEW step \in {"read", "reject"}, Take(w, d, step),
         \A v \in Workers : c # d => (c \in queue'[v] <=> c \in queue[v]),
         \A v \in Workers : queue'[v] \subseteq queue[v],
         d \in Requests \cup Scheduled => status[d] = "pending" \/ Holds(w, d)
  PROVE  Acc(c)'
<1> c \in Changes
  BY DEF Changes
<1>0. status'[c] = status[c] /\ applied'[c] = applied[c] /\ (excuse'[c] = {} => excuse[c] = {})
  BY ExcusedGrows DEF Take, rows, flag
<1>1. CASE c # d
  BY <1>0, <1>1, TakeOthers, AccSame
<1>2. CASE c = d
  <2>1. excuse'[c] = {} => \A v \in Workers \ {w} : ~Holds(v, c)
    <3>1. excuse' = Excused("overlap", Contended(w, {c}))
      BY <1>2 DEF Take
    <3>2. ASSUME NEW v \in Workers \ {w}, Holds(v, c) PROVE c \in Contended(w, {c})
      BY <3>2 DEF Contended
    <3> QED
      BY <3>1, <3>2, ExcusedGrows
  <2>2. \A v \in Workers : Holds(v, c)' => Holds(v, c) \/ v = w
    BY <1>2, HoldsTake
  <2>3. Holds(w, c)' /\ ~Marks(w, c)' /\ ~Marks(w, c)
    BY <1>2, TakeFacts DEF Holds, Marks
  <2> SUFFICES ASSUME excuse'[c] = {} PROVE Acc(c)'
    BY DEF Acc
  <2>4. \A v \in Workers : Holds(v, c)' => v = w
    BY <2>1, <2>2
  <2>5. status[c] = "pending" /\ applied[c] = 0
    BY <1>0, <1>2, <2>1, <2>3 DEF Acc
  <2> QED
    BY <1>0, <2>3, <2>4, <2>5 DEF Acc
<1> QED
  BY <1>1, <1>2

\* Listing due changes keeps the accounts.
LEMMA ListAcc ==
  ASSUME TypeOK, NEW c \in Requests \cup Scheduled, Acc(c), NEW w \in Workers, ListDue(w)
  PROVE  Acc(c)'
<1> c \in Changes
  BY DEF Changes
<1>0. /\ status'[c] = status[c] /\ applied'[c] = applied[c] /\ (excuse'[c] = {} => excuse[c] = {})
      /\ UNCHANGED <<pc, item>>
  BY ExcusedGrows DEF ListDue, rows, flag
<1>1. pc[w] = "idle" /\ queue[w] = {} /\ \A v \in Workers \ {w} : queue'[v] = queue[v]
  BY DEF ListDue, TypeOK
<1>2. c \in queue'[w] => status[c] = "pending"
  BY DEF ListDue, TypeOK
<1>3. CASE c \notin queue'[w]
  <2>1. \A v \in Workers : (Holds(v, c)' <=> Holds(v, c)) /\ (Marks(v, c)' <=> Marks(v, c))
    BY <1>0, <1>1, <1>3 DEF Holds, Marks
  <2> QED
    BY <1>0, <2>1, AccSame
<1>4. CASE c \in queue'[w]
  <2>1. excuse'[c] = {} => \A v \in Workers \ {w} : ~Holds(v, c)
    BY <1>4, ExcusedGrows DEF ListDue, Contended
  <2>2. ~Holds(w, c) /\ Holds(w, c)' /\ ~Marks(w, c)'
    BY <1>0, <1>1, <1>4 DEF Holds, Marks
  <2>3. \A v \in Workers \ {w} : Holds(v, c)' => Holds(v, c)
    BY <1>0, <1>1 DEF Holds
  <2> SUFFICES ASSUME excuse'[c] = {} PROVE Acc(c)'
    BY DEF Acc
  <2>4. applied[c] = 0
    BY <1>0, <1>2, <1>4, <2>1, <2>2 DEF Acc
  <2>5. \A v \in Workers : Holds(v, c)' => v = w
    BY <2>1, <2>3
  <2> QED
    BY <1>0, <1>2, <1>4, <2>2, <2>4, <2>5 DEF Acc
<1> QED
  BY <1>3, <1>4

\* Reading and writing the config keep the accounts.
LEMMA SaveAcc ==
  ASSUME TypeOK, TakenOnce, NEW c \in Requests \cup Scheduled, Acc(c), NEW w \in Workers,
         Read(w) \/ Save(w) \/ SaveUnanswered(w)
  PROVE  Acc(c)'
<1> c \in Changes
  BY DEF Changes
<1>1. CASE Read(w)
  <2>1. \A v \in Workers : (Holds(v, c)' <=> Holds(v, c)) /\ (Marks(v, c)' <=> Marks(v, c))
    BY <1>1 DEF Read, Holds, Marks, TypeOK
  <2> QED
    BY <1>1, <2>1, AccSame DEF Read, rows, flag
<1>2. CASE (Save(w) \/ SaveUnanswered(w)) /\ c # item[w]
  <2>1. pc[w] # "idle" /\ UNCHANGED queue /\ Write(w) /\ UNCHANGED rows /\ \E step : Goto(w, step)
    BY <1>2 DEF Save, SaveUnanswered
  <2>2. excuse'[c] = {} => excuse[c] = {}
    BY <1>2, ExcusedGrows DEF Save, SaveUnanswered
  <2>3. applied'[c] = applied[c]
    BY <1>2, <2>1 DEF Write, TypeOK
  <2>4. status'[c] = status[c]
    BY <2>1 DEF rows
  <2>5. \A v \in Workers : (Holds(v, c)' <=> Holds(v, c)) /\ (Marks(v, c)' <=> Marks(v, c))
    BY <1>2, <2>1, GotoOthers
  <2> QED
    BY <2>2, <2>3, <2>4, <2>5, AccSame
<1>3. CASE Save(w) /\ c = item[w]
  <2>1. Goto(w, "mark") /\ pc[w] = "save" /\ UNCHANGED queue
    BY <1>3, GovernanceAssumption DEF Save, AfterSave
  <2>2. Holds(w, c) /\ ~Marks(w, c) /\ Holds(w, c)' /\ Marks(w, c)'
    BY <1>3, <2>1, GotoFacts DEF Holds, Marks
  <2>3. \A v \in Workers : Holds(v, c)' => Holds(v, c)
    BY <2>1, HoldsGoto
  <2>4. excuse' = excuse /\ status' = status
    BY <1>3 DEF Save, rows
  <2>5. applied'[c] = applied[c] + 1
    BY <1>3 DEF Save, Write, TypeOK
  <2> SUFFICES ASSUME excuse[c] = {} PROVE Acc(c)'
    BY <2>4 DEF Acc
  <2>6. status[c] = "pending" /\ applied[c] = 0 /\ \A v \in Workers : Holds(v, c) => v = w
    BY <2>2 DEF Acc
  <2> QED
    BY <2>2, <2>3, <2>4, <2>5, <2>6 DEF Acc
<1>4. CASE SaveUnanswered(w) /\ c = item[w]
  <2>1. excuse'[c] # {}
    <3>1. excuse' = Excused("unmarked", {item[w]}) /\ c \in {item[w]}
      BY <1>4 DEF SaveUnanswered
    <3> QED
      BY <3>1, ExcusedGrows
  <2> QED
    BY <2>1 DEF Acc
<1> QED
  BY <1>1, <1>2, <1>3, <1>4

\* Failing to apply a change keeps the accounts.
LEMMA FailAcc ==
  ASSUME TypeOK, TakenOnce, NEW c \in Requests \cup Scheduled, Acc(c), NEW w \in Workers, ApplyFails(w)
  PROVE  Acc(c)'
<1>1. /\ pc[w] \in {"read", "save"} /\ UNCHANGED <<queue, excuse, status, applied>>
      /\ Goto(w, AfterFailure(item[w]))
  BY DEF ApplyFails, rows, flag
<1>2. CASE c # item[w]
  BY <1>1, <1>2, GotoOthers, AccSame
<1>3. CASE c = item[w] /\ AfterFailure(c) = "fail"
  <2>1. \A v \in Workers : (Holds(v, c)' <=> Holds(v, c)) /\ (Marks(v, c)' <=> Marks(v, c))
    BY <1>1, <1>3, GotoFacts DEF Holds, Marks
  <2> QED
    BY <1>1, <2>1, AccSame
<1>4. CASE c = item[w] /\ AfterFailure(c) = "idle"
  <2>1. Holds(w, c) /\ ~Marks(w, c) /\ ~Holds(w, c)'
    BY <1>1, <1>4, GotoFacts DEF Holds, Marks, TakenOnce
  <2>2. \A v \in Workers : Holds(v, c)' => Holds(v, c)
    BY <1>1, HoldsGoto DEF Changes
  <2>3. excuse'[c] = {} => status'[c] = "pending"
    BY <1>1, <2>1 DEF Acc
  <2> QED
    BY <1>1, <2>1, <2>2, <2>3, AccReleased
<1> QED
  BY <1>2, <1>3, <1>4 DEF AfterFailure

\* Marking a change, failing to, and stopping keep the accounts.
LEMMA EndAcc ==
  ASSUME TypeOK, StepsFit, TakenOnce, NEW c \in Requests \cup Scheduled, Acc(c), NEW w \in Workers,
         Ends(w)
  PROVE  Acc(c)'
<1> c \in Changes
  BY DEF Changes
<1>0. /\ Goto(w, "idle") /\ applied' = applied
      /\ \A v \in Workers : queue'[v] \subseteq queue[v]
  BY DEF Ends, MarkApproved, MarkRejected, MarkScheduled, RecordExecution, MarkFails, Stop, flag, TypeOK
<1>1. \A v \in Workers : Holds(v, c)' => Holds(v, c)
  BY <1>0, HoldsGoto
<1>2. excuse'[c] = {} => excuse[c] = {}
  BY ExcusedGrows DEF Ends, MarkApproved, MarkRejected, MarkScheduled, RecordExecution, MarkFails, Stop
<1>3. CASE ~Stop(w) /\ c # item[w]
  <2>1. pc[w] # "idle" /\ UNCHANGED queue
    BY <1>3 DEF Ends, MarkApproved, MarkRejected, MarkScheduled, RecordExecution, MarkFails
  <2>2. status'[c] = status[c]
    BY <1>3 DEF Ends, MarkApproved, MarkRejected, MarkScheduled, RecordExecution, MarkFails, rows, TypeOK
  <2> QED
    BY <1>0, <1>2, <1>3, <2>1, <2>2, GotoOthers, AccSame
<1>4. CASE ~Stop(w) /\ c = item[w]
  <2>1. pc[w] # "idle" /\ UNCHANGED queue
    BY <1>4 DEF Ends, MarkApproved, MarkRejected, MarkScheduled, RecordExecution, MarkFails
  <2>2. Holds(w, c) /\ ~Holds(w, c)'
    BY <1>0, <1>4, <2>1, GotoFacts DEF Holds, TakenOnce
  <2>3. ASSUME excuse'[c] = {} PROVE status'[c] \in {"approved", "applied"} <=> Marks(w, c)
    <3>1. status[c] = "pending"
      BY <1>2, <2>2, <2>3 DEF Acc
    <3>2. CASE MarkApproved(w)
      BY <1>4, <3>2 DEF MarkApproved, Marks, TypeOK
    <3>3. CASE MarkRejected(w)
      BY <1>4, <3>3 DEF MarkRejected, Marks, TypeOK
    <3>4. CASE MarkScheduled(w)
      BY <1>4, <3>1, <3>4 DEF MarkScheduled, Marks, TypeOK
    <3>5. CASE RecordExecution(w)
      BY <1>4, <3>5, GovernanceAssumption DEF RecordExecution
    <3>6. CASE MarkFails(w)
      <4>1. pc[w] # "mark"
        <5> SUFFICES ASSUME pc[w] = "mark" PROVE FALSE
          OBVIOUS
        <5>1. excuse' = Excused("unmarked", {item[w]}) /\ c \in {item[w]}
          BY <1>4, <3>6 DEF MarkFails
        <5> QED
          BY <2>3, <5>1, ExcusedGrows
      <4> QED
        BY <3>1, <3>6, <4>1 DEF MarkFails, Marks, rows
    <3> QED
      BY <1>4, <3>2, <3>3, <3>4, <3>5, <3>6 DEF Ends
  <2> QED
    BY <1>0, <1>1, <1>2, <2>2, <2>3, AccReleased
<1>5. CASE Stop(w) /\ Holds(w, c)
  <2>1. ~Holds(w, c)'
    BY <1>0, <1>5, GotoFacts DEF Stop, Holds, TypeOK
  <2>2. ASSUME excuse'[c] = {} PROVE status'[c] = "pending" /\ ~Marks(w, c)
    <3>1. status[c] = "pending"
      BY <1>2, <1>5, <2>2 DEF Acc
    <3>2. ~Marks(w, c)
      BY <1>5, <2>2, ExcusedGrows DEF Stop, Marks
    <3> QED
      BY <1>5, <3>1, <3>2 DEF Stop, rows
  <2> QED
    BY <1>0, <1>1, <1>2, <1>5, <2>1, <2>2, AccReleased
<1>6. CASE Stop(w) /\ ~Holds(w, c)
  <2>1. \A v \in Workers : (Holds(v, c)' <=> Holds(v, c)) /\ (Marks(v, c)' <=> Marks(v, c))
    <3> TAKE v \in Workers
    <3>1. CASE v = w
      BY <1>0, <1>1, <1>6, <3>1, GotoFacts DEF Holds, Marks
    <3>2. CASE v # w
      <4>1. queue'[v] = queue[v]
        BY <1>6, <3>2 DEF Stop, TypeOK
      <4> QED
        BY <1>0, <3>2, <4>1, GotoFacts DEF Holds, Marks
    <3> QED
      BY <3>1, <3>2
  <2>2. status' = status
    BY <1>6 DEF Stop, rows
  <2> QED
    BY <1>0, <1>2, <2>1, <2>2, AccSame
<1> QED
  BY <1>3, <1>4, <1>5, <1>6

\* Every step keeps every account.
LEMMA AccountedStep == TypeOK /\ StepsFit /\ TakenOnce /\ Accounted /\ [Next]_vars => Accounted'
<1> SUFFICES ASSUME TypeOK, StepsFit, TakenOnce, Accounted, [Next]_vars, NEW c \in Requests \cup Scheduled
             PROVE  Acc(c)'
  BY DEF Accounted, Acc, Marks
<1>1. Acc(c)
  BY DEF Accounted, Acc, Marks
<1>2. ASSUME NEW w \in Workers, NEW d \in Changes, Begin(w, d) PROVE Acc(c)'
  <2>1. PICK step \in {"read", "reject"} : Take(w, d, step)
    BY <1>2 DEF Begin, Approve, Reject, Patch, Put, Fire
  <2>2. UNCHANGED queue /\ (d \in Requests \cup Scheduled => status[d] = "pending")
    BY <1>2, GovernanceAssumption DEF Begin, Approve, Reject, Patch, Put, Fire
  <2> QED
    BY <1>1, <2>1, <2>2, TakeAcc
<1>3. ASSUME NEW w \in Schedulers, ListDue(w) PROVE Acc(c)'
  BY <1>1, <1>3, ListAcc DEF Workers
<1>4. ASSUME NEW w \in Schedulers, NEW d \in Scheduled, TakeDue(w, d) PROVE Acc(c)'
  <2>1. w \in Workers /\ d \in Changes /\ Take(w, d, "read") /\ Holds(w, d)
    BY <1>4 DEF TakeDue, Workers, Changes, Holds
  <2>2. \A v \in Workers : queue'[v] \subseteq queue[v] /\ (c # d => (c \in queue'[v] <=> c \in queue[v]))
    BY <1>4 DEF TakeDue, TypeOK
  <2> QED
    BY <1>1, <2>1, <2>2, TakeAcc
<1>5. ASSUME NEW w \in Workers, Read(w) \/ Save(w) \/ SaveUnanswered(w) \/ ApplyFails(w) \/ Ends(w)
      PROVE  Acc(c)'
  BY <1>1, <1>5, SaveAcc, FailAcc, EndAcc
<1>6. ASSUME Row PROVE Acc(c)'
  BY <1>1, <1>6, RowAcc
<1>7. ASSUME DeleteFlag \/ UNCHANGED vars PROVE Acc(c)'
  <2>1. UNCHANGED <<pc, item, queue, applied, status, excuse>>
    BY <1>7 DEF DeleteFlag, rows, vars
  <2>2. \A v \in Workers : (Holds(v, c)' <=> Holds(v, c)) /\ (Marks(v, c)' <=> Marks(v, c))
    BY <2>1 DEF Holds, Marks
  <2> QED
    BY <1>1, <2>1, <2>2, AccSame
<1> QED
  BY <1>2, <1>3, <1>4, <1>5, <1>6, <1>7, NextCases

\* The row of a request or a scheduled change tells the truth about the config,
\* for any number of replicas, unless two workers held the change at once or
\* the outcome of a write was lost (Approve, Reject, applyDue).
THEOREM RowsHonest == Spec => []StatusHonest
<1>1. Init => StepsFit /\ TakenOnce /\ Accounted
  <2> SUFFICES ASSUME Init PROVE StepsFit /\ TakenOnce /\ Accounted
    OBVIOUS
  <2>1. StepsFit /\ TakenOnce
    BY DEF Init, StepsFit, TakenOnce
  <2>2. \A c \in Changes : applied[c] = 0 /\ status[c] = "none" /\ \A w \in Workers : ~Holds(w, c)
    BY DEF Init, Nothing, Holds
  <2>3. Accounted
    BY <2>2 DEF Accounted, Changes
  <2> QED
    BY <2>1, <2>3
<1>2. TypeOK /\ StepsFit /\ [Next]_vars => StepsFit'
  BY FitStep
<1>3. TypeOK /\ TakenOnce /\ [Next]_vars => TakenOnce'
  BY TakenStep
<1>4. TypeOK /\ StepsFit /\ TakenOnce /\ Accounted /\ [Next]_vars => Accounted'
  BY AccountedStep
<1>5. Accounted => StatusHonest
  <2> SUFFICES ASSUME Accounted, NEW c \in Requests \cup Scheduled, excuse[c] = {}
               PROVE  /\ status[c] \in {"approved", "applied"} => applied[c] = 1
                      /\ status[c] \in {"none", "rejected", "cancelled", "failed"} => applied[c] = 0
                      /\ status[c] = "pending" => applied[c] = (IF Marking(c) = {} THEN 0 ELSE 1)
    BY DEF StatusHonest
  <2>1. CASE \A w \in Workers : ~Holds(w, c)
    <3>1. Marking(c) = {}
      BY <2>1 DEF Marking, Holds
    <3> QED
      BY <2>1, <3>1 DEF Accounted
  <2>2. CASE \E w \in Workers : Holds(w, c)
    <3>1. PICK w \in Workers : Holds(w, c)
      BY <2>2
    <3>2. status[c] = "pending" /\ applied[c] = (IF pc[w] = "mark" /\ item[w] = c THEN 1 ELSE 0)
      BY <3>1 DEF Accounted
    <3>3. Marking(c) = {} <=> ~(pc[w] = "mark" /\ item[w] = c)
      BY <3>1 DEF Accounted, Marking, Holds
    <3> QED
      BY <3>2, <3>3
  <2> QED
    BY <2>1, <2>2
<1> QED
  BY <1>1, <1>2, <1>3, <1>4, <1>5, Typing, PTL DEF Spec

\* A scheduled change that was resolved is never resolved again (the status
\* guards of the UPDATE statements), however many schedulers there are.
THEOREM ResolvedOnce == Spec => ScheduledFinal
<1> DEFINE Final == \A c \in Scheduled : status[c] \notin {"none", "pending"} => status'[c] = status[c]
<1>1. Init => StepsFit
  BY DEF Init, StepsFit
<1>2. TypeOK /\ StepsFit /\ [Next]_vars => StepsFit'
  BY FitStep
<1>3. TypeOK /\ StepsFit /\ [Next]_vars => [Final]_vars
  <2> SUFFICES ASSUME TypeOK, StepsFit, Next, NEW c \in Scheduled, status[c] \notin {"none", "pending"}
               PROVE  status'[c] = status[c]
    OBVIOUS
  <2>1. CASE Row
    <3>1. \/ UNCHANGED status
          \/ \E d \in Changes : /\ d \in Triggers \/ status[d] \in {"none", "pending"}
                                /\ \E x : status' = [status EXCEPT ![d] = x]
      BY <2>1 DEF Row, Create, Schedule, CreateTrigger, Insert, TimePasses, Cancel,
         SetTriggerEnabled, DeleteTrigger
    <3>2. ASSUME NEW d \in Changes, d \in Triggers \/ status[d] \in {"none", "pending"},
                 \E x : status' = [status EXCEPT ![d] = x]
          PROVE  status'[c] = status[c]
      <4>1. d # c
        BY <3>2, GovernanceAssumption
      <4>2. c \in DOMAIN status
        BY DEF TypeOK, Changes
      <4> QED
        BY <3>2, <4>1, <4>2 DEF TypeOK
    <3> QED
      BY <3>1, <3>2
  <2>2. ASSUME NEW w \in Workers, Read(w) \/ Save(w) \/ SaveUnanswered(w) \/ ApplyFails(w) \/ Ends(w)
        PROVE  status'[c] = status[c]
    <3>1. CASE MarkApproved(w) \/ MarkRejected(w)
      <4>1. item[w] \in Requests /\ \E x : status' = [status EXCEPT ![item[w]] = x]
        BY <3>1 DEF MarkApproved, MarkRejected, StepsFit
      <4> QED
        BY <4>1, GovernanceAssumption DEF TypeOK
    <3>2. CASE MarkScheduled(w)
      BY <3>2 DEF MarkScheduled, TypeOK
    <3> QED
      BY <2>2, <3>1, <3>2 DEF Read, Save, SaveUnanswered, ApplyFails, Ends, RecordExecution,
         MarkFails, Stop, rows
  <2>3. ASSUME NEW w, NEW d, Begin(w, d) \/ TakeDue(w, d) \/ ListDue(w) PROVE status'[c] = status[c]
    BY <2>3 DEF Begin, Approve, Reject, Patch, Put, Fire, TakeDue, Take, ListDue, rows
  <2> QED
    BY <2>1, <2>2, <2>3, NextCases DEF DeleteFlag, rows
<1> QED
  BY <1>1, <1>2, <1>3, Typing, PTL DEF Spec, ScheduledFinal
-----------------------------------------------------------------------------
(***************************************************************************)
(* RunsCounted: every write of a trigger's change is counted in its row,   *)
(* or about to be by the one worker that made it, or excused.              *)
(***************************************************************************)
\* The account of trigger c: the writes that are counted or will be are among
\* the writes there were, and all of them while nothing was lost.
Counted(c) ==
  /\ IsFiniteSet(Marking(c))
  /\ runs[c] + Cardinality(Marking(c)) <= applied[c]
  /\ "unmarked" \notin excuse[c] /\ status[c] # "deleted" =>
       applied[c] = runs[c] + Cardinality(Marking(c))

AllCounted == \A c \in Triggers : Counted(c)

\* Losing a count is never forgotten, and a deleted trigger stays deleted.
Lasting(c) ==
  /\ "unmarked" \in excuse[c] => "unmarked" \in excuse'[c]
  /\ status[c] = "deleted" => status'[c] = "deleted"

\* A step that touches neither the counters nor the workers about to count.
LEMMA CountKept ==
  ASSUME NEW c \in Triggers, Counted(c), Lasting(c), Marking(c)' = Marking(c),
         runs'[c] = runs[c], applied'[c] = applied[c]
  PROVE  Counted(c)'
BY DEF Counted, Lasting

\* One more write, by a worker that will count it.
LEMMA CountSaved ==
  ASSUME NEW c \in Triggers, TypeOK, Counted(c), Lasting(c), NEW w, w \notin Marking(c),
         Marking(c)' = Marking(c) \cup {w}, runs'[c] = runs[c], applied'[c] = applied[c] + 1
  PROVE  Counted(c)'
<1>1. IsFiniteSet(Marking(c)) /\ Cardinality(Marking(c)) \in Nat
  BY FS_CardinalityType DEF Counted
<1>2. IsFiniteSet(Marking(c)') /\ Cardinality(Marking(c)') = Cardinality(Marking(c)) + 1
  BY <1>1, FS_AddElement
<1>3. runs[c] \in Nat /\ applied[c] \in Nat
  BY DEF TypeOK, Changes
<1> QED
  BY <1>1, <1>2, <1>3 DEF Counted, Lasting

\* One more write, whose answer was lost.
LEMMA CountLost ==
  ASSUME NEW c \in Triggers, TypeOK, Counted(c), Marking(c)' = Marking(c),
         runs'[c] = runs[c], applied'[c] = applied[c] + 1, "unmarked" \in excuse'[c]
  PROVE  Counted(c)'
<1>1. IsFiniteSet(Marking(c)) /\ Cardinality(Marking(c)) \in Nat
  BY FS_CardinalityType DEF Counted
<1>2. runs[c] \in Nat /\ applied[c] \in Nat
  BY DEF TypeOK, Changes
<1> QED
  BY <1>1, <1>2 DEF Counted

\* A worker is done: it has counted its write, or the row is gone, or the count
\* is lost.
LEMMA CountDone ==
  ASSUME NEW c \in Triggers, TypeOK, Counted(c), Lasting(c), NEW w \in Marking(c),
         Marking(c)' = Marking(c) \ {w}, applied'[c] = applied[c],
         \/ runs'[c] = runs[c] + 1
         \/ runs'[c] = runs[c] /\ (status'[c] = "deleted" \/ "unmarked" \in excuse'[c])
  PROVE  Counted(c)'
<1>1. IsFiniteSet(Marking(c)) /\ Cardinality(Marking(c)) \in Nat
  BY FS_CardinalityType DEF Counted
<1>2. IsFiniteSet(Marking(c)') /\ Cardinality(Marking(c)') = Cardinality(Marking(c)) - 1
  BY <1>1, FS_RemoveElement
<1>3. runs[c] \in Nat /\ applied[c] \in Nat
  BY DEF TypeOK, Changes
<1> QED
  BY <1>1, <1>2, <1>3 DEF Counted, Lasting

\* Who is about to count follows from where each worker is.
LEMMA MarkingSame ==
  ASSUME NEW c, \A v \in Workers : Marks(v, c)' <=> Marks(v, c)
  PROVE  Marking(c)' = Marking(c)
BY DEF Marking, Marks

\* Every step is lasting in this sense.
LEMMA LastingStep ==
  ASSUME TypeOK, StepsFit, Next, NEW c \in Triggers
  PROVE  Lasting(c)
<1>0. c \in Changes /\ c \in DOMAIN status /\ c \notin Requests /\ c \notin Scheduled
  BY GovernanceAssumption DEF Changes, TypeOK
<1>1. \/ UNCHANGED excuse
      \/ \E x, S : excuse' = Excused(x, S)
  BY NextCases DEF Row, Create, Schedule, CreateTrigger, Insert, TimePasses, Cancel,
     SetTriggerEnabled, DeleteTrigger, DeleteFlag, Begin, Approve, Reject, Patch, Put, Fire, Take,
     ListDue, TakeDue, Read, Save, SaveUnanswered, ApplyFails, Ends, MarkApproved, MarkRejected,
     MarkScheduled, RecordExecution, MarkFails, Stop
<1>2. "unmarked" \in excuse[c] => "unmarked" \in excuse'[c]
  BY <1>0, <1>1 DEF Excused
<1>3. ASSUME status[c] = "deleted" PROVE status'[c] = "deleted"
  <2>1. CASE Row
    <3>1. \/ UNCHANGED status
          \/ \E d \in Changes : /\ status[d] \in {"none", "pending", "enabled", "disabled"}
                                /\ \E x : status' = [status EXCEPT ![d] = x]
      BY <2>1 DEF Row, Create, Schedule, CreateTrigger, Insert, TimePasses, Cancel,
         SetTriggerEnabled, DeleteTrigger
    <3> QED
      BY <1>0, <1>3, <3>1 DEF TypeOK
  <2>2. ASSUME NEW w \in Workers, Read(w) \/ Save(w) \/ SaveUnanswered(w) \/ ApplyFails(w) \/ Ends(w)
        PROVE  status'[c] = status[c]
    <3>1. CASE MarkApproved(w) \/ MarkRejected(w) \/ MarkScheduled(w)
      <4>1. item[w] # c /\ \E x : status' = [status EXCEPT ![item[w]] = x]
        BY <1>0, <3>1 DEF MarkApproved, MarkRejected, MarkScheduled, StepsFit
      <4> QED
        BY <4>1, <1>0 DEF TypeOK
    <3> QED
      BY <2>2, <3>1 DEF Read, Save, SaveUnanswered, ApplyFails, Ends, RecordExecution,
         MarkFails, Stop, rows
  <2>3. ASSUME NEW w, NEW d, Begin(w, d) \/ TakeDue(w, d) \/ ListDue(w) PROVE status'[c] = status[c]
    BY <2>3 DEF Begin, Approve, Reject, Patch, Put, Fire, TakeDue, Take, ListDue, rows
  <2> QED
    BY <1>3, <2>1, <2>2, <2>3, NextCases DEF DeleteFlag, rows
<1> QED
  BY <1>2, <1>3 DEF Lasting

\* A write: of another change, of this one with the count to come, or of this
\* one with the answer lost.
LEMMA SaveCount ==
  ASSUME TypeOK, StepsFit, Next, NEW c \in Triggers, Counted(c), NEW w \in Workers,
         Save(w) \/ SaveUnanswered(w)
  PROVE  Counted(c)'
<1>0. c \in Changes /\ c \notin Patches /\ c \notin Puts /\ c \notin Scheduled /\ item[w] \in Changes
  BY GovernanceAssumption DEF Changes, TypeOK
<1>1. Lasting(c)
  BY LastingStep
<1>2. /\ pc[w] = "save" /\ runs' = runs /\ UNCHANGED queue
      /\ applied' = [applied EXCEPT ![item[w]] = @ + 1]
  BY DEF Save, SaveUnanswered, Write, rows
<1>3. \/ Goto(w, AfterSave(item[w]))
      \/ SaveUnanswered(w) /\ Goto(w, AfterFailure(item[w]))
  BY DEF Save, SaveUnanswered
<1>4. CASE item[w] # c
  <2>1. PICK s : Goto(w, s)
    BY <1>3
  <2>2. Marking(c)' = Marking(c)
    BY <1>2, <1>4, <2>1, GotoOthers, MarkingSame
  <2>3. applied'[c] = applied[c]
    BY <1>0, <1>2, <1>4 DEF TypeOK
  <2> QED
    BY <1>1, <1>2, <2>2, <2>3, CountKept
<1>5. CASE item[w] = c
  <2>1. applied'[c] = applied[c] + 1
    BY <1>0, <1>2, <1>5 DEF TypeOK
  <2>2. CASE Goto(w, AfterSave(item[w]))
    <3>1. pc'[w] = "mark" /\ item'[w] = c
      BY <1>0, <1>5, <2>2, GotoFacts DEF AfterSave
    <3>2. \A v \in Workers \ {w} : pc'[v] = pc[v] /\ item'[v] = item[v]
      BY <2>2, GotoFacts
    <3>3. w \notin Marking(c) /\ Marking(c)' = Marking(c) \cup {w}
      BY <1>2, <3>1, <3>2 DEF Marking
    <3> QED
      BY <1>1, <1>2, <2>1, <3>3, CountSaved
  <2>3. CASE SaveUnanswered(w) /\ Goto(w, AfterFailure(item[w]))
    <3>1. pc'[w] = "idle"
      BY <1>0, <1>5, <2>3, GotoFacts DEF AfterFailure
    <3>2. \A v \in Workers \ {w} : pc'[v] = pc[v] /\ item'[v] = item[v]
      BY <2>3, GotoFacts
    <3>3. Marking(c)' = Marking(c)
      BY <1>2, <3>1, <3>2 DEF Marking
    <3>4. "unmarked" \in excuse'[c]
      BY <1>0, <1>5, <2>3 DEF SaveUnanswered, Excused
    <3> QED
      BY <1>2, <2>1, <3>3, <3>4, CountLost
  <2> QED
    BY <1>3, <2>2, <2>3
<1> QED
  BY <1>4, <1>5

\* A worker becomes idle: with its write counted, the row gone, the count lost,
\* or nothing to count.
LEMMA EndCount ==
  ASSUME TypeOK, StepsFit, Next, NEW c \in Triggers, Counted(c), NEW w \in Workers, Ends(w)
  PROVE  Counted(c)'
<1>0. c \in Changes /\ c \notin Requests /\ c \notin Scheduled
  BY GovernanceAssumption DEF Changes
<1>1. Lasting(c)
  BY LastingStep
<1>2. Goto(w, "idle") /\ applied' = applied
  BY DEF Ends, MarkApproved, MarkRejected, MarkScheduled, RecordExecution, MarkFails, Stop, flag
<1>3. Marking(c)' = Marking(c) \ {w}
  <2>1. pc'[w] = "idle" /\ \A v \in Workers \ {w} : pc'[v] = pc[v] /\ item'[v] = item[v]
    BY <1>2, GotoFacts
  <2> QED
    BY <2>1 DEF Marking
<1>4. CASE w \in Marking(c)
  <2>1. pc[w] = "mark" /\ item[w] = c
    BY <1>4 DEF Marking
  <2>2. CASE RecordExecution(w)
    <3>1. runs'[c] = (IF status[c] = "deleted" THEN runs[c] ELSE runs[c] + 1) /\ status' = status
      BY <2>1, <2>2 DEF RecordExecution, TypeOK
    <3> QED
      BY <1>1, <1>2, <1>3, <1>4, <3>1, CountDone
  <2>3. CASE MarkFails(w) \/ Stop(w)
    <3>1. runs' = runs /\ excuse' = Excused("unmarked", {c})
      BY <2>1, <2>3 DEF MarkFails, Stop, rows
    <3>2. "unmarked" \in excuse'[c]
      BY <1>0, <3>1 DEF Excused
    <3> QED
      BY <1>1, <1>2, <1>3, <1>4, <3>1, <3>2, CountDone
  <2>4. ~MarkApproved(w) /\ ~MarkRejected(w) /\ ~MarkScheduled(w)
    BY <1>0, <2>1 DEF MarkApproved, MarkRejected, MarkScheduled
  <2> QED
    BY <2>2, <2>3, <2>4 DEF Ends
<1>5. CASE w \notin Marking(c)
  <2>1. Marking(c)' = Marking(c)
    BY <1>3, <1>5
  <2>2. runs'[c] = runs[c]
    <3>1. CASE RecordExecution(w)
      <4>1. pc[w] = "mark" /\ item[w] # c
        BY <1>5, <3>1 DEF RecordExecution, Marking
      <4> QED
        BY <3>1, <4>1 DEF RecordExecution, TypeOK
    <3> QED
      BY <3>1 DEF Ends, MarkApproved, MarkRejected, MarkScheduled, MarkFails, Stop, rows
  <2> QED
    BY <1>1, <1>2, <2>1, <2>2, CountKept
<1> QED
  BY <1>4, <1>5

\* Every step keeps every trigger's account.
LEMMA CountStep == TypeOK /\ StepsFit /\ AllCounted /\ [Next]_vars => AllCounted'
<1> SUFFICES ASSUME TypeOK, StepsFit, AllCounted, [Next]_vars, NEW c \in Triggers
             PROVE  Counted(c)'
  BY DEF AllCounted
<1>0. Counted(c) /\ c \in Changes
  BY DEF AllCounted, Changes
<1>1. CASE UNCHANGED vars
  BY <1>0, <1>1 DEF vars, Counted, Marking
<1>2. CASE Next
  <2>1. Lasting(c)
    BY <1>2, LastingStep
  <2>2. ASSUME Marking(c)' = Marking(c), UNCHANGED <<runs, applied>> PROVE Counted(c)'
    BY <1>0, <2>1, <2>2, CountKept
  <2>3. ASSUME Row \/ DeleteFlag \/ (\E w \in Schedulers : ListDue(w)) PROVE Counted(c)'
    <3>1. UNCHANGED <<pc, item>>
      BY <2>3, RowFrame DEF ListDue
    <3>2. UNCHANGED <<runs, applied>>
      BY <2>3 DEF Row, Create, Schedule, CreateTrigger, Insert, TimePasses, Cancel,
         SetTriggerEnabled, DeleteTrigger, DeleteFlag, ListDue, rows, flag
    <3> QED
      BY <2>2, <3>1, <3>2 DEF Marking
  <2>4. ASSUME NEW w \in Workers, NEW d \in Changes, NEW s, s # "mark", Take(w, d, s)
        PROVE  Counted(c)'
    <3>1. pc[w] = "idle" /\ pc'[w] = s /\ \A v \in Workers \ {w} : pc'[v] = pc[v] /\ item'[v] = item[v]
      BY <2>4, TakeFacts
    <3>2. Marking(c)' = Marking(c)
      BY <2>4, <3>1 DEF Marking
    <3> QED
      BY <2>2, <2>4, <3>2 DEF Take, rows, flag
  <2>5. ASSUME NEW w \in Workers, NEW d \in Changes, Begin(w, d) PROVE Counted(c)'
    <3>1. Take(w, d, "read") \/ Take(w, d, "reject")
      BY <2>5 DEF Begin, Approve, Reject, Patch, Put, Fire
    <3> QED
      BY <2>4, <3>1
  <2>6. ASSUME NEW w \in Schedulers, NEW d \in Scheduled, TakeDue(w, d) PROVE Counted(c)'
    BY <2>4, <2>6 DEF TakeDue, Workers, Changes
  <2>7. ASSUME NEW w \in Workers, Read(w) \/ ApplyFails(w) PROVE Counted(c)'
    <3>1. pc[w] # "mark" /\ pc'[w] # "mark" /\ \A v \in Workers \ {w} : pc'[v] = pc[v] /\ item'[v] = item[v]
      <4>1. CASE Read(w)
        BY <4>1 DEF Read, TypeOK
      <4>2. CASE ApplyFails(w)
        BY <4>2, GotoFacts DEF ApplyFails, AfterFailure
      <4> QED
        BY <2>7, <4>1, <4>2
    <3>2. Marking(c)' = Marking(c)
      BY <3>1 DEF Marking
    <3> QED
      BY <2>2, <2>7, <3>2 DEF Read, ApplyFails, rows, flag
  <2>8. ASSUME NEW w \in Workers, Save(w) \/ SaveUnanswered(w) PROVE Counted(c)'
    BY <1>0, <1>2, <2>8, SaveCount
  <2>9. ASSUME NEW w \in Workers, Ends(w) PROVE Counted(c)'
    BY <1>0, <1>2, <2>9, EndCount
  <2> QED
    BY <1>2, <2>3, <2>5, <2>6, <2>7, <2>8, <2>9, NextCases
<1> QED
  BY <1>1, <1>2

\* A trigger's execution_count never exceeds the writes it caused, and every
\* write is counted or about to be unless the count was lost or the trigger is
\* gone (Fire, RecordFlagTriggerExecution), for any number of firings at once.
THEOREM FiringsCounted == Spec => []RunsCounted
<1>1. Init => StepsFit /\ AllCounted
  <2> SUFFICES ASSUME Init PROVE StepsFit /\ AllCounted
    OBVIOUS
  <2>1. StepsFit
    BY DEF Init, StepsFit
  <2>2. ASSUME NEW c \in Triggers PROVE Counted(c)
    <3>1. Marking(c) = {}
      BY DEF Init, Marking
    <3>2. runs[c] = 0 /\ applied[c] = 0
      BY DEF Init, Nothing, Changes
    <3> QED
      BY <3>1, <3>2, FS_EmptySet DEF Counted
  <2> QED
    BY <2>1, <2>2 DEF AllCounted
<1>2. TypeOK /\ StepsFit /\ [Next]_vars => StepsFit'
  BY FitStep
<1>3. TypeOK /\ StepsFit /\ AllCounted /\ [Next]_vars => AllCounted'
  BY CountStep
<1>4. TypeOK /\ AllCounted => RunsCounted
  <2> SUFFICES ASSUME TypeOK, AllCounted, NEW c \in Triggers
               PROVE  /\ runs[c] <= applied[c]
                      /\ "unmarked" \notin excuse[c] /\ status[c] # "deleted" =>
                           applied[c] = runs[c] + Cardinality(Marking(c))
    BY DEF RunsCounted
  <2>1. Counted(c)
    BY DEF AllCounted
  <2>2. Cardinality(Marking(c)) \in Nat
    BY <2>1, FS_CardinalityType DEF Counted
  <2>3. runs[c] \in Nat /\ applied[c] \in Nat
    BY DEF TypeOK, Changes
  <2> QED
    BY <2>1, <2>2, <2>3 DEF Counted
<1> QED
  BY <1>1, <1>2, <1>3, <1>4, Typing, PTL DEF Spec
=============================================================================
