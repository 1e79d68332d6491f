------------------------- MODULE FlagStreamProofs --------------------------
(***************************************************************************)
(* No wake-up of the event stream is lost, and the stream implements       *)
(* PushedView, for any number of connections, environments and reloads.    *)
(***************************************************************************)
EXTENDS FlagStream, TLAPS

\* What NoLostWakeup says of one connection.
Owed(c) ==
  /\ pc[c] = "write" /\ held[c] # cache[env[c]] => Coming(c) \/ skipped[c]
  /\ pc[c] = "wait" /\ ~gone[c] /\ got[c] # cache[env[c]] => Coming(c) \/ skipped[c]

\* What InOrder says of one connection.
Ordered(c) ==
  pc[c] # "closed" =>
    /\ got[c] <= cache[env[c]] /\ held[c] <= cache[env[c]]
    /\ got[c] <= held[c]
    /\ pc[c] # "eval" => held[c] > 0

\* Nothing was skipped if the cache was warm from the start.
Warmth == ~WarmPending => warmed /\ \A c \in Conns : ~skipped[c]

IInv == TypeOK /\ InOrder /\ NoLostWakeup /\ Warmth

\* The initial state satisfies the invariant.
LEMMA InitInv == Init => IInv
<1> SUFFICES ASSUME Init PROVE IInv
  OBVIOUS
<1>1. TypeOK
  <2>1. (CHOOSE e \in Envs : TRUE) \in Envs
    BY FlagStreamAssumption
  <2>2. env \in [Conns -> Envs]
    BY <2>1 DEF Init
  <2> QED
    BY <2>2, FlagStreamAssumption DEF Init, TypeOK
<1>2. \A c \in Conns : pc[c] = "closed" /\ skipped[c] = FALSE
  BY DEF Init
<1> QED
  BY <1>1, <1>2 DEF Init, IInv, InOrder, NoLostWakeup, Warmth

\* Every step keeps the types.
LEMMA TypeStep == TypeOK /\ [Next]_vars => TypeOK'
<1> SUFFICES ASSUME TypeOK, [Next]_vars PROVE TypeOK'
  OBVIOUS
<1> USE DEF TypeOK
<1>1. ASSUME NEW t \in Reloaders, NEW e \in Envs, Install(t, e) PROVE TypeOK'
  BY <1>1 DEF Install, conn
<1>2. ASSUME NEW t \in Reloaders, NEW e \in Envs, Notify(t, e) PROVE TypeOK'
  BY <1>2 DEF Notify, Subs
<1>3. CASE Warm
  BY <1>3 DEF Warm, conn
<1>4. ASSUME NEW c \in Conns, NEW e \in Envs, Connect(c, e) PROVE TypeOK'
  BY <1>4 DEF Connect
<1>5. ASSUME NEW c \in Conns, Evaluate(c) PROVE TypeOK'
  BY <1>5 DEF Evaluate
<1>6. ASSUME NEW c \in Conns, Push(c) PROVE TypeOK'
  BY <1>6 DEF Push
<1>7. ASSUME NEW c \in Conns, Wake(c) PROVE TypeOK'
  BY <1>7 DEF Wake
<1>8. ASSUME NEW c \in Conns, Leave(c) \/ Drop(c) PROVE TypeOK'
  BY <1>8 DEF Leave, Drop
<1>9. CASE UNCHANGED vars
  BY <1>9 DEF vars
<1> QED
  BY <1>1, <1>2, <1>3, <1>4, <1>5, <1>6, <1>7, <1>8, <1>9 DEF Next, Handler

\* Every step keeps snapshots in order.
LEMMA OrderStep == TypeOK /\ InOrder /\ [Next]_vars => InOrder'
<1> SUFFICES ASSUME TypeOK, InOrder, [Next]_vars, NEW d \in Conns
             PROVE  Ordered(d)'
  BY DEF InOrder, Ordered
<1>0. Ordered(d)
  BY DEF InOrder, Ordered
<1> USE <1>0 DEF TypeOK, Ordered
<1>1. ASSUME NEW t \in Reloaders, NEW e \in Envs, Install(t, e) PROVE Ordered(d)'
  BY <1>1 DEF Install, conn
<1>2. ASSUME NEW t \in Reloaders, NEW e \in Envs, Notify(t, e) PROVE Ordered(d)'
  BY <1>2 DEF Notify
<1>3. CASE Warm
  BY <1>3 DEF Warm, conn
<1>4. ASSUME NEW c \in Conns, NEW e \in Envs, Connect(c, e) PROVE Ordered(d)'
  BY <1>4 DEF Connect
<1>5. ASSUME NEW c \in Conns, Evaluate(c) PROVE Ordered(d)'
  BY <1>5 DEF Evaluate
<1>6. ASSUME NEW c \in Conns, Push(c) PROVE Ordered(d)'
  BY <1>6 DEF Push
<1>7. ASSUME NEW c \in Conns, Wake(c) PROVE Ordered(d)'
  BY <1>7 DEF Wake
<1>8. ASSUME NEW c \in Conns, Leave(c) \/ Drop(c) PROVE Ordered(d)'
  BY <1>8 DEF Leave, Drop
<1>9. CASE UNCHANGED vars
  BY <1>9 DEF vars
<1> QED
  BY <1>1, <1>2, <1>3, <1>4, <1>5, <1>6, <1>7, <1>8, <1>9 DEF Next, Handler

\* Every step keeps the obligation to wake connection d: an install hands it to
\* the reloader, notifyEnv hands it to the channel, the select consumes it by
\* evaluating again.
LEMMA WakeupStep == TypeOK /\ NoLostWakeup /\ [Next]_vars => NoLostWakeup'
<1> SUFFICES ASSUME TypeOK, NoLostWakeup, [Next]_vars, NEW d \in Conns
             PROVE  Owed(d)'
  BY DEF NoLostWakeup, Owed
<1>0. Owed(d)
  BY DEF NoLostWakeup, Owed
<1> USE <1>0 DEF TypeOK, Owed, Coming
<1>1. ASSUME NEW t \in Reloaders, NEW e \in Envs, Install(t, e) PROVE Owed(d)'
  <2>1. CASE env[d] = e
    BY <1>1, <2>1 DEF Install, conn
  <2>2. CASE env[d] # e
    BY <1>1, <2>2 DEF Install, conn
  <2> QED BY <2>1, <2>2
<1>2. ASSUME NEW t \in Reloaders, NEW e \in Envs, Notify(t, e) PROVE Owed(d)'
  <2>1. CASE env[d] = e
    BY <1>2, <2>1 DEF Notify, Subs
  <2>2. CASE env[d] # e
    BY <1>2, <2>2 DEF Notify, Subs
  <2> QED BY <2>1, <2>2
<1>3. CASE Warm
  BY <1>3 DEF Warm, conn
<1>4. ASSUME NEW c \in Conns, NEW e \in Envs, Connect(c, e) PROVE Owed(d)'
  BY <1>4 DEF Connect
<1>5. ASSUME NEW c \in Conns, Evaluate(c) PROVE Owed(d)'
  BY <1>5 DEF Evaluate
<1>6. ASSUME NEW c \in Conns, Push(c) PROVE Owed(d)'
  BY <1>6 DEF Push
<1>7. ASSUME NEW c \in Conns, Wake(c) PROVE Owed(d)'
  BY <1>7 DEF Wake
<1>8. ASSUME NEW c \in Conns, Leave(c) \/ Drop(c) PROVE Owed(d)'
  BY <1>8 DEF Leave, Drop
<1>9. CASE UNCHANGED vars
  BY <1>9 DEF vars
<1> QED
  BY <1>1, <1>2, <1>3, <1>4, <1>5, <1>6, <1>7, <1>8, <1>9 DEF Next, Handler

\* A cache that is warm from the start stays so, and skips nothing.
LEMMA WarmthStep == TypeOK /\ Warmth /\ [Next]_vars => Warmth'
  BY DEF TypeOK, Warmth, Next, Handler, Install, Notify, Warm, Connect, Evaluate,
         Push, Wake, Leave, Drop, vars, conn

\* The inductive invariant of the stream.
LEMMA Invariance == Spec => []IInv
<1>1. IInv /\ [Next]_vars => IInv'
  BY TypeStep, OrderStep, WakeupStep, WarmthStep DEF IInv
<1> QED
  BY InitInv, <1>1, PTL DEF Spec

\* A waiting stream whose client misses the snapshot the cache holds always has
\* a signal coming, unless warm() replaced the cache under it (notifyEnv,
\* SubscribeEnv and the select of handleEvalStream lose no wake-up).
THEOREM WakeupsArrive == Spec => []NoLostWakeup
  BY Invariance, PTL DEF IInv

\* The types of the connections, their channels and the snapshots they carry.
THEOREM Typing == Spec => []TypeOK
  BY Invariance, PTL DEF IInv

\* Once the reloads have announced what they installed and every handler waits with an
\* empty channel, no connected client misses what the cache holds, if the cache was warm
\* before the first of them connected.
THEOREM ClientsEndCurrent == ~WarmPending => (Spec => []ClientsCurrent)
<1> SUFFICES ASSUME ~WarmPending PROVE Spec => []ClientsCurrent
  OBVIOUS
<1>1. IInv => ClientsCurrent
  <2> SUFFICES ASSUME IInv, Quiet, NEW c \in Conns, Live(c) PROVE got[c] = cache[env[c]]
    BY DEF ClientsCurrent
  <2>1. pc[c] = "wait" /\ ~gone[c] /\ ~skipped[c]
    BY DEF IInv, Warmth, Quiet, Live
  <2>2. ~Coming(c)
    BY DEF Quiet, Coming
  <2> QED
    BY <2>1, <2>2 DEF IInv, NoLostWakeup
<1> QED
  BY <1>1, Invariance, PTL

\* Clients only receive snapshots of their environment, in install order.
THEOREM SnapshotsInOrder == Spec => []InOrder
  BY Invariance, PTL DEF IInv

-----------------------------------------------------------------------------
(***************************************************************************)
(* The refinement.  A connection is shown what its client received; it is  *)
(* due while its handler is not waiting, or a signal is coming.            *)
(***************************************************************************)
ShownTo(c) == IF Live(c) THEN got[c] ELSE 0
DueTo(c) == Live(c) /\ (pc[c] # "wait" \/ Coming(c))

\* The initial state of the streams is an initial view.
LEMMA InitView == Init => View!Init
<1> SUFFICES ASSUME Init PROVE View!Init
  OBVIOUS
<1>1. TypeOK
  BY InitInv DEF IInv
<1>2. \A c \in Conns : Live(c) = FALSE
  BY DEF Init, Live
<1> QED
  BY <1>1, <1>2 DEF Init, View!Init, TypeOK

\* A step that changes neither the cache nor what any connection is shown or
\* due is a stutter of the view.
LEMMA ViewStutters ==
  ASSUME cache' = cache, env' = env,
         \A c \in Conns : Live(c)' = Live(c) /\ ShownTo(c)' = ShownTo(c) /\ DueTo(c)' = DueTo(c)
  PROVE  UNCHANGED View!view
  BY DEF View!view, ShownTo, DueTo

\* Every step of the streams is a step of the view, or changes nothing in it.
LEMMA StepView ==
  ASSUME ~WarmPending, IInv, [Next]_vars
  PROVE  View!Next \/ UNCHANGED View!view
<1> USE DEF IInv, TypeOK
<1>1. ASSUME NEW t \in Reloaders, NEW e \in Envs, Install(t, e) PROVE View!Change(e)
  <2>1. \A c \in Conns : Live(c)' = Live(c) /\ ShownTo(c)' = ShownTo(c)
    BY <1>1 DEF Install, conn, Live, ShownTo
  <2>2. \A c \in Conns : DueTo(c)' = (DueTo(c) \/ (Live(c) /\ env[c] = e))
    <3> TAKE c \in Conns
    <3>1. CASE env[c] = e
      BY <1>1, <3>1 DEF Install, conn, Live, DueTo, Coming
    <3>2. CASE env[c] # e
      BY <1>1, <3>2 DEF Install, conn, Live, DueTo, Coming
    <3> QED BY <3>1, <3>2
  <2> QED
    BY <1>1, <2>1, <2>2 DEF Install, conn, View!Change, ShownTo, DueTo
<1>2. ASSUME NEW t \in Reloaders, NEW e \in Envs, Notify(t, e) PROVE UNCHANGED View!view
  <2>1. \A c \in Conns : DueTo(c)' = DueTo(c)
    <3> TAKE c \in Conns
    <3>1. CASE env[c] = e
      BY <1>2, <3>1 DEF Notify, Subs, Live, DueTo, Coming
    <3>2. CASE env[c] # e
      BY <1>2, <3>2 DEF Notify, Subs, Live, DueTo, Coming
    <3> QED BY <3>1, <3>2
  <2>2. \A c \in Conns : Live(c)' = Live(c) /\ ShownTo(c)' = ShownTo(c)
    BY <1>2 DEF Notify, Live, ShownTo
  <2> QED
    BY <1>2, <2>1, <2>2, ViewStutters DEF Notify
<1>3. ~Warm
  BY DEF Warm, Warmth
<1>4. ASSUME NEW c \in Conns, NEW e \in Envs, Connect(c, e) PROVE View!Open(c, e)
  <2>1. Live(c)' = TRUE /\ Live(c) = FALSE /\ ShownTo(c)' = 0 /\ ShownTo(c) = 0 /\ DueTo(c)' = TRUE
    BY <1>4 DEF Connect, Live, ShownTo, DueTo
  <2>2. \A d \in Conns \ {c} : Live(d)' = Live(d) /\ ShownTo(d)' = ShownTo(d) /\ DueTo(d)' = DueTo(d)
    BY <1>4 DEF Connect, Live, ShownTo, DueTo, Coming
  <2> QED
    BY <1>4, <2>1, <2>2 DEF Connect, View!Open, ShownTo, DueTo
<1>5. ASSUME NEW c \in Conns, Evaluate(c) PROVE UNCHANGED View!view
  <2>1. \A d \in Conns : Live(d)' = Live(d) /\ ShownTo(d)' = ShownTo(d) /\ DueTo(d)' = DueTo(d)
    BY <1>5 DEF Evaluate, Live, ShownTo, DueTo, Coming
  <2> QED
    BY <1>5, <2>1, ViewStutters DEF Evaluate
<1>6. ASSUME NEW c \in Conns, Push(c), gone[c] PROVE UNCHANGED View!view
  <2>1. \A d \in Conns : Live(d)' = Live(d) /\ ShownTo(d)' = ShownTo(d) /\ DueTo(d)' = DueTo(d)
    BY <1>6 DEF Push, Live, ShownTo, DueTo, Coming
  <2> QED
    BY <1>6, <2>1, ViewStutters DEF Push
<1>7. ASSUME NEW c \in Conns, Push(c), ~gone[c] PROVE UNCHANGED View!view \/ View!Next
  <2>1. /\ Live(c) /\ Live(c)' /\ DueTo(c)
        /\ ShownTo(c) <= held[c] /\ held[c] <= cache[env[c]] /\ ShownTo(c)' = held[c]
    BY <1>7 DEF Push, Live, ShownTo, DueTo, InOrder
  <2>2. \A d \in Conns : d # c => Live(d)' = Live(d) /\ ShownTo(d)' = ShownTo(d) /\ DueTo(d)' = DueTo(d)
    BY <1>7 DEF Push, Live, ShownTo, DueTo, Coming
  <2>3. held[c] # cache[env[c]] => DueTo(c)'
    BY <1>7, <2>1 DEF Push, NoLostWakeup, Warmth, DueTo, Coming, Live
  <2>4. \A d \in Conns : DueTo(d)' \in BOOLEAN
    BY DEF DueTo, Live
  <2>5. PICK v \in 1..cache[env[c]] : v = held[c]
    BY <1>7, <2>1 DEF Push, InOrder
  <2>6. View!Show(c, v)
    <3> HIDE DEF IInv, TypeOK
    <3>1. [d \in Conns |-> DueTo(d)]' \in [Conns -> BOOLEAN]
      BY <2>4
    <3>2. \A d \in Conns \ {c} : [a \in Conns |-> DueTo(a)]'[d] = [a \in Conns |-> DueTo(a)][d]
      BY <2>2
    <3>3. v # cache[env[c]] => [a \in Conns |-> DueTo(a)]'[c]
      BY <2>3, <2>5
    <3>4. [a \in Conns |-> ShownTo(a)]' = [[a \in Conns |-> ShownTo(a)] EXCEPT ![c] = v]
      BY <2>1, <2>2, <2>5
    <3>5. UNCHANGED <<cache, env, [a \in Conns |-> Live(a)]>>
      BY <1>7, <2>1, <2>2 DEF Push, Live
    <3> QED
      BY <2>1, <2>5, <3>1, <3>2, <3>3, <3>4, <3>5 DEF View!Show, ShownTo, DueTo
  <2> QED
    BY <2>6 DEF View!Next
<1>8. ASSUME NEW c \in Conns, Wake(c) PROVE UNCHANGED View!view
  <2>1. \A d \in Conns : Live(d)' = Live(d) /\ ShownTo(d)' = ShownTo(d) /\ DueTo(d)' = DueTo(d)
    BY <1>8 DEF Wake, Live, ShownTo, DueTo, Coming
  <2> QED
    BY <1>8, <2>1, ViewStutters DEF Wake
<1>9. ASSUME NEW c \in Conns, Leave(c) PROVE UNCHANGED View!view
  <2>1. \A d \in Conns : Live(d)' = Live(d) /\ ShownTo(d)' = ShownTo(d) /\ DueTo(d)' = DueTo(d)
    BY <1>9 DEF Leave, Live, ShownTo, DueTo, Coming
  <2> QED
    BY <1>9, <2>1, ViewStutters DEF Leave
<1>10. ASSUME NEW c \in Conns, Drop(c) PROVE View!Shut(c)
  <2>1. Live(c)' = FALSE /\ Live(c) = TRUE /\ ShownTo(c)' = 0 /\ DueTo(c)' = FALSE
    BY <1>10 DEF Drop, Live, ShownTo, DueTo
  <2>2. \A d \in Conns \ {c} : Live(d)' = Live(d) /\ ShownTo(d)' = ShownTo(d) /\ DueTo(d)' = DueTo(d)
    BY <1>10 DEF Drop, Live, ShownTo, DueTo, Coming
  <2> QED
    BY <1>10, <2>1, <2>2 DEF Drop, View!Shut, ShownTo, DueTo
<1>11. CASE UNCHANGED vars
  <2>1. \A d \in Conns : Live(d)' = Live(d) /\ ShownTo(d)' = ShownTo(d) /\ DueTo(d)' = DueTo(d)
    BY <1>11 DEF vars, Live, ShownTo, DueTo, Coming
  <2> QED
    BY <1>11, <2>1, ViewStutters DEF vars
<1> QED
  BY <1>1, <1>2, <1>3, <1>4, <1>5, <1>6, <1>7, <1>8, <1>9, <1>10, <1>11
  DEF Next, Handler, View!Next

\* Once the cache is warm the stream endpoint implements PushedView: every
\* connected client is shown versions of its environment in order, and one
\* that is not shown the latest is due another push.
THEOREM StreamImplementsView == ~WarmPending => (Spec => ViewSpec)
<1> SUFFICES ASSUME ~WarmPending PROVE Spec => ViewSpec
  OBVIOUS
<1>1. IInv /\ [Next]_vars => [View!Next]_View!view
  BY StepView
<1> QED
  BY <1>1, InitView, Invariance, PTL DEF Spec, ViewSpec, View!Spec
=============================================================================
