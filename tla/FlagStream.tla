---------------------------- MODULE FlagStream -----------------------------
(***************************************************************************)
(* The event stream of one replica: handleEvalStream (internal/server/     *)
(* stream.go) over SubscribeEnv, notifyEnv and reloadEnv (internal/flags/  *)
(* service.go).  A reload installs a snapshot under one lock and notifies  *)
(* the subscribers under another, so a stream can evaluate, write or wait  *)
(* in between; each subscriber's channel holds one signal and a full       *)
(* channel drops the next one.                                             *)
(*                                                                         *)
(* A snapshot is the number of the install that put it into the cache.     *)
(* Connections end at any moment: the client leaves, or the server's       *)
(* timeouts cut the transport; the handler notices in its select only.     *)
(***************************************************************************)
EXTENDS Naturals

CONSTANTS
  Conns,        \* stream requests
  Envs,         \* environment ids
  Reloaders,    \* goroutines that run reloadEnv
  WarmPending,  \* does the process serve streams before warm() has finished?
  MaxInstalls,  \* bound: reloads
  MaxConnects   \* bound: connections opened

ASSUME FlagStreamAssumption ==
  /\ Envs # {}
  /\ WarmPending \in BOOLEAN
  /\ MaxInstalls \in Nat /\ MaxConnects \in Nat

VARIABLES
  cache,     \* per environment: the install its snapshot comes from
  warmed,    \* has warm() replaced the cache?
  notifying, \* per reloader: environments installed but not yet notified
  pc,        \* per connection: where its handler is
  env,       \* per connection: the environment of its SDK key
  signal,    \* per connection: is a signal in its channel?
  held,      \* per connection: the snapshot EvaluateAll returned
  got,       \* per connection: the snapshot its client received last, 0 for none
  gone,      \* per connection: is the transport dead?
  skipped,   \* history: did warm() replace what the connection had read?
  installs, connects

vars == <<cache, warmed, notifying, pc, env, signal, held, got, gone, skipped,
          installs, connects>>
conn == <<pc, env, signal, held, got, gone>>

\* Types of the streams of one replica.
TypeOK ==
  /\ cache \in [Envs -> Nat \ {0}]
  /\ warmed \in BOOLEAN
  /\ notifying \in [Reloaders -> SUBSET Envs]
  /\ pc \in [Conns -> {"closed", "eval", "write", "wait"}]
  /\ env \in [Conns -> Envs]
  /\ signal \in [Conns -> BOOLEAN]
  /\ held \in [Conns -> Nat]
  /\ got \in [Conns -> Nat]
  /\ gone \in [Conns -> BOOLEAN]
  /\ skipped \in [Conns -> BOOLEAN]
  /\ installs \in Nat /\ connects \in Nat

Init ==
  /\ cache = [e \in Envs |-> 1]
  /\ warmed = ~WarmPending
  /\ notifying = [t \in Reloaders |-> {}]
  /\ pc = [c \in Conns |-> "closed"]
  /\ env = [c \in Conns |-> CHOOSE e \in Envs : TRUE]
  /\ signal = [c \in Conns |-> FALSE]
  /\ held = [c \in Conns |-> 0]
  /\ got = [c \in Conns |-> 0]
  /\ gone = [c \in Conns |-> FALSE]
  /\ skipped = [c \in Conns |-> FALSE]
  /\ installs = 0 /\ connects = 0

\* The subscribers of e: SubscribeEnv ran and cancel() has not.
Subs(e) == {c \in Conns : pc[c] # "closed" /\ env[c] = e}

\* reloadEnv, first half: the snapshot replaces the old one under mu.
Install(t, e) ==
  /\ notifying[t] = {}
  /\ installs < MaxInstalls
  /\ cache' = [cache EXCEPT ![e] = @ + 1]
  /\ notifying' = [notifying EXCEPT ![t] = {e}]
  /\ installs' = installs + 1
  /\ UNCHANGED <<warmed, skipped, connects>> /\ UNCHANGED conn

\* Wrong variant: only streams that wait in their select are woken, as with an
\* unbuffered channel.
NotifyUnbuffered(t, e) ==
  /\ e \in notifying[t]
  /\ notifying' = [notifying EXCEPT ![t] = @ \ {e}]
  /\ signal' = [c \in Conns |-> signal[c] \/ (c \in Subs(e) /\ pc[c] = "wait")]
  /\ UNCHANGED <<cache, warmed, pc, env, held, got, gone, skipped, installs, connects>>

\* reloadEnv, second half: notifyEnv under submu; a full channel keeps its one signal.
Notify(t, e) ==
  /\ e \in notifying[t]
  /\ notifying' = [notifying EXCEPT ![t] = @ \ {e}]
  /\ signal' = [c \in Conns |-> signal[c] \/ c \in Subs(e)]
  /\ UNCHANGED <<cache, warmed, pc, env, held, got, gone, skipped, installs, connects>>

\* warm() replaces the whole cache and notifies no one.
Warm ==
  /\ ~warmed
  /\ warmed' = TRUE
  /\ cache' = [e \in Envs |-> cache[e] + 1]
  /\ skipped' = [c \in Conns |-> skipped[c] \/ pc[c] \in {"write", "wait"}]
  /\ UNCHANGED <<notifying, installs, connects>> /\ UNCHANGED conn

\* Wrong variant: the first snapshot is evaluated before the subscription exists.
ConnectLate(c, e) ==
  /\ pc[c] = "closed"
  /\ connects < MaxConnects
  /\ \E old \in 1..cache[e] :
       /\ pc' = [pc EXCEPT ![c] = "write"]
       /\ held' = [held EXCEPT ![c] = old]
  /\ env' = [env EXCEPT ![c] = e]
  /\ signal' = [signal EXCEPT ![c] = FALSE]
  /\ got' = [got EXCEPT ![c] = 0]
  /\ gone' = [gone EXCEPT ![c] = FALSE]
  /\ skipped' = [skipped EXCEPT ![c] = FALSE]
  /\ connects' = connects + 1
  /\ UNCHANGED <<cache, warmed, notifying, installs>>

\* A client opens the stream: SubscribeEnv comes before the first send().
Connect(c, e) ==
  /\ pc[c] = "closed"
  /\ connects < MaxConnects
  /\ pc' = [pc EXCEPT ![c] = "eval"]
  /\ env' = [env EXCEPT ![c] = e]
  /\ signal' = [signal EXCEPT ![c] = FALSE]
  /\ held' = [held EXCEPT ![c] = 0]
  /\ got' = [got EXCEPT ![c] = 0]
  /\ gone' = [gone EXCEPT ![c] = FALSE]
  /\ skipped' = [skipped EXCEPT ![c] = FALSE]
  /\ connects' = connects + 1
  /\ UNCHANGED <<cache, warmed, notifying, installs>>

\* send(), first half: EvaluateAll copies the snapshot out under the read lock.
Evaluate(c) ==
  /\ pc[c] = "eval"
  /\ held' = [held EXCEPT ![c] = cache[env[c]]]
  /\ skipped' = [skipped EXCEPT ![c] = FALSE]
  /\ pc' = [pc EXCEPT ![c] = "write"]
  /\ UNCHANGED <<cache, warmed, notifying, env, signal, got, gone, installs, connects>>

\* send(), second half: the write; its error is ignored when the transport is dead.
Push(c) ==
  /\ pc[c] = "write"
  /\ got' = [got EXCEPT ![c] = IF gone[c] THEN @ ELSE held[c]]
  /\ pc' = [pc EXCEPT ![c] = "wait"]
  /\ UNCHANGED <<cache, warmed, notifying, env, signal, held, gone, skipped, installs, connects>>

\* select: a signal, taken whether or not the transport is still alive.
Wake(c) ==
  /\ pc[c] = "wait" /\ signal[c]
  /\ signal' = [signal EXCEPT ![c] = FALSE]
  /\ pc' = [pc EXCEPT ![c] = "eval"]
  /\ UNCHANGED <<cache, warmed, notifying, env, held, got, gone, skipped, installs, connects>>

\* select: r.Context() is done; the handler returns and cancel() unsubscribes.
Leave(c) ==
  /\ pc[c] = "wait" /\ gone[c]
  /\ pc' = [pc EXCEPT ![c] = "closed"]
  /\ UNCHANGED <<cache, warmed, notifying, env, signal, held, got, gone, skipped, installs, connects>>

\* The transport dies.
Drop(c) ==
  /\ pc[c] # "closed" /\ ~gone[c]
  /\ gone' = [gone EXCEPT ![c] = TRUE]
  /\ UNCHANGED <<cache, warmed, notifying, pc, env, signal, held, got, skipped, installs, connects>>

Handler(c) == Evaluate(c) \/ Push(c) \/ Wake(c)

Next ==
  \/ \E t \in Reloaders : \E e \in Envs : Install(t, e) \/ Notify(t, e)
  \/ Warm
  \/ \E c \in Conns : \E e \in Envs : Connect(c, e)
  \/ \E c \in Conns : Handler(c) \/ Leave(c) \/ Drop(c)

Spec == Init /\ [][Next]_vars

\* Goroutines that can run do run.  A select whose channel and context are both
\* ready picks either, so leaving needs strong fairness: a handler that is
\* woken again and again still notices the dead transport.
Fairness ==
  /\ \A t \in Reloaders : \A e \in Envs : WF_vars(Notify(t, e))
  /\ \A c \in Conns : WF_vars(Handler(c)) /\ SF_vars(Leave(c))
  /\ WF_vars(Warm)

FairSpec == Spec /\ Fairness
-----------------------------------------------------------------------------
Live(c) == pc[c] # "closed" /\ ~gone[c]

\* A signal for c is in its channel, or a reloader is about to put one there.
Coming(c) == signal[c] \/ \E t \in Reloaders : env[c] \in notifying[t]

\* No lost wake-up: a stream that waits, or is about to, without the snapshot
\* the cache holds has a signal coming, whatever reloads overlapped its
\* subscription, its evaluation and its write; only warm() breaks this.
NoLostWakeup ==
  \A c \in Conns :
    /\ pc[c] = "write" /\ held[c] # cache[env[c]] => Coming(c) \/ skipped[c]
    /\ pc[c] = "wait" /\ ~gone[c] /\ got[c] # cache[env[c]] => Coming(c) \/ skipped[c]

\* A client never holds a snapshot that was never in the cache of its
\* environment, nor does the handler hold one older than the client's.
InOrder ==
  \A c \in Conns :
    pc[c] # "closed" =>
      /\ got[c] <= cache[env[c]] /\ held[c] <= cache[env[c]]
      /\ got[c] <= held[c]
      /\ pc[c] # "eval" => held[c] > 0

\* A stream that stays connected ends with what the cache holds, once reloads
\* stop, and a handler whose transport is dead returns and unsubscribes.
StreamsSettle ==
  /\ <>[](\A c \in Conns : Live(c) => got[c] = cache[env[c]] \/ skipped[c])
  /\ \A c \in Conns : (pc[c] # "closed" /\ gone[c]) ~> (pc[c] = "closed" \/ ~gone[c])

Quiet ==
  /\ warmed
  /\ \A t \in Reloaders : notifying[t] = {}
  /\ \A c \in Conns : pc[c] \in {"closed", "wait"} /\ ~signal[c]

\* When nothing is under way any more, every connected client has what the
\* cache holds: "re-pushes them whenever the environment changes"
\* (internal/server/stream.go).
ClientsCurrent ==
  Quiet => \A c \in Conns : Live(c) => got[c] = cache[env[c]]
-----------------------------------------------------------------------------
View == INSTANCE PushedView WITH
  Viewers <- Conns,
  version <- cache,
  open <- [c \in Conns |-> Live(c)],
  shown <- [c \in Conns |-> IF Live(c) THEN got[c] ELSE 0],
  due <- [c \in Conns |-> Live(c) /\ (pc[c] # "wait" \/ Coming(c))]

\* The stream endpoint implements PushedView once the cache is warm.
ViewSpec == View!Spec
=============================================================================
