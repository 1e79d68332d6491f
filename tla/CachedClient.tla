--------------------------- MODULE CachedClient ----------------------------
(***************************************************************************)
(* The JavaScript SDK (sdk/javascript/src/index.ts): createCachedClient    *)
(* over the stream, request and sendEvents of createClient.  JavaScript    *)
(* runs one callback to completion at a time, so an action is one stretch  *)
(* of code between two awaits: a call up to its first await, or the        *)
(* continuation of a promise.  Any queued continuation may run next.       *)
(*                                                                         *)
(* A snapshot is the context it was evaluated for and the version of the   *)
(* flags on the server; Eval says what it holds for a flag.  Usage counts  *)
(* are kept per flag and variation, as in the code.                        *)
(***************************************************************************)
EXTENDS Integers, Sequences, FiniteSets

CONSTANTS
  Contexts,      \* evaluation contexts
  FirstContext,  \* option context
  Flags,         \* flag keys
  Variations,    \* variation indexes
  Eval(_, _, _), \* context, version, flag: what the server evaluates
  Absent,        \* Eval's answer for a flag the SDK key does not see
  Value(_, _),   \* flag, variation: the JSON value, with its type (of null: "object")
  Fallback,      \* what a caller gets instead of a value
  Nobody,        \* "no context": an empty store
  Calls,         \* calls of identify and waitForInitialization
  Requests,      \* requests with usage counts that can be on their way at once
  TrackEvents,   \* option sendEvents
  FlushTimer,    \* is option flushIntervalMs above zero?
  MaxStreams, MaxVersion, MaxReads, MaxFailures  \* bounds

ASSUME CachedClientAssumption ==
  /\ FirstContext \in Contexts /\ Nobody \notin Contexts /\ Absent \notin Variations
  /\ TrackEvents \in BOOLEAN /\ FlushTimer \in BOOLEAN
  /\ MaxStreams \in Nat \ {0} /\ MaxVersion \in Nat \ {0}
  /\ MaxReads \in Nat /\ MaxFailures \in Nat

ASSUME EvalAssumption ==
  \A c \in Contexts, v \in 1..MaxVersion, f \in Flags :
    Eval(c, v, f) \in Variations \cup {Absent}

ASSUME ValueAssumption ==
  \A f \in Flags, n \in Variations :
    Value(f, n).type \in {"boolean", "string", "number", "object"}

\* Where a counted evaluation is, unless it is in a request.
Places == {"none", "buffer", "sent", "lost"}

ASSUME RequestAssumption == Requests \cap Places = {}

Streams == 1..MaxStreams
Keys == Flags \X Variations
Zero == [k \in Keys |-> 0]
Plus(a, b) == [k \in Keys |-> a[k] + b[k]]
Reads == 1..MaxReads

\* Backoff in seconds: 1000 ms doubled up to 30 000.
FirstBackoff == 1

NextBackoff(b) == IF 2 * b < 30 THEN 2 * b ELSE 30

VARIABLES
  version,   \* the server's flags
  used,      \* how many streams were started; the last one is handle
  ctxOf, closed, phase, backoff, wire, chunk, pushed, \* per stream
  storeCtx, storeVer,    \* store: whose snapshot, and which
  ready, currentContext,
  call, arg,             \* per call: where it is; the context it will switch to
  waitsFor,              \* per call: the requests its flush still waits for
  counts,                \* buffered usage
  inflight, sending,     \* per request: its counts, and is it on its way?
  timer, stopped,        \* is the flush timer set?  was close() called?
  tally, acked, dropped, \* counts the server took, the client knows sent, gave up
  reads,                 \* how many reads there were
  keyOf, place,          \* history, per read: what it counted, and where that is now
  failures,
  late,      \* history: an event of a closed stream was handed to the store
  revived    \* history: an identify went on after close()

stream == <<used, ctxOf, closed, phase, backoff, wire, chunk, pushed>>
snap == <<storeCtx, storeVer, ready, currentContext>>
usage == <<counts, inflight, sending, tally, acked, dropped, reads, keyOf, place>>
vars == <<version, used, ctxOf, closed, phase, backoff, wire, chunk, pushed, storeCtx, storeVer,
          ready, currentContext, call, arg, waitsFor, counts, inflight, sending, tally, acked,
          dropped, reads, keyOf, place, timer, stopped, failures, late, revived>>

Phases == {"none", "connecting", "reading", "chunk", "backoff", "ended"}

StreamType ==
  /\ version \in 1..MaxVersion
  /\ used \in Streams
  /\ ctxOf \in [Streams -> Contexts]
  /\ closed \in [Streams -> BOOLEAN]
  /\ phase \in [Streams -> Phases]
  /\ backoff \in [Streams -> 1..30]
  /\ wire \in [Streams -> Seq(1..MaxVersion)]
  /\ chunk \in [Streams -> 0..MaxVersion]
  /\ pushed \in [Streams -> 0..MaxVersion]

SnapType ==
  /\ storeCtx \in Contexts \cup {Nobody}
  /\ storeVer \in 0..MaxVersion
  /\ ready \in BOOLEAN
  /\ currentContext \in Contexts

CallType ==
  /\ call \in [Calls -> {"idle", "flushing", "waiting", "done"}]
  /\ arg \in [Calls -> Contexts]
  /\ waitsFor \in [Calls -> SUBSET Requests]

UsageType ==
  /\ counts \in [Keys -> Nat]
  /\ inflight \in [Requests -> [Keys -> Nat]]
  /\ sending \in [Requests -> BOOLEAN]
  /\ tally \in [Keys -> Nat] /\ acked \in [Keys -> Nat]
  /\ dropped \in [Keys -> Nat]

HistoryType ==
  /\ reads \in 0..MaxReads
  /\ keyOf \in [Reads -> Keys \cup {Absent}]
  /\ place \in [Reads -> Places \cup Requests]

RestType ==
  /\ timer \in BOOLEAN /\ stopped \in BOOLEAN
  /\ failures \in Nat
  /\ late \in BOOLEAN /\ revived \in BOOLEAN

\* Types of the client's variables, its streams and its requests.
TypeOK == StreamType /\ SnapType /\ CallType /\ UsageType /\ HistoryType /\ RestType

\* createCachedClient: nothing stored, the first stream started, the timer set.
Init ==
  /\ version = 1
  /\ used = 1
  /\ currentContext = FirstContext
  /\ ctxOf = [s \in Streams |-> FirstContext]
  /\ closed = [s \in Streams |-> FALSE]
  /\ phase = [s \in Streams |-> IF s = 1 THEN "connecting" ELSE "none"]
  /\ backoff = [s \in Streams |-> FirstBackoff]
  /\ wire = [s \in Streams |-> <<>>]
  /\ chunk = [s \in Streams |-> 0]
  /\ pushed = [s \in Streams |-> 0]
  /\ storeCtx = Nobody /\ storeVer = 0 /\ ready = FALSE
  /\ call = [k \in Calls |-> "idle"]
  /\ arg = [k \in Calls |-> FirstContext]
  /\ waitsFor = [k \in Calls |-> {}]
  /\ counts = Zero
  /\ inflight = [r \in Requests |-> Zero]
  /\ sending = [r \in Requests |-> FALSE]
  /\ timer = (FlushTimer /\ TrackEvents) /\ stopped = FALSE
  /\ tally = Zero /\ acked = Zero /\ dropped = Zero
  /\ reads = 0 /\ failures = 0
  /\ keyOf = [i \in Reads |-> Absent] /\ place = [i \in Reads |-> "none"]
  /\ late = FALSE /\ revived = FALSE

----------------------------------------------------------------------------
(* The streams: run() and readEventStream.                                 *)

\* External: someone edits a flag; every snapshot evaluated later differs.
Edit ==
  /\ version < MaxVersion
  /\ version' = version + 1
  /\ UNCHANGED <<call, arg, waitsFor, timer, stopped, failures, late, revived>>
  /\ UNCHANGED stream /\ UNCHANGED snap /\ UNCHANGED usage

\* The stream request is answered: backoff starts over and reading begins.
ConnectOk(s) ==
  /\ phase[s] = "connecting" /\ ~closed[s]
  /\ phase' = [phase EXCEPT ![s] = "reading"]
  /\ backoff' = [backoff EXCEPT ![s] = FirstBackoff]
  /\ UNCHANGED <<version, used, ctxOf, closed, wire, chunk, pushed, call, arg, waitsFor,
                 timer, stopped, failures, late, revived>>
  /\ UNCHANGED snap /\ UNCHANGED usage

\* Wrong variant: an error ends the loop.
ConnectionFailsForGood(s) ==
  /\ phase[s] \in {"connecting", "reading"} /\ ~closed[s]
  /\ failures < MaxFailures
  /\ failures' = failures + 1
  /\ phase' = [phase EXCEPT ![s] = "ended"]
  /\ wire' = [wire EXCEPT ![s] = <<>>]
  /\ pushed' = [pushed EXCEPT ![s] = 0]
  /\ UNCHANGED <<version, used, ctxOf, closed, backoff, chunk, call, arg,
                 waitsFor, timer, stopped, late, revived>>
  /\ UNCHANGED snap /\ UNCHANGED usage

\* The request is refused, or the body ends or breaks: onError, then the delay.
ConnectionFails(s) ==
  /\ phase[s] \in {"connecting", "reading"} /\ ~closed[s]
  /\ failures < MaxFailures
  /\ failures' = failures + 1
  /\ phase' = [phase EXCEPT ![s] = "backoff"]
  /\ wire' = [wire EXCEPT ![s] = <<>>]
  /\ pushed' = [pushed EXCEPT ![s] = 0]
  /\ UNCHANGED <<version, used, ctxOf, closed, backoff, chunk, call, arg,
                 waitsFor, timer, stopped, late, revived>>
  /\ UNCHANGED snap /\ UNCHANGED usage

\* The delay is over; the loop looks at closed only now.
DelayOver(s) ==
  /\ phase[s] = "backoff"
  /\ backoff' = [backoff EXCEPT ![s] = NextBackoff(@)]
  /\ phase' = [phase EXCEPT ![s] = IF closed[s] THEN "ended" ELSE "connecting"]
  /\ UNCHANGED <<version, used, ctxOf, closed, wire, chunk, pushed, call, arg,
                 waitsFor, timer, stopped, failures, late, revived>>
  /\ UNCHANGED snap /\ UNCHANGED usage

\* Wrong variant: the signal is given to the fetch only, not to the body.
AbortedFetchOnly(s) ==
  /\ phase[s] = "connecting" /\ closed[s]
  /\ phase' = [phase EXCEPT ![s] = "ended"]
  /\ UNCHANGED <<version, used, ctxOf, closed, backoff, wire, chunk, pushed, call, arg,
                 waitsFor, timer, stopped, failures, late, revived>>
  /\ UNCHANGED snap /\ UNCHANGED usage

\* The abort rejects a pending fetch or read, and run() returns.
Aborted(s) ==
  /\ phase[s] \in {"connecting", "reading"} /\ closed[s]
  /\ phase' = [phase EXCEPT ![s] = "ended"]
  /\ wire' = [wire EXCEPT ![s] = <<>>]
  /\ pushed' = [pushed EXCEPT ![s] = 0]
  /\ UNCHANGED <<version, used, ctxOf, closed, backoff, chunk, call, arg,
                 waitsFor, timer, stopped, failures, late, revived>>
  /\ UNCHANGED snap /\ UNCHANGED usage

\* External: the server sends the first snapshot, and one per change.
ServerPush(s) ==
  /\ phase[s] \in {"reading", "chunk"} /\ ~closed[s]
  /\ pushed[s] < version
  /\ pushed' = [pushed EXCEPT ![s] = version]
  /\ wire' = [wire EXCEPT ![s] = Append(@, version)]
  /\ UNCHANGED <<version, used, ctxOf, closed, phase, backoff, chunk, call, arg,
                 waitsFor, timer, stopped, failures, late, revived>>
  /\ UNCHANGED snap /\ UNCHANGED usage

\* reader.read() resolves with a chunk that completes the first n events (one
\* that completes none only grows the buffer).  What the chunk does to the store
\* in the end is its last event.
ReadChunk(s) ==
  /\ phase[s] = "reading" /\ ~closed[s]
  /\ \E n \in 1..Len(wire[s]) :
       /\ chunk' = [chunk EXCEPT ![s] = wire[s][n]]
       /\ wire' = [wire EXCEPT ![s] = SubSeq(@, n + 1, Len(@))]
  /\ phase' = [phase EXCEPT ![s] = "chunk"]
  /\ UNCHANGED <<version, used, ctxOf, closed, backoff, pushed, call, arg, waitsFor,
                 timer, stopped, failures, late, revived>>
  /\ UNCHANGED snap /\ UNCHANGED usage

\* startStream's onUpdate: replace the store; on the first snapshot markReady
\* resolves everyone who waits.
OnUpdate(s) ==
  /\ storeCtx' = ctxOf[s] /\ storeVer' = chunk[s]
  /\ ready' = TRUE
  /\ call' = [k \in Calls |-> IF ~ready /\ call[k] = "waiting" THEN "done" ELSE call[k]]
  /\ UNCHANGED currentContext

\* The continuation of the read: every event of the chunk goes to onData; nothing
\* here asks whether the stream was closed since the read resolved.
DeliverChunk(s) ==
  /\ phase[s] = "chunk"
  /\ phase' = [phase EXCEPT ![s] = "reading"]
  /\ chunk' = [chunk EXCEPT ![s] = 0]
  /\ OnUpdate(s)
  /\ late' = (late \/ closed[s])
  /\ UNCHANGED <<version, used, ctxOf, closed, backoff, wire, pushed, arg, waitsFor,
                 timer, stopped, failures, revived>>
  /\ UNCHANGED usage

----------------------------------------------------------------------------
(* Reads and usage counts.                                                 *)

\* What the store holds for f.
Cached(f) == IF storeCtx = Nobody THEN Absent ELSE Eval(storeCtx, storeVer, f)

\* The typed reads: boolVariation, stringVariation, numberVariation, variation.
Kinds == {"boolean", "string", "number", "any"}

\* What a read of the cached client returns: no network, no type but the one asked for.
CachedVariation(f, kind) ==
  IF Cached(f) # Absent /\ (kind = "any" \/ Value(f, Cached(f)).type = kind)
  THEN Value(f, Cached(f)) ELSE Fallback

CachedAllFlags == [f \in {g \in Flags : Cached(g) # Absent} |-> Cached(f)]

\* safeValue of createClient, answered for context c by a server with version v: a
\* flag it does not show is a 404, which throws.
Undefined == [type |-> "undefined"]
SafeValue(c, v, f) ==
  IF Eval(c, v, f) = Absent THEN Undefined ELSE Value(f, Eval(c, v, f))

\* What a read of createClient returns.
ClientVariation(c, v, f, kind) ==
  LET x == SafeValue(c, v, f)
  IN IF x.type = kind \/ (kind = "any" /\ x # Undefined) THEN x ELSE Fallback

AllFlags(c, v) == [f \in {g \in Flags : Eval(c, v, g) # Absent} |-> Eval(c, v, f)]

\* read() and record(): an evaluation found in the store is counted, whatever
\* type the caller asked for.
Record(f) ==
  IF Cached(f) # Absent /\ TrackEvents
  THEN /\ counts' = [counts EXCEPT ![<<f, Cached(f)>>] = @ + 1]
       /\ keyOf' = [keyOf EXCEPT ![reads + 1] = <<f, Cached(f)>>]
       /\ place' = [place EXCEPT ![reads + 1] = "buffer"]
  ELSE UNCHANGED <<counts, keyOf, place>>

\* boolVariation, stringVariation, numberVariation and variation of the cache.
Variation(f) ==
  /\ reads < MaxReads
  /\ reads' = reads + 1
  /\ Record(f)
  /\ UNCHANGED <<version, call, arg, waitsFor, inflight, sending, tally, acked, dropped,
                 timer, stopped, failures, late, revived>>
  /\ UNCHANGED stream /\ UNCHANGED snap

\* History: the evaluations in one place go to another.
Moved(from, to) == [i \in Reads |-> IF place[i] = from THEN to ELSE place[i]]

\* Wrong variant: the counts are cleared only when the request is answered.
StartFlushLateClear(r) ==
  /\ counts # Zero
  /\ ~sending[r]
  /\ sending' = [sending EXCEPT ![r] = TRUE]
  /\ inflight' = [inflight EXCEPT ![r] = counts]
  /\ place' = Moved("buffer", r)
  /\ UNCHANGED <<counts, tally, acked, dropped, reads, keyOf>>

\* flush() up to its await: the counts leave the buffer before they are sent.
StartFlush(r) ==
  /\ counts # Zero
  /\ ~sending[r]
  /\ sending' = [sending EXCEPT ![r] = TRUE]
  /\ inflight' = [inflight EXCEPT ![r] = counts]
  /\ counts' = Zero
  /\ place' = Moved("buffer", r)
  /\ UNCHANGED <<tally, acked, dropped, reads, keyOf>>

\* The interval fires.
TimerFlush(r) ==
  /\ timer
  /\ StartFlush(r)
  /\ UNCHANGED <<version, call, arg, waitsFor, timer, stopped, failures, late, revived>>
  /\ UNCHANGED stream /\ UNCHANGED snap

\* flush() called by the application.
Flush(r) ==
  /\ StartFlush(r)
  /\ UNCHANGED <<version, call, arg, waitsFor, timer, stopped, failures, late, revived>>
  /\ UNCHANGED stream /\ UNCHANGED snap

\* The flush that r belongs to goes on: the calls that awaited it no longer do.
Settled(r) ==
  /\ sending' = [sending EXCEPT ![r] = FALSE]
  /\ inflight' = [inflight EXCEPT ![r] = Zero]
  /\ waitsFor' = [k \in Calls |-> waitsFor[k] \ {r}]

\* request() of sendEvents gets its answer.
SendOk(r) ==
  /\ sending[r] /\ Settled(r)
  /\ tally' = Plus(tally, inflight[r])
  /\ acked' = Plus(acked, inflight[r])
  /\ place' = Moved(r, "sent")
  /\ UNCHANGED <<version, call, arg, timer, stopped, failures, late, revived,
                 counts, dropped, reads, keyOf>>
  /\ UNCHANGED stream /\ UNCHANGED snap

\* request() throws: the server refused the counts, or took them and its answer
\* was lost.  onError is called and the counts are not put back.
SendFails(r) ==
  /\ sending[r] /\ Settled(r)
  /\ failures < MaxFailures
  /\ failures' = failures + 1
  /\ dropped' = Plus(dropped, inflight[r])
  /\ place' = Moved(r, "lost")
  /\ \/ tally' = tally
     \/ tally' = Plus(tally, inflight[r])
  /\ UNCHANGED <<version, call, arg, timer, stopped, late, revived, counts,
                 acked, reads, keyOf>>
  /\ UNCHANGED stream /\ UNCHANGED snap

----------------------------------------------------------------------------
(* The calls.                                                              *)

\* waitForInitialization(): resolved at once, or when the first snapshot arrives.
WaitForInitialization(k) ==
  /\ call[k] = "idle"
  /\ call' = [call EXCEPT ![k] = IF ready THEN "done" ELSE "waiting"]
  /\ UNCHANGED <<version, arg, waitsFor, timer, stopped, failures, late, revived>>
  /\ UNCHANGED stream /\ UNCHANGED snap /\ UNCHANGED usage

\* identify(c) up to "await flush()"; an empty buffer sends no request.
Identify(k, c) ==
  /\ call[k] = "idle"
  /\ used < MaxStreams
  /\ call' = [call EXCEPT ![k] = "flushing"]
  /\ arg' = [arg EXCEPT ![k] = c]
  /\ \/ counts = Zero /\ UNCHANGED <<waitsFor, usage>>
     \/ \E r \in Requests : /\ StartFlush(r)
                            /\ waitsFor' = [waitsFor EXCEPT ![k] = {r}]
  /\ UNCHANGED <<version, timer, stopped, failures, late, revived>>
  /\ UNCHANGED stream /\ UNCHANGED snap

\* Wrong variant: the stream in place stays open.
RestartKeepsOld(c) ==
  /\ closed' = closed
  /\ used' = used + 1
  /\ ctxOf' = [ctxOf EXCEPT ![used + 1] = c]
  /\ phase' = [phase EXCEPT ![used + 1] = "connecting"]
  /\ UNCHANGED <<backoff, wire, chunk, pushed>>

\* handle.close(), then startStream() for the new context.
Restart(c) ==
  /\ closed' = [closed EXCEPT ![used] = TRUE]
  /\ used' = used + 1
  /\ ctxOf' = [ctxOf EXCEPT ![used + 1] = c]
  /\ phase' = [phase EXCEPT ![used + 1] = "connecting"]
  /\ UNCHANGED <<backoff, wire, chunk, pushed>>

\* Wrong variant: the stream starts before the context is switched.
IdentifyResumesStale(k) ==
  /\ call[k] = "flushing" /\ waitsFor[k] = {}
  /\ used < MaxStreams
  /\ Restart(currentContext)
  /\ storeCtx' = Nobody /\ storeVer' = 0
  /\ ready' = FALSE
  /\ currentContext' = arg[k]
  /\ call' = [call EXCEPT ![k] = "waiting"]
  /\ revived' = (revived \/ stopped)
  /\ arg' = [arg EXCEPT ![k] = FirstContext]
  /\ UNCHANGED <<version, waitsFor, timer, stopped, failures, late>>
  /\ UNCHANGED usage

\* The rest of identify: close the stream, reset the store, start over, wait.
IdentifyResumes(k) ==
  /\ call[k] = "flushing" /\ waitsFor[k] = {}
  /\ used < MaxStreams
  /\ Restart(arg[k])
  /\ storeCtx' = Nobody /\ storeVer' = 0
  /\ ready' = FALSE
  /\ currentContext' = arg[k]
  /\ call' = [call EXCEPT ![k] = "waiting"]
  /\ revived' = (revived \/ stopped)
  /\ arg' = [arg EXCEPT ![k] = FirstContext]
  /\ UNCHANGED <<version, waitsFor, timer, stopped, failures, late>>
  /\ UNCHANGED usage

\* close(): stop the timer, close the stream, flush a last time.
Close ==
  /\ ~stopped
  /\ stopped' = TRUE /\ timer' = FALSE
  /\ closed' = [closed EXCEPT ![used] = TRUE]
  /\ \/ counts = Zero /\ UNCHANGED usage
     \/ \E r \in Requests : StartFlush(r)
  /\ UNCHANGED <<version, call, arg, waitsFor, failures, late, revived, used, ctxOf,
                 phase, backoff, wire, chunk, pushed>>
  /\ UNCHANGED snap

StreamStep(s) ==
  \/ ConnectOk(s) \/ ConnectionFails(s) \/ DelayOver(s) \/ Aborted(s)
  \/ ServerPush(s) \/ ReadChunk(s) \/ DeliverChunk(s)

Next ==
  \/ Edit
  \/ \E s \in Streams : StreamStep(s)
  \/ \E f \in Flags : Variation(f)
  \/ \E r \in Requests : TimerFlush(r) \/ Flush(r) \/ SendOk(r) \/ SendFails(r)
  \/ \E k \in Calls : \/ WaitForInitialization(k)
                      \/ \E c \in Contexts : Identify(k, c)
                      \/ IdentifyResumes(k)
  \/ Close

Spec == Init /\ [][Next]_vars

\* What the loop of a stream does next when nothing fails.
Proceed(s) ==
  ConnectOk(s) \/ DelayOver(s) \/ Aborted(s) \/ ReadChunk(s) \/ DeliverChunk(s)

\* The event loop runs every queued continuation and timer; requests are
\* answered one way or the other, and fail finitely often (MaxFailures).
Fairness ==
  /\ \A s \in Streams : WF_vars(Proceed(s)) /\ WF_vars(ServerPush(s))
  /\ \A r \in Requests : WF_vars(SendOk(r))
  /\ WF_vars(\E r \in Requests : TimerFlush(r))
  /\ \A k \in Calls : WF_vars(IdentifyResumes(k))

FairSpec == Spec /\ Fairness

----------------------------------------------------------------------------
(* Properties.                                                             *)

Open == {s \in Streams : phase[s] # "none" /\ ~closed[s]}

\* However calls of identify and close overlap, no stream is left open but the
\* one handle refers to (startStream runs only after handle.close()), and after
\* close() not even that one, unless an identify was still running then.
OneStream == /\ Open \subseteq {used}
             /\ stopped /\ ~revived => Open = {}

\* The store serves the current context.  The only way to another context's
\* values is an event read before its stream was closed and handed on after.
ForeignStoreHasCause ==
  storeCtx \notin {Nobody, currentContext} => late

\* A program that reads from the cache sees what one that asks the server with every read
\* sees, of a version the server had, all flags of one version, whatever type it asks for;
\* the cache that has no snapshot returns the fallback.  Only an event of a closed stream
\* brings anything else.
ReadsHonest ==
  /\ ForeignStoreHasCause
  /\ storeCtx # Nobody /\ ~late => \E v \in 1..version :
       /\ CachedAllFlags = AllFlags(currentContext, v)
       /\ \A f \in Flags, kind \in Kinds :
            CachedVariation(f, kind) = ClientVariation(currentContext, v, f, kind)
  /\ storeCtx = Nobody => \A f \in Flags, kind \in Kinds : CachedVariation(f, kind) = Fallback

\* Nobody waits for a snapshot that has arrived: when the client is ready, every
\* waitForInitialization and identify that registered before has been resolved,
\* and a store that is not ready is empty.
NobodyStranded ==
  /\ ready => \A k \in Calls : call[k] # "waiting"
  /\ ready <=> storeCtx # Nobody

At(key, p) == {i \in Reads : keyOf[i] = key /\ place[i] = p}

\* Every counted evaluation is in one place only: the buffer, a request on its way,
\* known to be sent, or reported lost to onError; the buffer, the requests and the
\* outcomes count exactly the evaluations that are there, and the server counts none of
\* them twice and misses only some of the lost ones.
CountsConserved ==
  \A key \in Keys :
    /\ counts[key] = Cardinality(At(key, "buffer"))
    /\ \A r \in Requests : inflight[r][key] = Cardinality(At(key, r))
    /\ acked[key] = Cardinality(At(key, "sent"))
    /\ dropped[key] = Cardinality(At(key, "lost"))
    /\ acked[key] =< tally[key] /\ tally[key] =< acked[key] + dropped[key]

\* Everyone who waits for a snapshot gets one, unless close() comes first.
WaitersResolve ==
  \A k \in Calls : call[k] = "waiting" ~> (call[k] = "done" \/ stopped)

\* A closed stream's loop comes to its end, even out of the delay before a
\* reconnect, which close() does not cut short.
ClosedStreamsEnd == \A s \in Streams : closed[s] ~> phase[s] = "ended"

=============================================================================
