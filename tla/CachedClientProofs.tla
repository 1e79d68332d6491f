------------------------- MODULE CachedClientProofs -------------------------
(***************************************************************************)
(* Proofs about CachedClient, for any contexts, flags, calls and requests  *)
(* and any number of streams, edits, reads and failures.                   *)
(***************************************************************************)
EXTENDS CachedClient, SequenceTheorems, FiniteSetTheorems, TLAPS

\* Streams are numbered in the order they are started.
Numbered == \A s \in Streams : s > used => phase[s] = "none"

\* The stream in place is the current context's.
HandleOwn == ctxOf[used] = currentContext

\* A snapshot, in the store, about to be or on its way, is of a version the server had.
Evaluated == /\ storeCtx # Nobody => storeVer \in 1..version
             /\ \A s \in Streams : phase[s] = "chunk" => chunk[s] \in 1..version
             /\ \A s \in Streams : wire[s] \in Seq(1..version)

\* Reads that did not happen are nowhere, and no evaluation is in a request that is not
\* on its way.
Placed == /\ \A i \in Reads : i > reads => place[i] = "none"
          /\ \A r \in Requests : ~sending[r] => \A i \in Reads : place[i] # r

ClientInv == /\ TypeOK /\ Evaluated /\ Numbered /\ HandleOwn
             /\ Placed /\ CountsConserved
             /\ OneStream /\ ForeignStoreHasCause /\ NobodyStranded

----------------------------------------------------------------------------
(* Types.                                                                  *)

\* No usage, in type.
LEMMA ZeroType == Zero \in [Keys -> Nat]
BY DEF Zero

\* Adding counts.
LEMMA PlusType == ASSUME NEW a \in [Keys -> Nat], NEW b \in [Keys -> Nat] PROVE Plus(a, b) \in [Keys -> Nat]
BY DEF Plus

\* The doubled delay stays within its limits.
LEMMA BackoffType == ASSUME NEW b \in 1..30 PROVE NextBackoff(b) \in 1..30
BY DEF NextBackoff

\* The first flush of a request.
LEMMA StartFlushType ==
  ASSUME UsageType, NEW r \in Requests, StartFlush(r) PROVE UsageType'
<1>1. sending' \in [Requests -> BOOLEAN]
  BY DEF StartFlush, UsageType
<1>2. counts' \in [Keys -> Nat] /\ inflight' \in [Requests -> [Keys -> Nat]]
  BY ZeroType DEF StartFlush, UsageType
<1>3. /\ tally' = tally /\ acked' = acked /\ dropped' = dropped
  BY DEF StartFlush
<1> QED
  BY <1>1, <1>2, <1>3 DEF UsageType

\* Moving evaluations keeps the history's type.
LEMMA MovedType ==
  ASSUME HistoryType, NEW p, NEW q \in Places \cup Requests,
         place' = Moved(p, q), UNCHANGED <<reads, keyOf>>
  PROVE  HistoryType'
BY DEF HistoryType, Moved

\* A settled request.
LEMMA SettledType ==
  ASSUME UsageType, CallType, NEW r \in Requests, Settled(r)
  PROVE  /\ sending' \in [Requests -> BOOLEAN]
         /\ inflight' \in [Requests -> [Keys -> Nat]]
         /\ waitsFor' \in [Calls -> SUBSET Requests]
<1>1. sending' \in [Requests -> BOOLEAN]
  BY DEF Settled, UsageType
<1>2. inflight' \in [Requests -> [Keys -> Nat]]
  BY ZeroType DEF Settled, UsageType
<1>3. waitsFor' \in [Calls -> SUBSET Requests]
  BY DEF Settled, CallType
<1> QED
  BY <1>1, <1>2, <1>3

\* A chunk is the first n events on the wire, and leaves the others there.
LEMMA ChunkRest ==
  ASSUME NEW S, NEW w \in Seq(S), NEW n \in 1..Len(w)
  PROVE  w[n] \in S /\ SubSeq(w, n + 1, Len(w)) \in Seq(S)
<1>1. n + 1 \in Int /\ Len(w) \in Int
  OBVIOUS
<1>2. \A i \in (n + 1)..Len(w) : w[i] \in S
  <2> TAKE i \in (n + 1)..Len(w)
  <2>1. i \in 1..Len(w)
    OBVIOUS
  <2> QED
    BY <2>1, ElementOfSeq
<1>3. SubSeq(w, n + 1, Len(w)) \in Seq(S)
  BY <1>1, <1>2, SubSeqProperties
<1> QED
  BY <1>3, ElementOfSeq

\* What is in the store is counted under a key.
LEMMA CachedKey ==
  ASSUME TypeOK, Evaluated, NEW f \in Flags, Cached(f) # Absent PROVE <<f, Cached(f)>> \in Keys
<1>1. storeCtx # Nobody => storeCtx \in Contexts /\ storeVer \in 1..MaxVersion
  BY CachedClientAssumption DEF Evaluated, TypeOK, SnapType, StreamType
<1>2. Cached(f) \in Variations
  BY <1>1, EvalAssumption DEF Cached
<1> QED
  BY <1>2 DEF Keys

\* The steps of a stream keep the types.
LEMMA StreamStepType ==
  ASSUME TypeOK, NEW s \in Streams, StreamStep(s) PROVE TypeOK'
<1>1. RestType'
  <2>1. /\ timer' = timer /\ stopped' = stopped /\ revived' = revived
        /\ late' = late \/ late' = (late \/ closed[s])
        /\ failures' = failures \/ failures' = failures + 1
    BY DEF StreamStep, ConnectOk, ConnectionFails, DelayOver, Aborted, ServerPush, ReadChunk, DeliverChunk, usage
  <2>2. late' \in BOOLEAN
    BY <2>1 DEF TypeOK, RestType, StreamType
  <2>3. failures' \in Nat
    BY <2>1 DEF TypeOK, RestType
  <2> QED
    BY <2>1, <2>2, <2>3 DEF TypeOK, RestType
<1>2. UsageType' /\ HistoryType'
  <2>1. UNCHANGED usage
    BY DEF StreamStep, ConnectOk, ConnectionFails, DelayOver, Aborted, ServerPush, ReadChunk, DeliverChunk
  <2> QED
    BY <2>1 DEF usage, TypeOK, UsageType, HistoryType
<1>3. CallType' /\ SnapType'
  <2>1. CASE DeliverChunk(s)
    BY <2>1 DEF DeliverChunk, OnUpdate, TypeOK, CallType, SnapType, StreamType
  <2>2. CASE ~DeliverChunk(s)
    <3>1. UNCHANGED <<call, arg, waitsFor>> /\ UNCHANGED snap
      BY <2>2 DEF StreamStep, ConnectOk, ConnectionFails, DelayOver, Aborted, ServerPush, ReadChunk
    <3> QED
      BY <3>1 DEF snap, TypeOK, CallType, SnapType
  <2> QED
    BY <2>1, <2>2
<1>4. StreamType'
  <2> USE DEF TypeOK, StreamType, Phases
  <2>1. CASE ConnectOk(s)
    BY <2>1 DEF ConnectOk, FirstBackoff
  <2>2. CASE ConnectionFails(s) \/ Aborted(s)
    <3>1. <<>> \in Seq(1..MaxVersion) /\ 0 \in 0..MaxVersion
      BY CachedClientAssumption
    <3>2. /\ wire' = [wire EXCEPT ![s] = <<>>] /\ pushed' = [pushed EXCEPT ![s] = 0]
          /\ phase' = [phase EXCEPT ![s] = "backoff"] \/ phase' = [phase EXCEPT ![s] = "ended"]
          /\ UNCHANGED <<version, used, ctxOf, closed, backoff, chunk>>
      BY <2>2 DEF ConnectionFails, Aborted
    <3>3. wire' \in [Streams -> Seq(1..MaxVersion)] /\ pushed' \in [Streams -> 0..MaxVersion]
      BY <3>1, <3>2
    <3>4. phase' \in [Streams -> Phases]
      BY <3>2
    <3> QED
      BY <3>2, <3>3, <3>4
  <2>3. CASE DelayOver(s)
    BY <2>3, BackoffType DEF DelayOver
  <2>4. CASE ServerPush(s)
    BY <2>4, CachedClientAssumption DEF ServerPush
  <2>5. CASE ReadChunk(s)
    <3>1. PICK n \in 1..Len(wire[s]) :
            /\ chunk' = [chunk EXCEPT ![s] = wire[s][n]]
            /\ wire' = [wire EXCEPT ![s] = SubSeq(@, n + 1, Len(@))]
      BY <2>5 DEF ReadChunk
    <3>2. wire[s] \in Seq(1..MaxVersion)
      OBVIOUS
    <3>3. wire[s][n] \in 1..MaxVersion /\ SubSeq(wire[s], n + 1, Len(wire[s])) \in Seq(1..MaxVersion)
      BY <3>2, ChunkRest
    <3>5. wire[s][n] \in 0..MaxVersion
      BY <3>3, CachedClientAssumption
    <3> QED
      BY <2>5, <3>1, <3>3, <3>5 DEF ReadChunk
  <2>6. CASE DeliverChunk(s)
    BY <2>6, CachedClientAssumption DEF DeliverChunk
  <2> QED
    BY <2>1, <2>2, <2>3, <2>4, <2>5, <2>6 DEF StreamStep
<1> QED
  BY <1>1, <1>2, <1>3, <1>4 DEF TypeOK

\* Reading a flag keeps the types.
LEMMA VariationType == ASSUME TypeOK, Evaluated, NEW f \in Flags, Variation(f) PROVE TypeOK'
<1>1. Cached(f) # Absent => <<f, Cached(f)>> \in Keys
  BY CachedKey
<1>2. UsageType'
  <2>1. CASE Cached(f) # Absent /\ TrackEvents
    <3>1. PICK key \in Keys : key = <<f, Cached(f)>>
      BY <1>1, <2>1
    <3>2. counts' = [counts EXCEPT ![key] = @ + 1]
      BY <2>1, <3>1 DEF Variation, Record
    <3>3. counts \in [Keys -> Nat]
      BY DEF TypeOK, UsageType
    <3>4. counts[key] + 1 \in Nat
      BY <3>3
    <3>5. counts' \in [Keys -> Nat]
      BY <3>2, <3>3, <3>4
    <3> QED
      BY <3>5 DEF Variation, TypeOK, UsageType
  <2>2. CASE ~(Cached(f) # Absent /\ TrackEvents)
    BY <2>2 DEF Variation, Record, TypeOK, UsageType
  <2> QED
    BY <2>1, <2>2
<1>5. HistoryType'
  <2>1. reads + 1 \in Reads /\ reads' \in 0..MaxReads
    BY CachedClientAssumption DEF Variation, TypeOK, HistoryType, Reads
  <2> QED
    BY <1>1, <2>1 DEF Variation, Record, TypeOK, HistoryType, Places
<1>3. StreamType' /\ SnapType' /\ CallType'
  BY DEF Variation, stream, snap, TypeOK, StreamType, SnapType, CallType
<1>4. RestType'
  BY DEF Variation, TypeOK, RestType
<1> QED
  BY <1>2, <1>3, <1>4, <1>5 DEF TypeOK

\* Flushing and the answers to it keep the types.
LEMMA RequestType ==
  ASSUME TypeOK, NEW r \in Requests, TimerFlush(r) \/ Flush(r) \/ SendOk(r) \/ SendFails(r)
  PROVE  TypeOK'
<1>1. CASE TimerFlush(r) \/ Flush(r)
  <2>1. UsageType'
    BY <1>1, StartFlushType DEF TimerFlush, Flush, TypeOK
  <2>2. HistoryType'
    BY <1>1, MovedType DEF TimerFlush, Flush, StartFlush, TypeOK
  <2> QED
    BY <1>1, <2>1, <2>2 DEF TimerFlush, Flush, stream, snap, TypeOK, StreamType, SnapType, CallType, RestType
<1>2. CASE SendOk(r) \/ SendFails(r)
  <2>1. /\ sending' \in [Requests -> BOOLEAN]
        /\ inflight' \in [Requests -> [Keys -> Nat]]
        /\ waitsFor' \in [Calls -> SUBSET Requests]
    BY <1>2, SettledType DEF SendOk, SendFails, TypeOK
  <2>2. inflight[r] \in [Keys -> Nat] /\ tally \in [Keys -> Nat] /\ acked \in [Keys -> Nat] /\ dropped \in [Keys -> Nat]
    BY DEF TypeOK, UsageType
  <2>3. /\ Plus(tally, inflight[r]) \in [Keys -> Nat] /\ Plus(acked, inflight[r]) \in [Keys -> Nat]
        /\ Plus(dropped, inflight[r]) \in [Keys -> Nat]
    BY <2>2, PlusType
  <2>4. UsageType'
    BY <1>2, <2>1, <2>2, <2>3 DEF SendOk, SendFails, TypeOK, UsageType
  <2>5. StreamType' /\ SnapType' /\ CallType'
    BY <1>2, <2>1 DEF SendOk, SendFails, stream, snap, TypeOK, StreamType, SnapType, CallType
  <2>6. failures' \in Nat
    BY <1>2 DEF SendOk, SendFails, TypeOK, RestType
  <2>7. RestType'
    BY <1>2, <2>6 DEF SendOk, SendFails, TypeOK, RestType
  <2>8. HistoryType'
    BY <1>2, MovedType DEF SendOk, SendFails, TypeOK, Places
  <2> QED
    BY <2>4, <2>5, <2>7, <2>8 DEF TypeOK
<1> QED
  BY <1>1, <1>2

\* The calls keep the types.
LEMMA CallStepType ==
  ASSUME TypeOK, NEW k \in Calls,
         WaitForInitialization(k) \/ (\E c \in Contexts : Identify(k, c)) \/ IdentifyResumes(k)
  PROVE  TypeOK'
<1>1. CASE WaitForInitialization(k)
  BY <1>1 DEF WaitForInitialization, stream, snap, usage, TypeOK, StreamType, SnapType, CallType,
     UsageType, HistoryType, RestType
<1>2. ASSUME NEW c \in Contexts, Identify(k, c) PROVE TypeOK'
  <2>1. UsageType' /\ waitsFor' \in [Calls -> SUBSET Requests] /\ HistoryType'
    <3>1. CASE counts = Zero /\ UNCHANGED <<waitsFor, usage>>
      BY <3>1 DEF usage, TypeOK, UsageType, HistoryType, CallType
    <3>2. ASSUME NEW r \in Requests, StartFlush(r), waitsFor' = [waitsFor EXCEPT ![k] = {r}]
          PROVE  UsageType' /\ waitsFor' \in [Calls -> SUBSET Requests] /\ HistoryType'
      <4>1. UsageType'
        BY <3>2, StartFlushType DEF TypeOK
      <4>2. waitsFor' \in [Calls -> SUBSET Requests]
        BY <3>2 DEF TypeOK, CallType
      <4>3. HistoryType'
        BY <3>2, MovedType DEF StartFlush, TypeOK
      <4> QED
        BY <4>1, <4>2, <4>3
    <3> QED
      BY <1>2, <3>1, <3>2 DEF Identify
  <2>2. CallType'
    BY <1>2, <2>1 DEF Identify, TypeOK, CallType
  <2>3. StreamType' /\ SnapType' /\ RestType'
    BY <1>2, <2>1 DEF Identify, stream, snap, TypeOK, StreamType, SnapType, RestType
  <2> QED
    BY <2>1, <2>2, <2>3 DEF TypeOK
<1>3. CASE IdentifyResumes(k)
  <2>1. CallType'
    BY <1>3, CachedClientAssumption DEF IdentifyResumes, TypeOK, CallType
  <2>2. UsageType' /\ HistoryType'
    BY <1>3 DEF IdentifyResumes, usage, TypeOK, UsageType, HistoryType
  <2>3. arg[k] \in Contexts /\ used + 1 \in Streams
    BY <1>3, CachedClientAssumption DEF IdentifyResumes, TypeOK, CallType, StreamType, Streams
  <2>4. StreamType'
    BY <1>3, <2>3 DEF IdentifyResumes, Restart, TypeOK, StreamType, Phases
  <2>5. SnapType'
    <3>1. 0 \in 0..MaxVersion
      BY CachedClientAssumption
    <3>2. storeCtx' = Nobody /\ storeVer' = 0 /\ ready' = FALSE /\ currentContext' = arg[k]
      BY <1>3 DEF IdentifyResumes
    <3> QED
      BY <2>3, <3>1, <3>2 DEF SnapType
  <2>6. RestType'
    BY <1>3, <2>2 DEF IdentifyResumes, TypeOK, RestType
  <2> QED
    BY <2>1, <2>2, <2>4, <2>5, <2>6 DEF TypeOK
<1> QED
  BY <1>1, <1>2, <1>3

\* close() keeps the types.
LEMMA CloseType == ASSUME TypeOK, Close PROVE TypeOK'
<1>1. UsageType' /\ HistoryType'
  <2>1. CASE UNCHANGED usage
    BY <2>1 DEF usage, TypeOK, UsageType, HistoryType
  <2>2. ASSUME NEW r \in Requests, StartFlush(r) PROVE UsageType' /\ HistoryType'
    <3>1. UsageType'
      BY <2>2, StartFlushType DEF TypeOK
    <3>2. HistoryType'
      BY <2>2, MovedType DEF StartFlush, TypeOK
    <3> QED
      BY <3>1, <3>2
  <2> QED
    BY <2>1, <2>2 DEF Close
<1>2. StreamType'
  BY DEF Close, TypeOK, StreamType
<1>3. SnapType' /\ CallType' /\ RestType'
  BY <1>1 DEF Close, snap, TypeOK, SnapType, CallType, RestType
<1> QED
  BY <1>1, <1>2, <1>3 DEF TypeOK

\* The initial state has the types.
LEMMA InitType == Init => TypeOK
<1> SUFFICES ASSUME Init PROVE TypeOK
  OBVIOUS
<1>1. StreamType
  <2>1. /\ version \in 1..MaxVersion /\ used \in Streams
        /\ chunk \in [Streams -> 0..MaxVersion] /\ pushed \in [Streams -> 0..MaxVersion]
    BY CachedClientAssumption DEF Init, Streams
  <2>2. /\ ctxOf \in [Streams -> Contexts] /\ phase \in [Streams -> Phases]
        /\ backoff \in [Streams -> 1..30] /\ wire \in [Streams -> Seq(1..MaxVersion)]
    BY CachedClientAssumption DEF Init, Phases, FirstBackoff
  <2>3. closed \in [Streams -> BOOLEAN]
    BY DEF Init
  <2> QED
    BY <2>1, <2>2, <2>3 DEF StreamType
<1>5. SnapType
  <2>1. 0 \in 0..MaxVersion
    BY CachedClientAssumption
  <2> QED
    BY <2>1, CachedClientAssumption DEF Init, SnapType
<1>2. CallType
  BY CachedClientAssumption DEF Init, CallType
<1>3. UsageType
  BY ZeroType DEF Init, UsageType
<1>4. RestType
  BY CachedClientAssumption DEF Init, RestType
<1>6. HistoryType
  BY CachedClientAssumption DEF Init, HistoryType, Places
<1> QED
  BY <1>1, <1>2, <1>3, <1>4, <1>5, <1>6 DEF TypeOK

----------------------------------------------------------------------------
(* The streams, the store and the calls.                                   *)

StreamInv == Numbered /\ HandleOwn /\ OneStream
StoreInv == Evaluated /\ ForeignStoreHasCause /\ NobodyStranded

\* The step of a stream starts and opens no other one.
LEMMA StreamStepInv ==
  ASSUME ClientInv, NEW s \in Streams, StreamStep(s) PROVE StreamInv' /\ StoreInv'
<1>1. /\ used' = used /\ ctxOf' = ctxOf /\ closed' = closed /\ currentContext' = currentContext
      /\ stopped' = stopped /\ revived' = revived /\ version' = version
  BY DEF StreamStep, ConnectOk, ConnectionFails, DelayOver, Aborted, ServerPush, ReadChunk, DeliverChunk,
     OnUpdate, snap
<1>2. /\ phase[s] # "none" \/ phase' = phase
      /\ \A t \in Streams : t # s => phase'[t] = phase[t]
  BY DEF StreamStep, ConnectOk, ConnectionFails, DelayOver, Aborted, ServerPush, ReadChunk, DeliverChunk,
     ClientInv, TypeOK, StreamType
<1>3. Numbered'
  BY <1>1, <1>2 DEF ClientInv, Numbered
<1>4. Open' \subseteq Open
  BY <1>1, <1>2 DEF Open
<1>5. HandleOwn' /\ OneStream'
  BY <1>1, <1>4 DEF ClientInv, HandleOwn, OneStream
<1>6. CASE DeliverChunk(s)
  <2>1. /\ storeCtx' = ctxOf[s] /\ storeVer' = chunk[s] /\ ready' = TRUE
        /\ call' = [k \in Calls |-> IF ~ready /\ call[k] = "waiting" THEN "done" ELSE call[k]]
    BY <1>6 DEF DeliverChunk, OnUpdate
  <2>2. chunk[s] \in 1..version /\ ctxOf[s] # Nobody /\ wire' = wire
    BY <1>6, CachedClientAssumption DEF DeliverChunk, ClientInv, Evaluated, TypeOK, StreamType
  <2>3. \A t \in Streams : phase'[t] = "chunk" => t # s /\ phase[t] = "chunk" /\ chunk'[t] = chunk[t]
    BY <1>6 DEF DeliverChunk, ClientInv, TypeOK, StreamType
  <2>4. Evaluated'
    BY <1>1, <2>1, <2>2, <2>3 DEF ClientInv, Evaluated
  <2>5. ForeignStoreHasCause'
    <3>1. CASE closed[s]
      BY <1>6, <3>1 DEF DeliverChunk, ForeignStoreHasCause
    <3>2. CASE ~closed[s]
      <4>1. s = used
        BY <1>6, <3>2 DEF DeliverChunk, ClientInv, OneStream, Open
      <4> QED
        BY <1>1, <2>1, <4>1 DEF ClientInv, HandleOwn, ForeignStoreHasCause
    <3> QED
      BY <3>1, <3>2
  <2>6. NobodyStranded'
    BY <2>1, <2>2 DEF ClientInv, NobodyStranded
  <2> QED
    BY <1>3, <1>5, <2>4, <2>5, <2>6 DEF StreamInv, StoreInv
<1>7. CASE ~DeliverChunk(s)
  <2>1. UNCHANGED <<call, storeCtx, storeVer, ready, late>>
    BY <1>7 DEF StreamStep, ConnectOk, ConnectionFails, DelayOver, Aborted, ServerPush, ReadChunk, snap
  <2>2. ASSUME NEW t \in Streams
        PROVE  /\ phase'[t] = "chunk" => chunk'[t] \in 1..version
               /\ wire'[t] \in Seq(1..version)
    <3>1. CASE t # s
      <4>1. phase'[t] = phase[t] /\ chunk'[t] = chunk[t] /\ wire'[t] = wire[t]
        BY <1>7, <3>1 DEF StreamStep, ConnectOk, ConnectionFails, DelayOver, Aborted, ServerPush,
           ReadChunk, ClientInv, TypeOK, StreamType
      <4> QED
        BY <4>1 DEF ClientInv, Evaluated
    <3>2. CASE t = s /\ ReadChunk(s)
      <4>1. PICK n \in 1..Len(wire[s]) :
              /\ chunk' = [chunk EXCEPT ![s] = wire[s][n]]
              /\ wire' = [wire EXCEPT ![s] = SubSeq(@, n + 1, Len(@))]
        BY <3>2 DEF ReadChunk
      <4>2. wire[s] \in Seq(1..version)
        BY DEF ClientInv, Evaluated
      <4>3. wire[s][n] \in 1..version /\ SubSeq(wire[s], n + 1, Len(wire[s])) \in Seq(1..version)
        BY <4>2, ChunkRest
      <4> QED
        BY <3>2, <4>1, <4>3 DEF ClientInv, TypeOK, StreamType
    <3>3. CASE t = s /\ ServerPush(s)
      <4>1. /\ wire' = [wire EXCEPT ![s] = Append(@, version)]
            /\ phase' = phase /\ chunk' = chunk
        BY <3>3 DEF ServerPush
      <4>2. wire[s] \in Seq(1..version) /\ version \in 1..version
        BY DEF ClientInv, Evaluated, TypeOK, StreamType
      <4>3. Append(wire[s], version) \in Seq(1..version)
        BY <4>2
      <4> QED
        BY <3>3, <4>1, <4>3 DEF ClientInv, TypeOK, StreamType, Evaluated
    <3>4. CASE t = s /\ ~ReadChunk(s) /\ ~ServerPush(s)
      <4>1. phase'[t] # "chunk" /\ wire'[t] \in {wire[t], <<>>}
        BY <1>7, <3>4 DEF StreamStep, ConnectOk, ConnectionFails, DelayOver, Aborted,
           ClientInv, TypeOK, StreamType
      <4>2. wire[t] \in Seq(1..version) /\ <<>> \in Seq(1..version)
        BY DEF ClientInv, Evaluated
      <4>3. wire'[t] \in Seq(1..version)
        BY <4>1, <4>2
      <4> QED
        BY <4>1, <4>3
    <3> QED
      BY <3>1, <3>2, <3>3, <3>4
  <2>3. StoreInv'
    BY <1>1, <2>1, <2>2 DEF StoreInv, ClientInv, Evaluated, ForeignStoreHasCause, NobodyStranded
  <2> QED
    BY <1>3, <1>5, <2>3 DEF StreamInv
<1> QED
  BY <1>6, <1>7

\* A sequence of versions is one when there are more.
LEMMA SeqGrows ==
  ASSUME NEW a \in Nat, NEW b \in Nat, a =< b, NEW w \in Seq(1..a) PROVE w \in Seq(1..b)
<1>1. /\ w \in [1..Len(w) -> 1..a] /\ Len(w) \in Nat
  BY LenProperties
<1>2. w \in [1..Len(w) -> 1..b]
  BY <1>1
<1> QED
  BY <1>1, <1>2

\* Edits, reads, requests, waits and the first half of identify leave streams and store alone.
LEMMA OtherInv ==
  ASSUME ClientInv, version' \in {version, version + 1},
         UNCHANGED stream, UNCHANGED snap, UNCHANGED <<stopped, late, revived>>,
         \A k \in Calls : call'[k] = "waiting" => call[k] = "waiting" \/ ~ready
  PROVE  StreamInv' /\ StoreInv'
<1>1. StreamInv'
  BY DEF stream, snap, StreamInv, ClientInv, Numbered, HandleOwn, OneStream, Open
<1>2. Evaluated'
  <2>1. version \in Nat /\ version' \in Nat /\ version =< version'
    BY DEF ClientInv, TypeOK, StreamType
  <2>2. \A s \in Streams : wire[s] \in Seq(1..version')
    BY <2>1, SeqGrows DEF ClientInv, Evaluated
  <2>3. 1..version \subseteq 1..version'
    BY <2>1
  <2> QED
    BY <2>2, <2>3 DEF stream, snap, ClientInv, Evaluated
<1>3. ForeignStoreHasCause' /\ NobodyStranded'
  BY DEF stream, snap, ClientInv, ForeignStoreHasCause, NobodyStranded
<1> QED
  BY <1>1, <1>2, <1>3 DEF StoreInv

\* identify closes the stream in place and starts the next one.
LEMMA IdentifyInv ==
  ASSUME ClientInv, NEW k \in Calls, IdentifyResumes(k) PROVE StreamInv' /\ StoreInv'
<1> DEFINE n == used + 1
<1>1. /\ n \in Streams /\ used \in Streams /\ n # used
      /\ closed \in [Streams -> BOOLEAN] /\ phase \in [Streams -> Phases] /\ ctxOf \in [Streams -> Contexts]
  BY CachedClientAssumption DEF IdentifyResumes, ClientInv, TypeOK, StreamType, Streams
<1>2. /\ closed' = [closed EXCEPT ![used] = TRUE] /\ used' = n
      /\ ctxOf' = [ctxOf EXCEPT ![n] = arg[k]] /\ phase' = [phase EXCEPT ![n] = "connecting"]
      /\ chunk' = chunk /\ storeCtx' = Nobody /\ ready' = FALSE /\ currentContext' = arg[k]
      /\ stopped' = stopped /\ wire' = wire /\ version' = version
  BY DEF IdentifyResumes, Restart
<1>3. Numbered' /\ HandleOwn'
  BY <1>1, <1>2 DEF ClientInv, Numbered, HandleOwn, Streams
<1>4. Open' \subseteq {n}
  BY <1>1, <1>2 DEF ClientInv, OneStream, Open
<1>5. stopped => revived'
  BY DEF IdentifyResumes
<1>6. OneStream'
  BY <1>2, <1>4, <1>5 DEF OneStream
<1>7. StoreInv'
  BY <1>1, <1>2 DEF StoreInv, ClientInv, Evaluated, ForeignStoreHasCause, NobodyStranded
<1> QED
  BY <1>3, <1>6, <1>7 DEF StreamInv

\* close() closes the stream in place.
LEMMA CloseInv == ASSUME ClientInv, Close PROVE StreamInv' /\ StoreInv'
<1>1. /\ closed' = [closed EXCEPT ![used] = TRUE] /\ used' = used /\ ctxOf' = ctxOf /\ phase' = phase
      /\ chunk' = chunk /\ wire' = wire /\ version' = version /\ call' = call /\ late' = late
  BY DEF Close
<1>2. Open' = {}
  BY <1>1 DEF ClientInv, OneStream, Open, TypeOK, StreamType
<1>3. StreamInv'
  BY <1>1, <1>2 DEF Close, snap, StreamInv, ClientInv, Numbered, HandleOwn, OneStream
<1>4. StoreInv'
  BY <1>1 DEF Close, snap, StoreInv, ClientInv, Evaluated, ForeignStoreHasCause, NobodyStranded
<1> QED
  BY <1>3, <1>4

----------------------------------------------------------------------------
(* The usage counts.                                                       *)

UsageInv == Placed /\ CountsConserved

\* There are finitely many reads, so the evaluations in a place can be counted.
LEMMA ReadsFinite ==
  ASSUME NEW S \in SUBSET Reads PROVE IsFiniteSet(S) /\ Cardinality(S) \in Nat
<1>1. IsFiniteSet(Reads)
  BY CachedClientAssumption, FS_Interval DEF Reads
<1> QED
  BY <1>1, FS_Subset, FS_CardinalityType

\* flush(): what was in the buffer is in the request, which carried nothing.
LEMMA FlushCounts ==
  ASSUME TypeOK, UsageInv, NEW r \in Requests, StartFlush(r) PROVE UsageInv'
<1>1. /\ place' = Moved("buffer", r) /\ keyOf' = keyOf /\ reads' = reads
      /\ sending' = [sending EXCEPT ![r] = TRUE] /\ ~sending[r]
      /\ inflight' = [inflight EXCEPT ![r] = counts] /\ counts' = Zero
      /\ UNCHANGED <<tally, acked, dropped>>
  BY DEF StartFlush
<1>2. r \notin Places
  BY RequestAssumption
<1>3. Placed'
  <2>1. \A i \in Reads : i > reads' => place'[i] = "none"
    BY <1>1, RequestAssumption DEF UsageInv, Placed, Moved, Places
  <2>2. ASSUME NEW q \in Requests, ~sending'[q], NEW i \in Reads PROVE place'[i] # q
    <3>1. q # r
      BY <1>1, <2>2 DEF TypeOK, UsageType
    <3>2. ~sending[q]
      BY <1>1, <2>2, <3>1 DEF TypeOK, UsageType
    <3> QED
      BY <1>1, <3>1, <3>2 DEF UsageInv, Placed, Moved
  <2> QED
    BY <2>1, <2>2 DEF Placed
<1>4. ASSUME NEW key \in Keys
      PROVE  /\ At(key, "buffer")' = {} /\ At(key, r)' = At(key, "buffer")
             /\ \A p : p \notin {"buffer", r} => At(key, p)' = At(key, p)
  BY <1>1, <1>2 DEF At, Moved, Places, UsageInv, Placed
<1>5. ASSUME NEW key \in Keys
      PROVE  /\ counts'[key] = 0 /\ inflight'[r][key] = counts[key]
             /\ \A q \in Requests \ {r} : inflight'[q] = inflight[q]
  BY <1>1 DEF Zero, TypeOK, UsageType
<1>6. CountsConserved'
  <2> SUFFICES ASSUME NEW key \in Keys
               PROVE  /\ counts'[key] = Cardinality(At(key, "buffer")')
                      /\ \A q \in Requests : inflight'[q][key] = Cardinality(At(key, q)')
                      /\ acked'[key] = Cardinality(At(key, "sent")')
                      /\ dropped'[key] = Cardinality(At(key, "lost")')
                      /\ acked'[key] =< tally'[key] /\ tally'[key] =< acked'[key] + dropped'[key]
    BY DEF CountsConserved
  <2>1. counts'[key] = Cardinality(At(key, "buffer")')
    BY <1>4, <1>5, FS_EmptySet
  <2>2. ASSUME NEW q \in Requests PROVE inflight'[q][key] = Cardinality(At(key, q)')
    <3>1. q # "buffer"
      BY RequestAssumption DEF Places
    <3> QED
      BY <1>4, <1>5, <3>1 DEF UsageInv, CountsConserved
  <2>3. "sent" # r /\ "lost" # r
    BY <1>2 DEF Places
  <2> QED
    BY <1>1, <1>4, <2>1, <2>2, <2>3 DEF UsageInv, CountsConserved
<1> QED
  BY <1>3, <1>6 DEF UsageInv

\* The answer to a request, or its failure: what it carried goes to one place.
LEMMA SettleMoves ==
  ASSUME TypeOK, UsageInv, NEW r \in Requests, NEW q \in {"sent", "lost"}, Settled(r),
         place' = Moved(r, q), UNCHANGED <<keyOf, reads, counts>>
  PROVE  /\ Placed'
         /\ \A key \in Keys :
              /\ counts'[key] = Cardinality(At(key, "buffer")')
              /\ \A t \in Requests : inflight'[t][key] = Cardinality(At(key, t)')
              /\ Cardinality(At(key, q)') = Cardinality(At(key, q)) + inflight[r][key]
              /\ \A p \in {"sent", "lost"} \ {q} : At(key, p)' = At(key, p)
<1>1. /\ sending' = [sending EXCEPT ![r] = FALSE] /\ inflight' = [inflight EXCEPT ![r] = Zero]
  BY DEF Settled
<1>2. r \notin Places
  BY RequestAssumption
<1>3. Placed'
  <2>1. \A i \in Reads : i > reads' => place'[i] = "none"
    BY <1>2 DEF UsageInv, Placed, Moved, Places
  <2>2. ASSUME NEW t \in Requests, ~sending'[t], NEW i \in Reads PROVE place'[i] # t
    <3>1. t \notin Places
      BY RequestAssumption
    <3>2. CASE t = r
      BY <3>1, <3>2 DEF Moved, Places
    <3>3. CASE t # r
      <4>1. ~sending[t]
        BY <1>1, <2>2, <3>3 DEF TypeOK, UsageType
      <4> QED
        BY <3>1, <4>1 DEF UsageInv, Placed, Moved, Places
    <3> QED
      BY <3>2, <3>3
  <2> QED
    BY <2>1, <2>2 DEF Placed
<1>4. ASSUME NEW key \in Keys
      PROVE  /\ At(key, r)' = {} /\ At(key, q)' = At(key, q) \cup At(key, r)
             /\ At(key, q) \cap At(key, r) = {}
             /\ \A p : p \notin {q, r} => At(key, p)' = At(key, p)
  BY <1>2 DEF At, Moved, Places
<1> SUFFICES ASSUME NEW key \in Keys
             PROVE  /\ counts'[key] = Cardinality(At(key, "buffer")')
                    /\ \A t \in Requests : inflight'[t][key] = Cardinality(At(key, t)')
                    /\ Cardinality(At(key, q)') = Cardinality(At(key, q)) + inflight[r][key]
                    /\ \A p \in {"sent", "lost"} \ {q} : At(key, p)' = At(key, p)
  BY <1>3
<1>5. counts'[key] = Cardinality(At(key, "buffer")')
  BY <1>2, <1>4 DEF UsageInv, CountsConserved, Places
<1>6. ASSUME NEW t \in Requests PROVE inflight'[t][key] = Cardinality(At(key, t)')
  <2>1. t \notin Places
    BY RequestAssumption
  <2>2. CASE t = r
    BY <1>1, <1>4, <2>2, FS_EmptySet DEF Zero, TypeOK, UsageType
  <2>3. CASE t # r
    BY <1>1, <1>4, <2>1, <2>3 DEF TypeOK, UsageType, UsageInv, CountsConserved, Places
  <2> QED
    BY <2>2, <2>3
<1>7. Cardinality(At(key, q)') = Cardinality(At(key, q)) + inflight[r][key]
  <2> DEFINE A == At(key, q)
             B == At(key, r)
  <2>1. A \in SUBSET Reads /\ B \in SUBSET Reads
    BY DEF At
  <2>2. /\ IsFiniteSet(A) /\ IsFiniteSet(B) /\ IsFiniteSet(A \cap B)
        /\ Cardinality(A) \in Nat /\ Cardinality(B) \in Nat
    BY <1>4, <2>1, ReadsFinite, FS_EmptySet
  <2>3. Cardinality(A \cap B) = 0
    BY <1>4, FS_EmptySet
  <2>4. Cardinality(A \cup B) = Cardinality(A) + Cardinality(B) - Cardinality(A \cap B)
    BY <2>2, FS_Union
  <2>5. Cardinality(A \cup B) = Cardinality(A) + Cardinality(B)
    BY <2>2, <2>3, <2>4
  <2>6. inflight[r][key] = Cardinality(B)
    BY DEF UsageInv, CountsConserved
  <2> QED
    BY <1>4, <2>5, <2>6
<1>8. \A p \in {"sent", "lost"} \ {q} : At(key, p)' = At(key, p)
  BY <1>2, <1>4 DEF Places
<1> QED
  BY <1>5, <1>6, <1>7, <1>8

\* A request that was answered, or failed, keeps the counts.
LEMMA SendCounts ==
  ASSUME TypeOK, UsageInv, NEW r \in Requests, SendOk(r) \/ SendFails(r) PROVE UsageInv'
<1>1. ASSUME NEW key \in Keys
      PROVE  /\ inflight[r][key] \in Nat /\ tally[key] \in Nat
             /\ acked[key] \in Nat /\ dropped[key] \in Nat
             /\ Plus(tally, inflight[r])[key] = tally[key] + inflight[r][key]
             /\ Plus(acked, inflight[r])[key] = acked[key] + inflight[r][key]
             /\ Plus(dropped, inflight[r])[key] = dropped[key] + inflight[r][key]
             /\ acked[key] =< tally[key] /\ tally[key] =< acked[key] + dropped[key]
  BY DEF TypeOK, UsageType, Plus, UsageInv, CountsConserved
<1>2. CASE SendOk(r)
  <2>1. /\ Settled(r) /\ place' = Moved(r, "sent") /\ UNCHANGED <<keyOf, reads, counts, dropped>>
        /\ tally' = Plus(tally, inflight[r]) /\ acked' = Plus(acked, inflight[r])
    BY <1>2 DEF SendOk
  <2>2. /\ Placed'
        /\ \A key \in Keys :
             /\ counts'[key] = Cardinality(At(key, "buffer")')
             /\ \A t \in Requests : inflight'[t][key] = Cardinality(At(key, t)')
             /\ Cardinality(At(key, "sent")') = Cardinality(At(key, "sent")) + inflight[r][key]
             /\ At(key, "lost")' = At(key, "lost")
    BY <2>1, SettleMoves
  <2>3. ASSUME NEW key \in Keys
        PROVE  /\ acked'[key] = Cardinality(At(key, "sent")')
               /\ dropped'[key] = Cardinality(At(key, "lost")')
    BY <1>1, <2>1, <2>2 DEF UsageInv, CountsConserved
  <2>4. ASSUME NEW key \in Keys
        PROVE  acked'[key] =< tally'[key] /\ tally'[key] =< acked'[key] + dropped'[key]
    BY <1>1, <2>1
  <2> QED
    BY <2>2, <2>3, <2>4 DEF UsageInv, CountsConserved
<1>3. CASE SendFails(r)
  <2>1. /\ Settled(r) /\ place' = Moved(r, "lost") /\ UNCHANGED <<keyOf, reads, counts, acked>>
        /\ tally' = tally \/ tally' = Plus(tally, inflight[r])
        /\ dropped' = Plus(dropped, inflight[r])
    BY <1>3 DEF SendFails
  <2>2. /\ Placed'
        /\ \A key \in Keys :
             /\ counts'[key] = Cardinality(At(key, "buffer")')
             /\ \A t \in Requests : inflight'[t][key] = Cardinality(At(key, t)')
             /\ Cardinality(At(key, "lost")') = Cardinality(At(key, "lost")) + inflight[r][key]
             /\ At(key, "sent")' = At(key, "sent")
    BY <2>1, SettleMoves
  <2>3. ASSUME NEW key \in Keys
        PROVE  /\ acked'[key] = Cardinality(At(key, "sent")')
               /\ dropped'[key] = Cardinality(At(key, "lost")')
    BY <1>1, <2>1, <2>2 DEF UsageInv, CountsConserved
  <2>4. ASSUME NEW key \in Keys
        PROVE  acked'[key] =< tally'[key] /\ tally'[key] =< acked'[key] + dropped'[key]
    BY <1>1, <2>1
  <2> QED
    BY <2>2, <2>3, <2>4 DEF UsageInv, CountsConserved
<1> QED
  BY <1>2, <1>3

\* A read puts its evaluation into the buffer and nothing else anywhere.
LEMMA ReadCounts ==
  ASSUME TypeOK, Evaluated, UsageInv, NEW f \in Flags, Variation(f) PROVE UsageInv'
<1>0. PICK n : n = reads + 1
  OBVIOUS
<1>1. /\ reads' = n /\ n \in Reads /\ n > reads
      /\ UNCHANGED <<inflight, sending, tally, acked, dropped>>
  BY <1>0, CachedClientAssumption DEF Variation, TypeOK, HistoryType, Reads
<1>2. place[n] = "none"
  BY <1>1 DEF UsageInv, Placed
<1>3. CASE Cached(f) # Absent /\ TrackEvents
  <2>0. PICK k \in Keys : k = <<f, Cached(f)>>
    BY <1>3, CachedKey
  <2>1. /\ counts' = [counts EXCEPT ![k] = @ + 1] /\ keyOf' = [keyOf EXCEPT ![n] = k]
        /\ place' = [place EXCEPT ![n] = "buffer"]
    BY <1>0, <1>3, <2>0 DEF Variation, Record
  <2>2. /\ keyOf'[n] = k /\ place'[n] = "buffer"
        /\ \A i \in Reads \ {n} : keyOf'[i] = keyOf[i] /\ place'[i] = place[i]
    BY <1>1, <2>1 DEF TypeOK, HistoryType
  <2>3. Placed'
    <3>1. \A i \in Reads : i > reads' => i > reads /\ i # n
      BY <1>1 DEF TypeOK, HistoryType, Reads
    <3>2. \A r \in Requests : r # "buffer"
      BY RequestAssumption DEF Places
    <3> QED
      BY <1>1, <2>2, <3>1, <3>2 DEF UsageInv, Placed
  <2>4. ASSUME NEW key \in Keys, NEW p, key # k \/ p # "buffer", p # "none"
        PROVE  At(key, p)' = At(key, p)
    BY <1>1, <1>2, <2>2, <2>4 DEF At
  <2>5. At(k, "buffer")' = At(k, "buffer") \cup {n} /\ n \notin At(k, "buffer")
    BY <1>1, <1>2, <2>2 DEF At
  <2>6. Cardinality(At(k, "buffer")') = Cardinality(At(k, "buffer")) + 1
    <3>1. At(k, "buffer") \in SUBSET Reads
      BY DEF At
    <3>2. IsFiniteSet(At(k, "buffer"))
      BY <3>1, ReadsFinite
    <3> QED
      BY <2>5, <3>2, FS_AddElement
  <2>7. ASSUME NEW key \in Keys PROVE counts'[key] = Cardinality(At(key, "buffer")')
    <3>1. CASE key = k
      BY <2>1, <2>6, <3>1 DEF TypeOK, UsageType, UsageInv, CountsConserved
    <3>2. CASE key # k
      BY <2>1, <2>4, <3>2 DEF TypeOK, UsageType, UsageInv, CountsConserved
    <3> QED
      BY <3>1, <3>2
  <2>8. \A r \in Requests : r \notin {"buffer", "none"}
    BY RequestAssumption DEF Places
  <2>9. ASSUME NEW key \in Keys
        PROVE  /\ \A r \in Requests : inflight'[r][key] = Cardinality(At(key, r)')
               /\ acked'[key] = Cardinality(At(key, "sent")')
               /\ dropped'[key] = Cardinality(At(key, "lost")')
    BY <1>1, <2>4, <2>8 DEF UsageInv, CountsConserved
  <2> QED
    BY <1>1, <2>3, <2>7, <2>9 DEF UsageInv, CountsConserved
<1>4. CASE ~(Cached(f) # Absent /\ TrackEvents)
  <2>1. UNCHANGED <<counts, keyOf, place>>
    BY <1>4 DEF Variation, Record
  <2>2. Placed'
    <3>1. \A i \in Reads : i > reads' => i > reads
      BY <1>1 DEF TypeOK, HistoryType, Reads
    <3> QED
      BY <1>1, <2>1, <3>1 DEF UsageInv, Placed
  <2>3. ASSUME NEW key \in Keys, NEW p PROVE At(key, p)' = At(key, p)
    BY <2>1 DEF At
  <2> QED
    BY <1>1, <2>1, <2>2, <2>3 DEF UsageInv, CountsConserved
<1> QED
  BY <1>3, <1>4

\* Steps that leave the usage alone.
LEMMA UsageUnchanged == ASSUME UsageInv, UNCHANGED usage PROVE UsageInv'
<1>1. ASSUME NEW key \in Keys, NEW p PROVE At(key, p)' = At(key, p)
  BY DEF usage, At
<1> QED
  BY <1>1 DEF usage, UsageInv, Placed, CountsConserved

----------------------------------------------------------------------------
(* The theorems.                                                           *)

\* The initial state satisfies the invariant.
LEMMA InitInv == Init => ClientInv
<1> SUFFICES ASSUME Init PROVE ClientInv
  OBVIOUS
<1>1. Numbered /\ HandleOwn
  BY CachedClientAssumption DEF Init, Numbered, HandleOwn, Streams
<1>2. OneStream
  BY CachedClientAssumption DEF Init, OneStream, Open, Streams
<1>3. Evaluated /\ ForeignStoreHasCause /\ NobodyStranded
  BY DEF Init, Evaluated, ForeignStoreHasCause, NobodyStranded
<1>4. Placed
  BY RequestAssumption DEF Init, Placed, Places
<1>5. CountsConserved
  <2>1. ASSUME NEW key \in Keys, NEW p \in {"buffer", "sent", "lost"} \cup Requests
        PROVE  Cardinality(At(key, p)) = 0
    <3>1. At(key, p) = {}
      BY RequestAssumption DEF Init, At, Places
    <3> QED
      BY <3>1, FS_EmptySet
  <2>2. ASSUME NEW key \in Keys
        PROVE  /\ counts[key] = 0 /\ acked[key] = 0 /\ dropped[key] = 0 /\ tally[key] = 0
               /\ \A r \in Requests : inflight[r][key] = 0
    BY DEF Init, Zero
  <2>3. ASSUME NEW key \in Keys
        PROVE  /\ counts[key] = Cardinality(At(key, "buffer"))
               /\ \A r \in Requests : inflight[r][key] = Cardinality(At(key, r))
               /\ acked[key] = Cardinality(At(key, "sent"))
               /\ dropped[key] = Cardinality(At(key, "lost"))
    BY <2>1, <2>2
  <2>4. ASSUME NEW key \in Keys
        PROVE  acked[key] =< tally[key] /\ tally[key] =< acked[key] + dropped[key]
    BY <2>2
  <2> QED
    BY <2>3, <2>4 DEF CountsConserved
<1> QED
  BY <1>1, <1>2, <1>3, <1>4, <1>5, InitType DEF ClientInv

\* Every step keeps the invariant.
LEMMA StepInv == ClientInv /\ [Next]_vars => ClientInv'
<1> SUFFICES ASSUME ClientInv, [Next]_vars PROVE TypeOK' /\ StreamInv' /\ StoreInv' /\ UsageInv'
  BY DEF ClientInv, StreamInv, StoreInv, UsageInv
<1>0. TypeOK /\ Evaluated /\ UsageInv
  BY DEF ClientInv, UsageInv
<1>1. CASE UNCHANGED vars
  <2>1. TypeOK'
    BY <1>0, <1>1 DEF vars, TypeOK, StreamType, SnapType, CallType, UsageType, HistoryType, RestType
  <2>2. UsageInv'
    BY <1>0, <1>1, UsageUnchanged DEF vars, usage
  <2> QED
    BY <1>1, <2>1, <2>2, OtherInv DEF vars, stream, snap
<1>2. CASE Edit
  <2>1. TypeOK'
    <3>1. StreamType'
      BY <1>0, <1>2, CachedClientAssumption DEF Edit, stream, TypeOK, StreamType
    <3>2. SnapType'
      BY <1>0, <1>2, CachedClientAssumption DEF Edit, snap, stream, TypeOK, SnapType, StreamType
    <3>3. CallType' /\ RestType'
      BY <1>0, <1>2 DEF Edit, TypeOK, CallType, RestType, snap, stream
    <3>4. UsageType'
      BY <1>0, <1>2 DEF Edit, usage, TypeOK, UsageType
    <3>5. HistoryType'
      BY <1>0, <1>2 DEF Edit, usage, TypeOK, HistoryType
    <3> QED
      BY <3>1, <3>2, <3>3, <3>4, <3>5 DEF TypeOK
  <2>2. UsageInv'
    BY <1>0, <1>2, UsageUnchanged DEF Edit
  <2> QED
    BY <1>2, <2>1, <2>2, OtherInv DEF Edit
<1>3. ASSUME NEW s \in Streams, StreamStep(s) PROVE TypeOK' /\ StreamInv' /\ StoreInv' /\ UsageInv'
  <2>1. UNCHANGED usage
    BY <1>3 DEF StreamStep, ConnectOk, ConnectionFails, DelayOver, Aborted, ServerPush, ReadChunk, DeliverChunk
  <2> QED
    BY <1>0, <1>3, <2>1, StreamStepType, StreamStepInv, UsageUnchanged
<1>4. ASSUME NEW f \in Flags, Variation(f) PROVE TypeOK' /\ StreamInv' /\ StoreInv' /\ UsageInv'
  <2>1. TypeOK' /\ UsageInv'
    BY <1>0, <1>4, VariationType, ReadCounts
  <2> QED
    BY <1>4, <2>1, OtherInv DEF Variation
<1>5. ASSUME NEW r \in Requests, TimerFlush(r) \/ Flush(r) \/ SendOk(r) \/ SendFails(r)
      PROVE  TypeOK' /\ StreamInv' /\ StoreInv' /\ UsageInv'
  <2>1. TypeOK'
    BY <1>0, <1>5, RequestType
  <2>2. /\ UNCHANGED stream /\ UNCHANGED snap /\ UNCHANGED <<stopped, late, revived>>
        /\ call' = call /\ version' = version
    BY <1>5 DEF TimerFlush, Flush, SendOk, SendFails
  <2>3. UsageInv'
    BY <1>0, <1>5, FlushCounts, SendCounts DEF TimerFlush, Flush
  <2> QED
    BY <2>1, <2>2, <2>3, OtherInv
<1>6. ASSUME NEW k \in Calls, WaitForInitialization(k) \/ (\E c \in Contexts : Identify(k, c))
      PROVE  TypeOK' /\ StreamInv' /\ StoreInv' /\ UsageInv'
  <2>1. TypeOK'
    BY <1>0, <1>6, CallStepType
  <2>2. UNCHANGED stream /\ UNCHANGED snap /\ UNCHANGED <<stopped, late, revived, version>>
    BY <1>6 DEF WaitForInitialization, Identify
  <2>3. \A j \in Calls : call'[j] = "waiting" => call[j] = "waiting" \/ ~ready
    BY <1>0, <1>6 DEF WaitForInitialization, Identify, TypeOK, CallType
  <2>4. UsageInv'
    <3>1. UNCHANGED usage \/ \E r \in Requests : StartFlush(r)
      BY <1>6 DEF WaitForInitialization, Identify, usage
    <3> QED
      BY <1>0, <3>1, UsageUnchanged, FlushCounts
  <2> QED
    BY <2>1, <2>2, <2>3, <2>4, OtherInv
<1>7. ASSUME NEW k \in Calls, IdentifyResumes(k)
      PROVE  TypeOK' /\ StreamInv' /\ StoreInv' /\ UsageInv'
  <2>1. UNCHANGED usage
    BY <1>7 DEF IdentifyResumes
  <2> QED
    BY <1>0, <1>7, <2>1, CallStepType, IdentifyInv, UsageUnchanged
<1>8. CASE Close
  <2>1. UNCHANGED usage \/ \E r \in Requests : StartFlush(r)
    BY <1>8 DEF Close
  <2> QED
    BY <1>0, <1>8, <2>1, CloseType, CloseInv, UsageUnchanged, FlushCounts
<1> QED
  BY <1>1, <1>2, <1>3, <1>4, <1>5, <1>6, <1>7, <1>8 DEF Next

\* ClientInv is inductive.
THEOREM Invariant == Spec => []ClientInv
BY InitInv, StepInv, PTL DEF Spec

\* The client's variables have their types; in particular the reconnect delay never leaves
\* 1 to 30 seconds and the usage buffers never go below zero.
THEOREM TypeCorrect == Spec => []TypeOK
<1>1. ClientInv => TypeOK
  BY DEF ClientInv
<1> QED
  BY <1>1, Invariant, PTL

\* However many calls of identify and close overlap, at most the stream in handle is open.
THEOREM OneStreamCorrect == Spec => []OneStream
<1>1. ClientInv => OneStream
  BY DEF ClientInv
<1> QED
  BY <1>1, Invariant, PTL

\* The store holds another context's values only after a chunk read before its stream was
\* closed was handed on after.
THEOREM StoreCorrect == Spec => []ForeignStoreHasCause
<1>1. ClientInv => ForeignStoreHasCause
  BY DEF ClientInv
<1> QED
  BY <1>1, Invariant, PTL

\* Whoever reads from the cache, with whatever type, reads what the client without a cache
\* would have been told for the current context by a server with a version it had.
THEOREM ReadsCorrect == Spec => []ReadsHonest
<1>1. ClientInv => ReadsHonest
  <2> SUFFICES ASSUME ClientInv PROVE ReadsHonest
    OBVIOUS
  <2>1. ForeignStoreHasCause
    BY DEF ClientInv
  <2>2. ASSUME storeCtx # Nobody, ~late
        PROVE  \E v \in 1..version :
                 /\ CachedAllFlags = AllFlags(currentContext, v)
                 /\ \A f \in Flags, kind \in Kinds :
                      CachedVariation(f, kind) = ClientVariation(currentContext, v, f, kind)
    <3>1. storeCtx = currentContext /\ storeVer \in 1..version
      BY <2>1, <2>2 DEF ClientInv, Evaluated, ForeignStoreHasCause
    <3>2. ASSUME NEW f \in Flags PROVE Cached(f) = Eval(currentContext, storeVer, f)
      BY <2>2, <3>1 DEF Cached
    <3>3. CachedAllFlags = AllFlags(currentContext, storeVer)
      BY <3>2 DEF CachedAllFlags, AllFlags
    <3>4. ASSUME NEW f \in Flags, NEW kind \in Kinds
          PROVE  CachedVariation(f, kind) = ClientVariation(currentContext, storeVer, f, kind)
      <4>1. CASE Cached(f) = Absent
        BY <3>2, <4>1 DEF CachedVariation, ClientVariation, SafeValue, Undefined, Kinds
      <4>2. CASE Cached(f) # Absent
        <5>1. Cached(f) \in Variations
          BY <4>2, CachedKey DEF ClientInv, Keys
        <5>2. Value(f, Cached(f)).type \in {"boolean", "string", "number", "object"}
          BY <5>1, ValueAssumption
        <5>3. Value(f, Cached(f)) # Undefined
          BY <5>2 DEF Undefined
        <5>4. SafeValue(currentContext, storeVer, f) = Value(f, Cached(f))
          BY <3>2, <4>2 DEF SafeValue
        <5> QED
          BY <4>2, <5>2, <5>3, <5>4 DEF CachedVariation, ClientVariation, Kinds
      <4> QED
        BY <4>1, <4>2
    <3> QED
      BY <3>1, <3>3, <3>4
  <2>3. ASSUME storeCtx = Nobody, NEW f \in Flags, NEW kind \in Kinds
        PROVE  CachedVariation(f, kind) = Fallback
    BY <2>3 DEF CachedVariation, Cached
  <2> QED
    BY <2>1, <2>2, <2>3 DEF ReadsHonest
<1> QED
  BY <1>1, Invariant, PTL

\* For any number of reads, requests and failures, every counted evaluation is in one place,
\* and the counters of buffer, requests and outcomes are exactly the evaluations there.
THEOREM CountsCorrect == Spec => []CountsConserved
<1>1. ClientInv => CountsConserved
  BY DEF ClientInv
<1> QED
  BY <1>1, Invariant, PTL

\* Nobody is left waiting for a snapshot that has arrived, and a client that is not ready
\* has an empty store.
THEOREM WaitersCorrect == Spec => []NobodyStranded
<1>1. ClientInv => NobodyStranded
  BY DEF ClientInv
<1> QED
  BY <1>1, Invariant, PTL
=============================================================================
