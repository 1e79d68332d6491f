------------------------------ MODULE Dashboard ------------------------------
(***************************************************************************)
(* The signed-in dashboard at work: a user on its pages (DashboardPages),  *)
(* the query cache between the pages and the API, requests and answers     *)
(* under way, and somebody else who writes to the same backend.            *)
(*                                                                         *)
(* TanStack Query is external and is modelled by what the hooks rely on:   *)
(* a mounted query fetches when it has no data, was invalidated or is      *)
(* older than staleTime; invalidateQueries fetches the mounted entries     *)
(* again, giving up an earlier fetch only of an entry that has data; an    *)
(* answer, old or not, replaces the data; setQueryData leaves a running    *)
(* fetch alone; a pending mutation of a mounted page runs the onSuccess of *)
(* the latest render.                                                      *)
(***************************************************************************)
EXTENDS DashboardPages

CONSTANTS Visits,    \* where a visit may begin, and how much may happen in it: what the user does
                     \* (moves), the mutations among that (sends), and the fetches that others
                     \* overtake, requests that fail and writes by somebody else (trouble)
          Pages      \* the pages visited

\* A visit begins on a page of the router, and nothing is created without a key.
ASSUME DashboardAssumption ==
  /\ Pages \subseteq PageNames
  /\ \A visit \in Visits : visit.at.page \in PageNames /\ (visit.at.page = "segment" => visit.at.item # "")
  /\ "" \notin NewKeys

VARIABLES db,        \* the backend's state
          route, ui, \* the page and its own state
          mounted,   \* the enabled queries of the page as it was last rendered
          cache,     \* key -> entry
          muts,      \* the pending mutations, oldest first
          moves, sends, trouble \* how much may still happen

vars == <<db, route, ui, mounted, cache, muts, moves, sends, trouble>>

----------------------------------------------------------------------------
(* The query cache.  An entry remembers the writes its data, and the       *)
(* answer on its way, missed: history only, no step reads it.  raced is    *)
(* set when an answer that may be older was let stand.                     *)

NoReply == [ok |-> FALSE, shape |-> "", rows |-> {}]

Entry(req) ==
  [req |-> req, shape |-> "", rows |-> {}, status |-> "pending", invalid |-> FALSE,
   fetch |-> "asked", tries |-> 0, reply |-> NoReply,
   missed |-> {}, replyMissed |-> {}, raced |-> FALSE]

HasData(e) == e.shape # ""
StartFetch(e) ==
  [e EXCEPT !.fetch = "asked", !.tries = 0, !.reply = NoReply, !.replyMissed = {}, !.raced = FALSE]

\* queries: staleTime 30 s, which `aged' says have passed.
IsStale(e, aged) == e.status # "success" \/ e.invalid \/ aged

OnMount(c, q, aged) ==
  IF q.key \notin DOMAIN c THEN Entry(q.req)
  ELSE IF c[q.key].fetch = "idle" /\ IsStale(c[q.key], aged)
       THEN StartFetch([c[q.key] EXCEPT !.req = q.req])
       ELSE c[q.key]

SetQueryData(c, k, req, body, missed) ==
  LET old == IF k \in DOMAIN c THEN c[k] ELSE [Entry(req) EXCEPT !.fetch = "idle"]
      new == [old EXCEPT !.rows = body.rows, !.shape = body.shape, !.status = "success",
                         !.invalid = FALSE, !.missed = missed,
                         !.raced = @ \/ old.fetch # "idle" \/ missed # {}]
  IN [x \in DOMAIN c \cup {k} |-> IF x = k THEN new ELSE c[x]]

Matches(prefixes, k) == \E p \in prefixes : IsPrefix(p, k)

\* The keys invalidateQueries fetches again, and which of them give up a running fetch.
Refetched(c, prefixes, on) == {k \in DOMAIN c : Matches(prefixes, k) /\ k \in on}
Restarted(c, prefixes, on) ==
  {k \in Refetched(c, prefixes, on) : c[k].fetch = "idle" \/ HasData(c[k])}

InvalidateQueries(c, prefixes, on) ==
  [k \in DOMAIN c |->
     IF ~Matches(prefixes, k) THEN c[k]
     ELSE IF k \in Restarted(c, prefixes, on) THEN StartFetch([c[k] EXCEPT !.invalid = TRUE])
     ELSE [c[k] EXCEPT !.invalid = TRUE, !.raced = c[k].fetch # "idle"]]

\* queries: retry 1.  A query nobody watches any more is not tried again.
FailedFetch(e, watched) ==
  IF e.tries < 1 /\ watched THEN [e EXCEPT !.fetch = "asked", !.tries = @ + 1, !.reply = NoReply, !.replyMissed = {}]
  ELSE [e EXCEPT !.fetch = "idle", !.tries = 0, !.reply = NoReply, !.replyMissed = {},
                 !.status = "error", !.invalid = TRUE]

ReceivedFetch(e, watched) ==
  IF ~e.reply.ok THEN FailedFetch(e, watched)
  ELSE [e EXCEPT !.fetch = "idle", !.tries = 0, !.reply = NoReply, !.replyMissed = {},
                 !.status = "success", !.invalid = FALSE, !.rows = e.reply.rows,
                 !.shape = e.reply.shape, !.missed = e.replyMissed]

AnsweredFetch(e, reply) ==
  [e EXCEPT !.fetch = "answered", !.replyMissed = {},
            !.reply = [ok |-> reply.ok, shape |-> reply.body.shape, rows |-> reply.body.rows]]

\* The backend goes from s to t by a write of `who': history of what each entry missed.
Differs(req, s, t) == Handle(req, s).body # Handle(req, t).body
Written(c, s, t, who) ==
  [k \in DOMAIN c |->
     IF s = t \/ ~Differs(c[k].req, s, t) THEN c[k]
     ELSE [c[k] EXCEPT !.missed = IF HasData(c[k]) THEN @ \cup {who} ELSE @,
                       !.replyMissed = IF c[k].fetch = "answered" THEN @ \cup {who} ELSE @]]

\* A mutation as it was sent.
Sent(m) == MutationOf(m.hook, m.sent, m.v)

\* History: the answers under way to mutations of the entry a write changes miss it.
WrittenUnder(ms, c, s, t, who) ==
  [i \in DOMAIN ms |->
     LET k == Sent(ms[i]).set
     IN IF ms[i].phase = "answered" /\ k \in DOMAIN c /\ Differs(c[k].req, s, t)
        THEN [ms[i] EXCEPT !.missed = @ \cup {who}] ELSE ms[i]]

\* History: the write of `who' is known under another name.
Renamed(names, who, as) == IF who \in names THEN (names \ {who}) \cup {as} ELSE names
Blame(c, who, as) ==
  [k \in DOMAIN c |-> [c[k] EXCEPT !.missed = Renamed(@, who, as), !.replyMissed = Renamed(@, who, as)]]

----------------------------------------------------------------------------
(* Rendering.                                                              *)

Enabled(queries) == {q \in queries : q.enabled}
Keys(queries) == {q.key : q \in queries}

\* Mounts the queries of `on' that were not mounted before.
Mount(c, on, before, aged) ==
  [k \in DOMAIN c \cup Keys(on) |->
     IF k \in Keys(on) \ before THEN OnMount(c, CHOOSE q \in on : q.key = k, aged) ELSE c[k]]

\* A hook's latest mutation gets the closures of each render, while its page is mounted.
Rerendered(ms, r, u, c) ==
  [i \in DOMAIN ms |-> IF ms[i].live THEN [ms[i] EXCEPT !.c = Here(r, u, c)] ELSE ms[i]]

Unmounted(ms) == [i \in DOMAIN ms |-> [ms[i] EXCEPT !.live = FALSE]]

\* Pages of one shell share the queries the shell mounts.
KeptByShell(from, to) ==
  IF {from.page, to.page} \cap (OrgPages \cup SettingsPages) = {} THEN {ProjectsKey} ELSE {}

\* `on' is mounted, where `before' was, over the cache c.
Renders(on, c, before, aged) ==
  /\ mounted' = on
  /\ cache' = Mount(c, on, before, aged)

\* The step leaves the page as it is, but for its state u, over the cache c, mutations ms.
Shows(u, c, ms) ==
  /\ Renders(Enabled(Router(route, u, c).queries), c, Keys(mounted), FALSE)
  /\ ui' = u
  /\ muts' = Rerendered(ms, route, u, c)
  /\ UNCHANGED route

Opens(r, c, ms, aged) ==
  /\ Renders(Enabled(Router(r, NewUi, c).queries), c, KeptByShell(route, r), aged)
  /\ route' = r
  /\ ui' = NewUi
  /\ muts' = Unmounted(ms)

----------------------------------------------------------------------------
(* The user.                                                               *)

InFlight == {k \in DOMAIN cache : cache[k].fetch # "idle"}
\* A bound: the user waits for all fetches, but for one where the others are answered promptly.
Acts == /\ moves > 0
        /\ InFlight # {} => trouble = 0 /\ Cardinality(InFlight) = 1
        /\ moves' = moves - 1

Troubled == trouble > 0 /\ trouble' = trouble - 1

Navigate(to, aged) ==
  /\ Acts
  /\ to.page \in Pages
  /\ to # route
  /\ Opens(to, cache, muts, aged)
  /\ UNCHANGED <<db, sends, trouble>>

\* Environment tabs, search boxes, filters, the dialogs a page opens and closes.
Choose(u) ==
  /\ Acts
  /\ u # ui
  /\ Shows(u, cache, muts)
  /\ UNCHANGED <<db, sends, trouble>>

\* 250 ms after the last key.
Debounced ==
  /\ ui.search # ui.query
  /\ Shows([ui EXCEPT !.search = ui.query], cache, muts)
  /\ UNCHANGED <<db, moves, sends, trouble>>

\* ErrorState's retry.
Retry(k) ==
  /\ Acts
  /\ k \in Keys(mounted)
  /\ cache[k].status = "error"
  /\ cache' = [cache EXCEPT ![k] = IF @.fetch = "idle" \/ HasData(@) THEN StartFetch(@) ELSE @]
  /\ UNCHANGED <<db, route, ui, mounted, muts, sends, trouble>>

\* isPending of a hook is that of its latest mutation.
Disabled(cmd) ==
  \E i \in DOMAIN muts : /\ muts[i].live
                         /\ muts[i].hook \in cmd.unless
                         /\ cmd.row \in {"any", muts[i].row}

\* A hook observes the mutation it started last, and no earlier one.
Superseded(ms, hook) ==
  [i \in DOMAIN ms |-> IF ms[i].hook = hook THEN [ms[i] EXCEPT !.live = FALSE] ELSE ms[i]]

Mutate(cmd) ==
  LET here == Here(route, ui, cache)
  IN /\ Acts
     /\ sends > 0
     /\ sends' = sends - 1
     /\ ~Disabled(cmd)
     /\ muts' = Append(Superseded(muts, cmd.hook),
                       [hook |-> cmd.hook, v |-> cmd.v, row |-> cmd.row, then |-> cmd.then,
                        sent |-> here, c |-> here, phase |-> "sent", ok |-> FALSE,
                        body |-> [shape |-> "", rows |-> {}], missed |-> {}, waits |-> {},
                        live |-> TRUE])
     /\ UNCHANGED <<db, route, ui, mounted, cache, trouble>>

----------------------------------------------------------------------------
(* Fetches.                                                                *)

\* What a fetch that ends changes for the mutations that wait for it.
NoLongerForgotten(ms, keys) == ms    \* Wrong variant.

NoLonger(ms, keys) == [i \in DOMAIN ms |-> [ms[i] EXCEPT !.waits = @ \ keys]]

Received(c, k) == [c EXCEPT ![k] = ReceivedFetch(@, k \in Keys(mounted))]
Ended(c, keys) == {k \in keys : c[k].fetch = "idle"}

\* Listing scheduled changes runs the ones that are due, so a read may write.
Answered(k) ==
  LET reply == Handle(cache[k].req, db)
  IN [db |-> reply.db,
      cache |-> [Written(cache, db, reply.db, "scheduler") EXCEPT ![k] = AnsweredFetch(@, reply)]]

Asked == {k \in DOMAIN cache : cache[k].fetch = "asked"}
Slow == {k \in DOMAIN cache : cache[k].fetch = "answered"}

\* What is due is run before the other fetches of `keys' are answered.
AfterReading(keys) ==
  LET written == {Handle(cache[k].req, db).db : k \in keys} \ {db}
  IN IF written = {} THEN db ELSE CHOOSE t \in written : TRUE

\* The fetches of `keys' are answered from the state t, and the answers received.
Loaded(c, keys, t) ==
  [k \in DOMAIN c |->
     IF k \in keys
     THEN ReceivedFetch(AnsweredFetch(c[k], Handle(c[k].req, t)), k \in Keys(mounted)) ELSE c[k]]

\* The fetches under way are answered before anything else happens, but for the late.
Load(late) ==
  LET keys == Asked \ late
      t == AfterReading(keys)
      c == Loaded(Written(cache, db, t, "scheduler"), keys, t)
  IN /\ keys # {}
     /\ IF late = {} THEN UNCHANGED trouble ELSE Troubled
     /\ db' = t
     /\ Shows(ui, c, NoLonger(WrittenUnder(muts, cache, db, t, "scheduler"), Ended(c, keys)))
     /\ UNCHANGED <<moves, sends>>

ServeFetch(k) ==
  LET served == Answered(k)
  IN /\ k \in Asked
     /\ Troubled
     /\ db' = served.db
     /\ cache' = served.cache
     /\ muts' = WrittenUnder(muts, cache, db, served.db, "scheduler")
     /\ UNCHANGED <<route, ui, mounted, moves, sends>>

ReceiveFetch(k) ==
  LET c == Received(cache, k)
  IN /\ k \in Slow
     /\ Shows(ui, c, NoLonger(muts, Ended(c, {k})))
     /\ UNCHANGED <<db, moves, sends, trouble>>

LoseFetch(k) ==
  LET c == [cache EXCEPT ![k] = FailedFetch(@, k \in Keys(mounted))]
  IN /\ k \in Asked
     /\ Troubled
     /\ Shows(ui, c, NoLonger(muts, Ended(c, {k})))
     /\ UNCHANGED <<db, moves, sends>>

----------------------------------------------------------------------------
(* Mutations.                                                              *)

Latest(m) == MutationOf(m.hook, m.c, m.v)

ServeMutation(i) ==
  LET reply == Handle(Sent(muts[i]).req, db)
  IN /\ muts[i].phase = "sent"
     /\ db' = reply.db
     /\ cache' = Written(cache, db, reply.db, muts[i].hook)
     /\ muts' = [WrittenUnder(muts, cache, db, reply.db, muts[i].hook) EXCEPT
                   ![i] = [@ EXCEPT !.phase = "answered", !.ok = reply.ok, !.body = reply.body]]
     /\ UNCHANGED <<route, ui, mounted, moves, sends, trouble>>

\* No answer comes.
LoseMutation(i) ==
  /\ muts[i].phase \in {"sent", "answered"}
  /\ Troubled
  /\ cache' = Blame(cache, muts[i].hook, "lost")
  /\ muts' = RemoveAt(muts, i)
  /\ UNCHANGED <<db, route, ui, mounted, moves, sends>>

\* The mutation succeeded: mutate's own onSuccess, if its page is still there and has not
\* started the mutation again.
Succeeded(c, ms, m, latest) ==
  IF latest /\ m.then.do = "go" THEN Opens(m.then.to, c, ms, FALSE)
  ELSE Shows(IF latest /\ m.then.do = "reveal"
               THEN [ui EXCEPT !.revealed = (CHOOSE r \in m.body.rows : TRUE).secret] ELSE ui,
             c, ms)

\* The hook's onSuccess, whether its page is there or not: `now' is the mutation as the
\* latest render has it, `sent' as it was sent.
OnSuccess(m, sent, now) ==
  LET crossed == now.set # sent.set \/ now.invalidates # sent.invalidates
      known == IF crossed THEN Blame(cache, m.hook, "crossed") ELSE cache
  IN IF now.set = <<>> THEN known
     ELSE SetQueryData(known, now.set, sent.req, m.body, IF crossed THEN {"crossed"} ELSE m.missed)

Invalidates(i, c, now, waits) ==
  LET ms == NoLonger(muts, Restarted(c, now.invalidates, Keys(mounted)))
      after == InvalidateQueries(c, now.invalidates, Keys(mounted))
  IN IF waits = {} THEN Succeeded(after, RemoveAt(ms, i), muts[i], muts[i].live)
     ELSE Shows(ui, after, [ms EXCEPT ![i] = [@ EXCEPT !.phase = "waiting", !.waits = waits]])

ReceiveMutation(i) ==
  LET now == Latest(muts[i])
      c == OnSuccess(muts[i], Sent(muts[i]), now)
  IN /\ muts[i].phase = "answered"
     /\ muts[i].ok
     /\ Invalidates(i, c, now, IF now.awaits THEN Refetched(c, now.invalidates, Keys(mounted)) ELSE {})
     /\ UNCHANGED <<db, moves, sends, trouble>>

\* Mutations are not retried: the page shows the error.
FailMutation(i) ==
  /\ muts[i].phase = "answered"
  /\ ~muts[i].ok
  /\ Shows(ui, cache, RemoveAt(muts, i))
  /\ UNCHANGED <<db, moves, sends, trouble>>

\* What it invalidated has been fetched.
SettleMutation(i) ==
  /\ muts[i].phase = "waiting"
  /\ muts[i].waits = {}
  /\ Succeeded(cache, RemoveAt(muts, i), muts[i], muts[i].live)
  /\ UNCHANGED <<db, moves, sends, trouble>>

----------------------------------------------------------------------------
(* Somebody else, and time.                                                *)

TheirWrites ==
  {Ask("PATCH config", InConfig("new-checkout", "production", Toggled(TRUE))),
   Ask("PUT segment", [key |-> "beta-users", content |-> "theirs"]),
   Ask("DELETE flag", [flag |-> "new-checkout"])}

SomebodyElse(req) ==
  LET t == Handle(req, db).db
  IN /\ Troubled
     /\ db' = t
     /\ cache' = Written(cache, db, t, "other")
     /\ muts' = WrittenUnder(muts, cache, db, t, "other")
     /\ UNCHANGED <<route, ui, mounted, moves, sends>>

Tick ==
  /\ Troubled
  /\ ~db.late
  /\ Due([db EXCEPT !.late = TRUE]) # {}
  /\ db' = [db EXCEPT !.late = TRUE]
  /\ cache' = Written(cache, db, db', "scheduler")
  /\ UNCHANGED <<route, ui, mounted, muts, moves, sends>>

----------------------------------------------------------------------------
Init ==
  /\ db = Seed
  /\ \E visit \in Visits : /\ route = visit.at
                           /\ moves = visit.moves
                           /\ sends = visit.sends
                           /\ trouble = visit.trouble
  /\ ui = NewUi
  /\ mounted = Enabled(Router(route, NewUi, <<>>).queries)
  /\ cache = Mount(<<>>, mounted, {}, FALSE)
  /\ muts = <<>>

\* The network answers and the event loop runs.
Progress ==
  \/ Debounced
  \/ \E late \in {{}} \cup {{k} : k \in Asked} : Load(late)
  \/ \E k \in DOMAIN cache : ServeFetch(k) \/ ReceiveFetch(k)
  \/ \E i \in DOMAIN muts : \/ ServeMutation(i) \/ ReceiveMutation(i)
                            \/ FailMutation(i) \/ SettleMutation(i)

\* Nothing is under way: the page waits for its user.  Everything else is a deadlock.
Idle ==
  /\ InFlight = {} /\ muts = <<>> /\ ui.search = ui.query
  /\ UNCHANGED vars

UserStep ==
  \E page \in {Router(route, ui, cache)} :
     \/ \E to \in page.links, aged \in BOOLEAN : Navigate(to, aged)
     \/ \E u \in page.choices : Choose(u)
     \/ \E cmd \in page.commands : Mutate(cmd)
     \/ \E k \in DOMAIN cache : Retry(k)

Next ==
  \/ Progress
  \/ UserStep
  \/ \E k \in DOMAIN cache : LoseFetch(k)
  \/ \E i \in DOMAIN muts : LoseMutation(i)
  \/ \E req \in TheirWrites : SomebodyElse(req)
  \/ Tick
  \/ Idle

Spec == Init /\ [][Next]_vars

----------------------------------------------------------------------------
(* Properties.                                                             *)

Quiet == InFlight = {} /\ muts = <<>>

\* Entries and mutations are in one of their states, and an entry that succeeded has data:
\* pages read it without a check.
EntryStates ==
  /\ \A k \in DOMAIN cache :
       /\ cache[k].status \in {"pending", "success", "error"}
       /\ cache[k].fetch \in {"idle", "asked", "answered"}
       /\ cache[k].status = "success" => HasData(cache[k])
  /\ \A i \in DOMAIN muts : muts[i].phase \in {"sent", "answered", "waiting"}

\* The backend, the page and its state have their types; so have the entries and mutations;
\* and the data, fetched or put there by a mutation, has the type the api declares
\* (web/src/types).
TypeOK ==
  /\ db \in State
  /\ route \in [page : STRING, item : STRING, kind : STRING, env : STRING]
  /\ ui \in [picked : STRING, query : STRING, search : STRING, filter : STRING, revealed : Nat,
             deliveries : Nat]
  /\ EntryStates
  /\ \A k \in DOMAIN cache : HasData(cache[k]) => cache[k].rows \subseteq RowsOfShape[cache[k].shape]

\* Writes no page hears of: somebody else's, the scheduler's, those whose answer was lost,
\* and those whose page was on another environment when the answer came.
Unheard == {"other", "scheduler", "lost", "crossed"}

\* Views a hook's onSuccess leaves as they are until they are 30 s old: the switch of the
\* flag page and the switches of the flag list do not refresh each other; the flags a
\* context is evaluated against; and, since the mock gives every environment the same
\* keys, the SDK keys of an environment that is not shown.
KnownGaps ==
  {<<"useToggleFlag", "envFlags">>, <<"useToggleEnvFlag", "config">>,
   <<"useCreateFlag", "context">>, <<"useDeleteFlag", "context">>,
   <<"useCreateSdkKey", "sdkKeys">>, <<"useRevokeSdkKey", "sdkKeys">>}

\* Data that missed no write is what the backend has; a list without controls then has a row
\* for every item of it, under a React key of its own, and claims that there are none only
\* when there are none.
ListsTrue ==
  /\ \A q \in mounted :
       LET e == cache[q.key]
       IN e.status = "success" /\ e.shape = q.shape /\ e.missed = {}
          => e.rows = Handle(q.req, db).body.rows
  /\ \A list \in Router(route, ui, cache).lists :
       LET rows == Handle(list.of.req, db).body.rows
       IN cache[list.of.key].missed = {}
          => /\ Cardinality({r.id : r \in list.rows}) = Cardinality(rows)
             /\ list.none <=> rows = {}

\* Once nothing is under way, no list or detail on the page lacks a write this user made
\* from any page before (the hooks' setQueryData and invalidateQueries), and a list says
\* what its data says (ListsTrue).  The exceptions
\* are named: an answer older than the write overtook it (raced), the write was not heard
\* of, two queries share the key, or it is a known gap.
OwnWritesSeen ==
  /\ ListsTrue
  /\ Quiet => \A q \in mounted :
                LET e == cache[q.key]
                IN e.status = "success" /\ ~e.raced /\ e.shape = q.shape
                   => \A h \in e.missed \ Unheard : <<h, q.shape>> \in KnownGaps

\* Two queries with one key (lib/query-keys.ts): a search of the segments and the segment that has
\* the text for its key; and, should they be keys of flags and environments, the flag "lifecycle"
\* and the lifecycle of the flags, or the flag "env" in an environment and a search among the
\* flags of the environment "config".
SharedKey(k, shapes) ==
  \/ shapes = {"segments", "segment"} /\ k[3] # ""
  \/ shapes = {"flag", "lifecycle"} /\ k[3] = "lifecycle"
  \/ shapes = {"config", "envFlags"} /\ k[3] = "env" /\ k[4] = "config"

\* A page is never handed data of another kind than its query asks for, but where two
\* queries share their key.
ShapesMatch ==
  \A q \in mounted :
    HasData(cache[q.key]) /\ cache[q.key].shape # q.shape =>
      SharedKey(q.key, {cache[q.key].shape, q.shape})

\* Trigger urls and webhook secrets, shown once by the page that minted them, are never
\* kept in the query cache.
SecretsNotCached ==
  \A k \in DOMAIN cache : cache[k].shape \in {"triggers", "webhooks"} =>
    \A r \in cache[k].rows : r.secret = 0

\* A mutation that keeps its button disabled until the lists are fresh waits only for
\* fetches that are under way, so no fetch that ends, fails or is given up leaves the
\* button disabled for good.
WaitsEnd == \A i \in DOMAIN muts : muts[i].waits \subseteq InFlight
=============================================================================
