----------------------------- MODULE MockWorker -----------------------------
(***************************************************************************)
(* The dashboard on fixtures: the service worker that stands between its   *)
(* pages and the network (web/public/mockServiceWorker.js), the boot that  *)
(* starts it (app/main.tsx), the configuration that asks for it            *)
(* (vite/runtime-config.ts) and the banner that tells the user             *)
(* (components/environment-banner.tsx).                                    *)
(*                                                                         *)
(* A client is one document; a reload is another client.  A page has one   *)
(* request under way at a time.  The worker's handlers are asynchronous:   *)
(* between two of their awaits pages open, close and talk to it, and other *)
(* handlers run.  The set activeClientIds lives in the worker's memory:    *)
(* the browser may stop a worker that has nothing to do, and the next      *)
(* event starts it again with the set empty.  A worker that unregistered   *)
(* itself keeps the pages it controls; the next page to register makes a   *)
(* new worker, which claims every page.                                    *)
(***************************************************************************)
EXTENDS Integers, FiniteSets

CONSTANTS
  MaxClients,   \* bound: documents, numbered as they are loaded
  Frames,       \* the ones that may be frames inside another page
  Environment,  \* APP_ENVIRONMENT
  Flags,        \* what .env may say of APP_ENABLE_MOCKING; "unset" is nothing
  MaxWorkers,   \* bounds: workers, and requests under way
  MaxAsking

ASSUME MockWorkerAssumption ==
  /\ MaxClients \in Nat /\ Frames \subseteq 1..MaxClients
  /\ Environment \in {"development", "staging", "production"}
  /\ MaxWorkers \in Nat /\ MaxAsking \in Nat

Clients == 1..MaxClients
Workers == 1..MaxWorkers
None == 0

VARIABLES
  command,      \* how the server was started: "serve" or "build"
  page,         \* per client: how far the document is
  mocked,       \* per client: enableMocking as the page read it
  nested,       \* the clients that are frames
  registered,   \* the worker of the registration, 0 if there is none
  started,      \* how many workers were made
  activated,    \* the workers that are active
  controller,   \* per client: the worker its requests go through, 0 for none
  host,         \* per client: the worker the page talks to, 0 for none
  activeClientIds,  \* per worker
  handlers,     \* message events a worker is handling
  enabling,     \* clients MOCKING_ENABLED is on its way to
  ask,          \* per client: where its request is
  via,          \* per client: the worker that has it
  main,         \* per client: the client that is asked for the answer
  last,         \* the last answer: to whom, and from where; "passed" is the network's
                \* answer to a request the asked page let pass
  cause,        \* history: why the page's worker no longer knows it
  behind        \* history: clients that opened while a goodbye was handled

browser == <<registered, started, activated, controller, host>>
requests == <<ask, via, main, last>>
vars == <<command, page, mocked, nested, registered, started, activated, controller, host,
          activeClientIds, handlers, enabling, ask, via, main, last, cause, behind>>

Stages == {"unborn", "booting", "configured", "starting", "activating", "mocking", "live",
           "unloading", "closed"}
Messages == {"MOCK_ACTIVATE", "CLIENT_CLOSED"}
Handlers == [worker : 0..MaxWorkers, from : Clients, data : Messages,
             at : {"posted", "found", "listed"}, all : SUBSET Clients]

PageType ==
  /\ command \in {"serve", "build"}
  /\ page \in [Clients -> Stages] /\ mocked \in [Clients -> BOOLEAN]
  /\ nested \subseteq Clients /\ enabling \subseteq Clients /\ behind \subseteq Clients
  /\ cause \in [Clients -> SUBSET {"terminated", "claimed"}]

BrowserType ==
  /\ registered \in 0..MaxWorkers /\ started \in 0..MaxWorkers
  /\ activated \subseteq Workers
  /\ controller \in [Clients -> 0..MaxWorkers] /\ host \in [Clients -> 0..MaxWorkers]

WorkerType ==
  /\ activeClientIds \in [Workers -> SUBSET Clients]
  /\ handlers \subseteq Handlers

RequestType ==
  /\ ask \in [Clients -> {"idle", "resolving", "listing", "resolved", "asking"}]
  /\ via \in [Clients -> 0..MaxWorkers] /\ main \in [Clients -> Clients \cup {None}]
  /\ last \in [to : Clients \cup {None}, from : {"nobody", "network", "passed", "mock"}]

\* Types of the pages', the browser's and the worker's state.
TypeOK == PageType /\ BrowserType /\ WorkerType /\ RequestType

\* Wrong variant: the flag decides, whatever the bundle is made for.
RuntimeConfigOfFlag(cmd, flag) == flag \in {"unset", "true"}

\* runtimeConfig: only vite dev honours the flag, which is on unless it is set
\* to something else than "true".
RuntimeConfig(cmd, flag) == cmd = "serve" /\ flag \in {"unset", "true"}

NoAnswer == [to |-> None, from |-> "nobody"]

Init ==
  /\ command \in {"serve", "build"}
  /\ page = [c \in Clients |-> "unborn"]
  /\ mocked = [c \in Clients |-> FALSE]
  /\ nested \in SUBSET Frames
  /\ registered = 0 /\ started = 0 /\ activated = {}
  /\ controller = [c \in Clients |-> 0] /\ host = [c \in Clients |-> 0]
  /\ activeClientIds = [w \in Workers |-> {}]
  /\ handlers = {} /\ enabling = {}
  /\ ask = [c \in Clients |-> "idle"] /\ via = [c \in Clients |-> 0]
  /\ main = [c \in Clients |-> None]
  /\ last = NoAnswer
  /\ cause = [c \in Clients |-> {}] /\ behind = {}

Exists(c) == page[c] \notin {"unborn", "closed"}

\* The page no longer waits for its request.
GivenUp(c) ==
  /\ ask' = [ask EXCEPT ![c] = "idle"] /\ via' = [via EXCEPT ![c] = 0]
  /\ main' = [main EXCEPT ![c] = None]
  /\ last' = IF last.to = c THEN NoAnswer ELSE last

Post(w, c, data) == [worker |-> w, from |-> c, data |-> data, at |-> "posted", all |-> {}]

----------------------------------------------------------------------------
(* The browser.                                                            *)

\* External: a document is loaded.  Its own request is a navigation, which the
\* fetch handler leaves alone; the registered worker controls it.
Open(c) ==
  /\ page[c] = "unborn" /\ \A d \in 1..(c - 1) : page[d] # "unborn"
  /\ page' = [page EXCEPT ![c] = IF c \in nested THEN "live" ELSE "booting"]
  /\ controller' = [controller EXCEPT ![c] = IF registered \in activated THEN registered ELSE 0]
  /\ behind' = IF \E h \in handlers : /\ h.worker = registered
                                      /\ h.data = "CLIENT_CLOSED" /\ h.at = "listed"
               THEN behind \cup {c} ELSE behind
  /\ UNCHANGED <<command, mocked, nested, registered, started, activated, host,
                 activeClientIds, handlers, enabling, cause>>
  /\ UNCHANGED requests

\* External: beforeunload.  The page's requests are given up; one that started the
\* worker says goodbye.
Unload(c) ==
  /\ page[c] \in Stages \ {"unborn", "unloading", "closed"}
  /\ page' = [page EXCEPT ![c] = "unloading"]
  /\ GivenUp(c)
  /\ handlers' = IF page[c] \in {"activating", "mocking"}
                 THEN handlers \cup {Post(host[c], c, "CLIENT_CLOSED")} ELSE handlers
  /\ enabling' = enabling \ {c}
  /\ UNCHANGED <<command, mocked, nested, activeClientIds, cause, behind>>
  /\ UNCHANGED browser

\* External: the document is gone, after beforeunload or because it crashed.
Gone(c) ==
  /\ Exists(c)
  /\ page' = [page EXCEPT ![c] = "closed"]
  /\ GivenUp(c)
  /\ controller' = [controller EXCEPT ![c] = 0]
  /\ host' = [host EXCEPT ![c] = 0]
  /\ mocked' = [mocked EXCEPT ![c] = FALSE]
  /\ cause' = [cause EXCEPT ![c] = {}]
  /\ enabling' = enabling \ {c}
  /\ UNCHANGED <<command, nested, registered, started, activated, activeClientIds, handlers,
                 behind>>

\* External: the browser stops a worker that has nothing to do.
Terminate(w) ==
  /\ activeClientIds[w] # {}
  /\ \A h \in handlers : h.worker # w
  /\ \A c \in Clients : ask[c] # "idle" => via[c] # w
  /\ activeClientIds' = [activeClientIds EXCEPT ![w] = {}]
  /\ cause' = [c \in Clients |-> IF c \in activeClientIds[w] /\ Exists(c)
                                 THEN cause[c] \cup {"terminated"} ELSE cause[c]]
  /\ UNCHANGED <<command, page, mocked, nested, handlers, enabling, behind>>
  /\ UNCHANGED browser /\ UNCHANGED requests

----------------------------------------------------------------------------
(* Boot.                                                                   *)

\* bootstrap(): the configuration is there (the dev server writes it when it starts, from
\* the .env of that moment).  On fixtures the page registers the worker, which makes one
\* if there is none; if not, it renders.
Bootstrap(c) ==
  /\ page[c] = "configured"
  /\ \E flag \in Flags : mocked' = [mocked EXCEPT ![c] = RuntimeConfig(command, flag)]
  /\ IF command = "serve" /\ mocked'[c]
     THEN /\ page' = [page EXCEPT ![c] = "starting"]
          /\ registered = 0 => started < MaxWorkers
          /\ started' = IF registered = 0 THEN started + 1 ELSE started
          /\ registered' = IF registered = 0 THEN started + 1 ELSE registered
          /\ host' = [host EXCEPT ![c] = IF registered = 0 THEN started + 1 ELSE registered]
     ELSE /\ page' = [page EXCEPT ![c] = "live"]
          /\ UNCHANGED <<started, registered, host>>
  /\ UNCHANGED <<command, nested, activated, controller, activeClientIds, handlers,
                 enabling, ask, via, main, last, cause, behind>>

\* install, then activate: no waiting, and every page is claimed.
Activate(w) ==
  /\ w \in 1..started /\ w \notin activated
  /\ activated' = activated \cup {w}
  /\ controller' = [c \in Clients |-> IF Exists(c) THEN w ELSE controller[c]]
  /\ cause' = [c \in Clients |-> IF host[c] # w /\ page[c] \in {"starting", "activating", "mocking"}
                                 THEN cause[c] \cup {"claimed"} ELSE cause[c]]
  /\ UNCHANGED <<command, page, mocked, nested, registered, started, host, activeClientIds,
                 handlers, enabling, behind>>
  /\ UNCHANGED requests

\* External: worker.start() goes on once its worker is active.
PostActivate(c) ==
  /\ page[c] = "starting" /\ host[c] \in activated
  /\ page' = [page EXCEPT ![c] = "activating"]
  /\ handlers' = handlers \cup {Post(host[c], c, "MOCK_ACTIVATE")}
  /\ UNCHANGED <<command, mocked, nested, activeClientIds, enabling, cause, behind>>
  /\ UNCHANGED browser /\ UNCHANGED requests

\* External: MOCKING_ENABLED arrives, worker.start() resolves, the app renders.
Enabled(c) ==
  /\ c \in enabling
  /\ enabling' = enabling \ {c}
  /\ page' = [page EXCEPT ![c] = "mocking"]
  /\ UNCHANGED <<command, mocked, nested, activeClientIds, handlers, cause, behind>>
  /\ UNCHANGED browser /\ UNCHANGED requests

----------------------------------------------------------------------------
(* The worker's message handler, from await to await.                      *)

Moved(h, at, all) ==
  [worker |-> h.worker, from |-> h.from, data |-> h.data, at |-> at, all |-> all]

\* clients.get: a client that is gone ends the handler.
GetClient(h) ==
  /\ h.at = "posted"
  /\ handlers' = (handlers \ {h}) \cup (IF Exists(h.from) THEN {Moved(h, "found", {})} ELSE {})
  /\ UNCHANGED <<command, page, mocked, nested, activeClientIds, enabling, cause, behind>>
  /\ UNCHANGED browser /\ UNCHANGED requests

\* clients.matchAll: the pages the worker controls now.  Only a goodbye looks at them.
MatchAll(w) == {c \in Clients : Exists(c) /\ controller[c] = w}

ListClients(h) ==
  /\ h.at = "found"
  /\ handlers' = (handlers \ {h})
                   \cup {Moved(h, "listed", IF h.data = "CLIENT_CLOSED" THEN MatchAll(h.worker) ELSE {})}
  /\ UNCHANGED <<command, page, mocked, nested, activeClientIds, enabling, cause, behind>>
  /\ UNCHANGED browser /\ UNCHANGED requests

\* Wrong variant: every goodbye unregisters the worker.
ClientClosedAlwaysUnregisters(h) ==
  /\ activeClientIds' = [activeClientIds EXCEPT ![h.worker] = @ \ {h.from}]
  /\ registered' = IF registered = h.worker THEN 0 ELSE registered
  /\ UNCHANGED enabling

\* CLIENT_CLOSED: forget the page; unregister when it was the last one listed.
ClientClosed(h) ==
  /\ activeClientIds' = [activeClientIds EXCEPT ![h.worker] = @ \ {h.from}]
  /\ registered' = IF h.all \ {h.from} = {} /\ registered = h.worker THEN 0 ELSE registered
  /\ UNCHANGED enabling

\* MOCK_ACTIVATE: remember the page and tell it (one that is leaving does not listen).
MockActivate(h) ==
  /\ activeClientIds' = [activeClientIds EXCEPT ![h.worker] = @ \cup {h.from}]
  /\ enabling' = IF page[h.from] = "activating" THEN enabling \cup {h.from} ELSE enabling
  /\ UNCHANGED registered

\* The switch.  (The keepalive and the integrity check only get an answer; while they
\* are handled the worker is busy.)
HandleMessage(h) ==
  /\ h.at = "listed"
  /\ handlers' = handlers \ {h}
  /\ \/ h.data = "CLIENT_CLOSED" /\ ClientClosed(h)
     \/ h.data = "MOCK_ACTIVATE" /\ MockActivate(h)
  /\ UNCHANGED <<command, page, mocked, nested, started, activated, controller, host, cause,
                 behind>>
  /\ UNCHANGED requests

----------------------------------------------------------------------------
(* Requests.                                                               *)

\* Rendered pages ask for data, booting ones for /config.json.
Asks(c) == page[c] \in {"booting", "mocking", "live"}

\* The page's promise settles: it has its configuration, or data.
Answered(c, answer) ==
  IF page[c] = "booting"
  THEN page' = [page EXCEPT ![c] = "configured"] /\ UNCHANGED last
  ELSE last' = [to |-> c, from |-> answer] /\ UNCHANGED page

\* The fetch handler.  It returns at once, and the browser asks the network, when
\* nobody is active (and for navigations and the only-if-cached requests of the
\* developer tools, which are no page's).
Fetch(c) ==
  /\ Asks(c) /\ ask[c] = "idle"
  /\ LET w == controller[c] IN
     IF w = 0 \/ activeClientIds[w] = {}
     THEN Answered(c, "network") /\ UNCHANGED <<ask, via>>
     ELSE /\ Cardinality({d \in Clients : ask[d] # "idle"}) < MaxAsking
          /\ ask' = [ask EXCEPT ![c] = "resolving"]
          /\ via' = [via EXCEPT ![c] = w]
          /\ UNCHANGED <<last, page>>
  /\ UNCHANGED <<command, mocked, nested, activeClientIds, handlers, enabling, main, cause, behind>>
  /\ UNCHANGED browser

\* resolveMainClient up to its second await: the page itself if it is active or
\* no frame.
ResolveMainClient(c) ==
  /\ ask[c] = "resolving"
  /\ IF c \in activeClientIds[via[c]] \/ c \notin nested
     THEN ask' = [ask EXCEPT ![c] = "resolved"] /\ main' = [main EXCEPT ![c] = c]
     ELSE ask' = [ask EXCEPT ![c] = "listing"] /\ UNCHANGED main
  /\ UNCHANGED <<command, page, mocked, nested, activeClientIds, handlers, enabling, via, last,
                 cause, behind>>
  /\ UNCHANGED browser

\* Its end, for a frame: a visible page that is active, if there is one.
ResolveVisibleClient(c) ==
  /\ ask[c] = "listing"
  /\ ask' = [ask EXCEPT ![c] = "resolved"]
  /\ \E d \in (MatchAll(via[c]) \cap activeClientIds[via[c]]) \cup {None} :
       main' = [main EXCEPT ![c] = d]
  /\ UNCHANGED <<command, page, mocked, nested, activeClientIds, handlers, enabling, via, last,
                 cause, behind>>
  /\ UNCHANGED browser

\* The handler ends: its response settles the page's promise.
Responds(c, answer) ==
  /\ Answered(c, answer)
  /\ ask' = [ask EXCEPT ![c] = "idle"]
  /\ via' = [via EXCEPT ![c] = 0]
  /\ main' = [main EXCEPT ![c] = None]

\* Wrong variant: any page is asked.
GetResponseUnchecked(c) ==
  /\ ask[c] = "resolved"
  /\ IF main[c] # None
     THEN ask' = [ask EXCEPT ![c] = "asking"] /\ UNCHANGED <<via, main, last, page>>
     ELSE Responds(c, "network")
  /\ UNCHANGED <<command, mocked, nested, activeClientIds, handlers, enabling, cause, behind>>
  /\ UNCHANGED browser

\* getResponse: nobody, or a page that is not active: the network answers.
GetResponse(c) ==
  /\ ask[c] = "resolved"
  /\ IF main[c] \in activeClientIds[via[c]]
     THEN ask' = [ask EXCEPT ![c] = "asking"] /\ UNCHANGED <<via, main, last, page>>
     ELSE Responds(c, "network")
  /\ UNCHANGED <<command, mocked, nested, activeClientIds, handlers, enabling, cause, behind>>
  /\ UNCHANGED browser

\* The page that was asked answers: a fixture (respondWithMock makes one with
\* status 0 a network error, as does a handler that throws; both are the fixtures'
\* doing), or PASSTHROUGH; config.json has no fixture.
AnswerRequest(c) ==
  /\ ask[c] = "asking"
  /\ page[main[c]] \in {"activating", "mocking"}
  /\ \E answer \in IF page[c] = "booting" THEN {"passed"} ELSE {"passed", "mock"} :
       Responds(c, answer)
  /\ UNCHANGED <<command, mocked, nested, activeClientIds, handlers, enabling, cause, behind>>
  /\ UNCHANGED browser

WorkerStep(h) == GetClient(h) \/ ListClients(h) \/ HandleMessage(h)
RequestStep(c) ==
  ResolveMainClient(c) \/ ResolveVisibleClient(c) \/ GetResponse(c) \/ AnswerRequest(c)
StartStep(c) == PostActivate(c) \/ Enabled(c)

Next ==
  \/ \E c \in Clients : \/ Open(c) \/ Unload(c) \/ Gone(c) \/ Bootstrap(c) \/ StartStep(c)
                        \/ Fetch(c) \/ RequestStep(c)
  \/ \E w \in Workers : Activate(w) \/ Terminate(w)
  \/ \E h \in handlers : WorkerStep(h)

Spec == Init /\ [][Next]_vars

----------------------------------------------------------------------------
(* Properties.                                                             *)

\* EnvironmentBanner, which knows the configuration only.
EnvironmentBanner(mocking) ==
  IF Environment = "production" THEN "nothing"
  ELSE IF Environment = "staging" THEN "staging"
  ELSE IF mocking THEN "mocked" ELSE "live"

\* "The two are never confused": where the banner says that data is mocked no answer
\* comes from the network, unless the page's own handlers let the request pass or its
\* worker lost the page; where it says live no fixture is ever shown.
BannerTruthful ==
  LET c == last.to IN
  c # None /\ c \notin nested /\ page[c] \in {"mocking", "live"} =>
    /\ EnvironmentBanner(mocked[c]) = "mocked" /\ last.from = "network" => cause[c] # {}
    /\ EnvironmentBanner(mocked[c]) = "live" => last.from # "mock"

\* A new worker takes a page from the one that knows it only if the page opened while
\* the goodbye of the last page before it was being handled, after the worker had
\* listed its clients and before it unregistered itself.
OrphanHasCause == \A c \in Clients : "claimed" \in cause[c] => c \in behind

\* Nobody waits for a message that will not come: a page that waits for its worker to
\* start has one that is made and not lost, or its MOCK_ACTIVATE, or the answer, is on its
\* way (bootstrap() renders only after startWorker()); and a client that was asked for an
\* answer can give it (the worker sets itself no timeout), but for a frame's request
\* whose page has left.
SomebodyAnswers ==
  \A c \in Clients :
    /\ page[c] = "starting" => host[c] \in 1..started
    /\ page[c] = "activating" =>
         c \in enabling \/ \E h \in handlers : h.from = c /\ h.data = "MOCK_ACTIVATE"
    /\ ask[c] = "asking" =>
         \/ page[main[c]] \in {"activating", "mocking"}
         \/ c \in nested /\ page[main[c]] \in {"unloading", "closed"}
=============================================================================
