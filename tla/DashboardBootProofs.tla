------------------------ MODULE DashboardBootProofs -------------------------
(***************************************************************************)
(* Proofs about what stands around the dashboard's pages.                  *)
(*                                                                         *)
(* The mock service worker (MockWorker), for any number of documents,      *)
(* workers, requests and messages.  The induction rests on what the        *)
(* browser, the pages and the worker know of each other (Agreement):       *)
(*   Registration  the registered worker, once active, controls every      *)
(*                 page, and all the others are active already;            *)
(*   Documents     a page that started the worker is controlled by the     *)
(*                 worker it talks to, unless it was claimed; if that      *)
(*                 worker is no longer registered, the page is behind;     *)
(*   Conversations a goodbye comes from a page that leaves, and lists      *)
(*                 every page that is not behind;                          *)
(*   Memory        an enabled page is remembered by its worker;            *)
(*   Requests      a request is with the page's own worker, and whoever    *)
(*                 was asked had started the worker.                       *)
(*                                                                         *)
(* The session (DashboardSession), for any set of users and any number of  *)
(* reloads and failed requests, with and without a working localStorage.   *)
(***************************************************************************)
EXTENDS MockWorker, DashboardSession, TLAPS

----------------------------------------------------------------------------
(* The mock service worker.                                                *)

Talking == {"starting", "activating", "mocking"}
Known == {"activating", "mocking", "unloading", "closed"}

Registration ==
  /\ registered \in 0..started /\ activated \subseteq 1..started
  /\ \A w \in 1..started : w = registered \/ w \in activated
  /\ \A c \in Clients : Exists(c) /\ registered \in activated => controller[c] = registered

Documents ==
  \A c \in Clients :
    /\ page[c] \in Talking => mocked[c] /\ host[c] \in 1..started
    /\ page[c] = "live" /\ c \notin nested => ~mocked[c]
    /\ page[c] \in {"activating", "mocking"} => host[c] \in activated
    /\ c \in nested => page[c] \in {"unborn", "live", "unloading", "closed"}
    /\ page[c] \in Talking /\ host[c] \in activated =>
         controller[c] = host[c] \/ "claimed" \in cause[c]
    /\ page[c] \in Talking /\ host[c] # registered => c \in behind
    /\ "claimed" \in cause[c] => c \in behind

Conversations ==
  \A h \in handlers :
    /\ h.worker \in activated
    /\ page[h.from] \in Known
    /\ h.data = "CLIENT_CLOSED" => page[h.from] \in {"unloading", "closed"}
    /\ page[h.from] = "activating" => h.worker = host[h.from]
    /\ h.data = "CLIENT_CLOSED" /\ h.at = "listed" /\ h.worker = registered =>
         \A c \in Clients : Exists(c) => c \in h.all \/ c \in behind

Memory ==
  /\ \A w \in Workers : \A c \in activeClientIds[w] : page[c] \in Known
  /\ \A c \in enabling : page[c] = "activating"
  /\ \A c \in Clients : page[c] = "mocking" \/ c \in enabling =>
       c \in activeClientIds[host[c]] \/ "terminated" \in cause[c]

Starting ==
  \A c \in Clients : page[c] = "activating" =>
    c \in enabling \/ \E h \in handlers : h.from = c /\ h.data = "MOCK_ACTIVATE"

Asking ==
  \A c \in Clients :
    /\ ask[c] # "idle" => page[c] \in {"booting", "mocking", "live"} /\ via[c] \in Workers
    /\ ask[c] # "idle" /\ page[c] = "mocking" => via[c] = host[c] \/ "claimed" \in cause[c]
    /\ ask[c] = "listing" => c \in nested
    /\ ask[c] \in {"resolved", "asking"} /\ c \notin nested => main[c] = c
    /\ ask[c] = "asking" => main[c] \in Clients /\ page[main[c]] \in Known

Answers ==
  /\ last.to # None => page[last.to] \in {"mocking", "live"}
  /\ BannerTruthful

Agreement ==
  Registration /\ Documents /\ Conversations /\ Memory /\ Starting /\ Asking /\ Answers

----------------------------------------------------------------------------
(* Types.                                                                  *)

\* A document is loaded: the types are kept.
LEMMA OpenType ==
  ASSUME TypeOK, NEW c \in Clients, Open(c)
  PROVE  TypeOK'
<1>1. PageType'
  BY DEF TypeOK, PageType, Open, Stages
<1>2. BrowserType'
  BY MockWorkerAssumption DEF TypeOK, BrowserType, Open
<1>3. WorkerType'
  BY MockWorkerAssumption DEF TypeOK, WorkerType, Open
<1>4. RequestType'
  BY MockWorkerAssumption DEF TypeOK, RequestType, Open, requests
<1> QED BY <1>1, <1>2, <1>3, <1>4 DEF TypeOK

\* A page leaves: the types are kept.
LEMMA UnloadType ==
  ASSUME TypeOK, NEW c \in Clients, Unload(c)
  PROVE  TypeOK'
<1>1. PageType'
  BY DEF TypeOK, PageType, Unload, Stages
<1>2. BrowserType'
  BY MockWorkerAssumption DEF TypeOK, BrowserType, Unload, browser
<1>3. WorkerType'
  BY MockWorkerAssumption DEF TypeOK, WorkerType, Unload, Post, Handlers, Messages, BrowserType
<1>4. RequestType'
  BY MockWorkerAssumption DEF TypeOK, RequestType, Unload, GivenUp, NoAnswer
<1> QED BY <1>1, <1>2, <1>3, <1>4 DEF TypeOK

\* A document is gone: the types are kept.
LEMMA GoneType ==
  ASSUME TypeOK, NEW c \in Clients, Gone(c)
  PROVE  TypeOK'
<1>1. PageType'
  BY DEF TypeOK, PageType, Gone, Stages
<1>2. BrowserType'
  BY MockWorkerAssumption DEF TypeOK, BrowserType, Gone
<1>3. WorkerType'
  BY MockWorkerAssumption DEF TypeOK, WorkerType, Gone
<1>4. RequestType'
  BY MockWorkerAssumption DEF TypeOK, RequestType, Gone, GivenUp, NoAnswer
<1> QED BY <1>1, <1>2, <1>3, <1>4 DEF TypeOK

\* bootstrap() has its configuration: the types are kept.
LEMMA BootstrapType ==
  ASSUME TypeOK, NEW c \in Clients, Bootstrap(c)
  PROVE  TypeOK'
<1>1. PageType'
  BY DEF TypeOK, PageType, Bootstrap, RuntimeConfig, Stages
<1>2. BrowserType'
  BY MockWorkerAssumption DEF TypeOK, BrowserType, Bootstrap
<1>3. WorkerType'
  BY MockWorkerAssumption DEF TypeOK, WorkerType, Bootstrap
<1>4. RequestType'
  BY MockWorkerAssumption DEF TypeOK, RequestType, Bootstrap
<1> QED BY <1>1, <1>2, <1>3, <1>4 DEF TypeOK

\* A page tells its worker that it is there: the types are kept.
LEMMA PostActivateType ==
  ASSUME TypeOK, NEW c \in Clients, PostActivate(c)
  PROVE  TypeOK'
<1>1. PageType'
  BY DEF TypeOK, PageType, PostActivate, Stages
<1>2. BrowserType'
  BY MockWorkerAssumption DEF TypeOK, BrowserType, PostActivate, browser
<1>3. WorkerType'
  BY MockWorkerAssumption
  DEF TypeOK, WorkerType, PostActivate, Post, Handlers, Messages, BrowserType
<1>4. RequestType'
  BY MockWorkerAssumption DEF TypeOK, RequestType, PostActivate, requests
<1> QED BY <1>1, <1>2, <1>3, <1>4 DEF TypeOK

\* A page hears that mocking is enabled: the types are kept.
LEMMA EnabledType ==
  ASSUME TypeOK, NEW c \in Clients, Enabled(c)
  PROVE  TypeOK'
<1>1. PageType'
  BY DEF TypeOK, PageType, Enabled, Stages
<1>2. BrowserType'
  BY MockWorkerAssumption DEF TypeOK, BrowserType, Enabled, browser
<1>3. WorkerType'
  BY MockWorkerAssumption DEF TypeOK, WorkerType, Enabled
<1>4. RequestType'
  BY MockWorkerAssumption DEF TypeOK, RequestType, Enabled, requests
<1> QED BY <1>1, <1>2, <1>3, <1>4 DEF TypeOK

\* A page asks: the types are kept.
LEMMA FetchType ==
  ASSUME TypeOK, NEW c \in Clients, Fetch(c)
  PROVE  TypeOK'
<1>1. PageType'
  <2>1. CASE page[c] = "booting"
    BY <2>1 DEF TypeOK, PageType, Fetch, Answered, Stages
  <2>2. CASE page[c] # "booting"
    BY <2>2 DEF TypeOK, PageType, Fetch, Answered
  <2> QED BY <2>1, <2>2
<1>2. BrowserType'
  <2>1. CASE page[c] = "booting"
    BY <2>1, MockWorkerAssumption DEF TypeOK, BrowserType, Fetch, browser
  <2>2. CASE page[c] # "booting"
    BY <2>2, MockWorkerAssumption DEF TypeOK, BrowserType, Fetch, browser
  <2> QED BY <2>1, <2>2
<1>3. WorkerType'
  <2>1. CASE page[c] = "booting"
    BY <2>1, MockWorkerAssumption DEF TypeOK, WorkerType, Fetch
  <2>2. CASE page[c] # "booting"
    BY <2>2, MockWorkerAssumption DEF TypeOK, WorkerType, Fetch
  <2> QED BY <2>1, <2>2
<1>4. RequestType'
  <2>1. CASE page[c] = "booting"
    BY <2>1, MockWorkerAssumption DEF TypeOK, RequestType, Fetch, Answered, BrowserType
  <2>2. CASE page[c] # "booting"
    BY <2>2, MockWorkerAssumption DEF TypeOK, RequestType, Fetch, Answered, BrowserType
  <2> QED BY <2>1, <2>2
<1> QED BY <1>1, <1>2, <1>3, <1>4 DEF TypeOK

\* The worker looks for the page to ask: the types are kept.
LEMMA ResolveMainClientType ==
  ASSUME TypeOK, NEW c \in Clients, ResolveMainClient(c)
  PROVE  TypeOK'
<1>1. PageType'
  BY DEF TypeOK, PageType, ResolveMainClient
<1>2. BrowserType'
  BY MockWorkerAssumption DEF TypeOK, BrowserType, ResolveMainClient, browser
<1>3. WorkerType'
  BY MockWorkerAssumption DEF TypeOK, WorkerType, ResolveMainClient
<1>4. RequestType'
  BY MockWorkerAssumption DEF TypeOK, RequestType, ResolveMainClient
<1> QED BY <1>1, <1>2, <1>3, <1>4 DEF TypeOK

\* A frame's request finds a page: the types are kept.
LEMMA ResolveVisibleClientType ==
  ASSUME TypeOK, NEW c \in Clients, ResolveVisibleClient(c)
  PROVE  TypeOK'
<1>1. PageType'
  BY DEF TypeOK, PageType, ResolveVisibleClient
<1>2. BrowserType'
  BY MockWorkerAssumption DEF TypeOK, BrowserType, ResolveVisibleClient, browser
<1>3. WorkerType'
  BY MockWorkerAssumption DEF TypeOK, WorkerType, ResolveVisibleClient
<1>4. RequestType'
  BY MockWorkerAssumption DEF TypeOK, RequestType, ResolveVisibleClient, MatchAll
<1> QED BY <1>1, <1>2, <1>3, <1>4 DEF TypeOK

\* The worker asks the page, or the network: the types are kept.
LEMMA GetResponseType ==
  ASSUME TypeOK, NEW c \in Clients, GetResponse(c)
  PROVE  TypeOK'
<1>1. PageType'
  <2>1. CASE page[c] = "booting"
    BY <2>1 DEF TypeOK, PageType, GetResponse, Responds, Answered, Stages
  <2>2. CASE page[c] # "booting"
    BY <2>2 DEF TypeOK, PageType, GetResponse, Responds, Answered
  <2> QED BY <2>1, <2>2
<1>2. BrowserType'
  <2>1. CASE page[c] = "booting"
    BY <2>1, MockWorkerAssumption DEF TypeOK, BrowserType, GetResponse, browser
  <2>2. CASE page[c] # "booting"
    BY <2>2, MockWorkerAssumption DEF TypeOK, BrowserType, GetResponse, browser
  <2> QED BY <2>1, <2>2
<1>3. WorkerType'
  <2>1. CASE page[c] = "booting"
    BY <2>1, MockWorkerAssumption DEF TypeOK, WorkerType, GetResponse
  <2>2. CASE page[c] # "booting"
    BY <2>2, MockWorkerAssumption DEF TypeOK, WorkerType, GetResponse
  <2> QED BY <2>1, <2>2
<1>4. RequestType'
  <2>1. CASE page[c] = "booting"
    BY <2>1, MockWorkerAssumption DEF TypeOK, RequestType, GetResponse, Responds, Answered
  <2>2. CASE page[c] # "booting"
    BY <2>2, MockWorkerAssumption DEF TypeOK, RequestType, GetResponse, Responds, Answered
  <2> QED BY <2>1, <2>2
<1> QED BY <1>1, <1>2, <1>3, <1>4 DEF TypeOK

\* The asked page answers: the types are kept.
LEMMA AnswerRequestType ==
  ASSUME TypeOK, NEW c \in Clients, AnswerRequest(c)
  PROVE  TypeOK'
<1>1. PageType'
  <2>1. CASE page[c] = "booting"
    BY <2>1 DEF TypeOK, PageType, AnswerRequest, Responds, Answered, Stages
  <2>2. CASE page[c] # "booting"
    BY <2>2 DEF TypeOK, PageType, AnswerRequest, Responds, Answered
  <2> QED BY <2>1, <2>2
<1>2. BrowserType'
  <2>1. CASE page[c] = "booting"
    BY <2>1, MockWorkerAssumption DEF TypeOK, BrowserType, AnswerRequest, browser
  <2>2. CASE page[c] # "booting"
    BY <2>2, MockWorkerAssumption DEF TypeOK, BrowserType, AnswerRequest, browser
  <2> QED BY <2>1, <2>2
<1>3. WorkerType'
  <2>1. CASE page[c] = "booting"
    BY <2>1, MockWorkerAssumption DEF TypeOK, WorkerType, AnswerRequest
  <2>2. CASE page[c] # "booting"
    BY <2>2, MockWorkerAssumption DEF TypeOK, WorkerType, AnswerRequest
  <2> QED BY <2>1, <2>2
<1>4. RequestType'
  <2>1. CASE page[c] = "booting"
    BY <2>1, MockWorkerAssumption DEF TypeOK, RequestType, AnswerRequest, Responds, Answered
  <2>2. CASE page[c] # "booting"
    BY <2>2, MockWorkerAssumption DEF TypeOK, RequestType, AnswerRequest, Responds, Answered
  <2> QED BY <2>1, <2>2
<1> QED BY <1>1, <1>2, <1>3, <1>4 DEF TypeOK

\* A worker becomes active and claims every page: the types are kept.
LEMMA ActivateType ==
  ASSUME TypeOK, NEW w \in Workers, Activate(w)
  PROVE  TypeOK'
<1>1. PageType'
  BY DEF TypeOK, PageType, Activate
<1>2. BrowserType'
  BY MockWorkerAssumption DEF TypeOK, BrowserType, Activate, Workers
<1>3. WorkerType'
  BY MockWorkerAssumption DEF TypeOK, WorkerType, Activate
<1>4. RequestType'
  BY MockWorkerAssumption DEF TypeOK, RequestType, Activate, requests
<1> QED BY <1>1, <1>2, <1>3, <1>4 DEF TypeOK

\* The browser stops a worker: the types are kept.
LEMMA TerminateType ==
  ASSUME TypeOK, NEW w \in Workers, Terminate(w)
  PROVE  TypeOK'
<1>1. PageType'
  BY DEF TypeOK, PageType, Terminate
<1>2. BrowserType'
  BY MockWorkerAssumption DEF TypeOK, BrowserType, Terminate, browser
<1>3. WorkerType'
  BY MockWorkerAssumption DEF TypeOK, WorkerType, Terminate
<1>4. RequestType'
  BY MockWorkerAssumption DEF TypeOK, RequestType, Terminate, requests
<1> QED BY <1>1, <1>2, <1>3, <1>4 DEF TypeOK

\* A message's sender is looked up: the types are kept.
LEMMA GetClientType ==
  ASSUME TypeOK, NEW h \in handlers, GetClient(h)
  PROVE  TypeOK'
<1>1. PageType'
  BY DEF TypeOK, PageType, GetClient
<1>2. BrowserType'
  BY MockWorkerAssumption DEF TypeOK, BrowserType, GetClient, browser
<1>3. WorkerType'
  BY MockWorkerAssumption DEF TypeOK, WorkerType, GetClient, Moved, Handlers
<1>4. RequestType'
  BY MockWorkerAssumption DEF TypeOK, RequestType, GetClient, requests
<1> QED BY <1>1, <1>2, <1>3, <1>4 DEF TypeOK

\* The worker lists its pages: the types are kept.
LEMMA ListClientsType ==
  ASSUME TypeOK, NEW h \in handlers, ListClients(h)
  PROVE  TypeOK'
<1>1. PageType'
  BY DEF TypeOK, PageType, ListClients
<1>2. BrowserType'
  BY MockWorkerAssumption DEF TypeOK, BrowserType, ListClients, browser
<1>3. WorkerType'
  BY MockWorkerAssumption DEF TypeOK, WorkerType, ListClients, Moved, MatchAll, Handlers
<1>4. RequestType'
  BY MockWorkerAssumption DEF TypeOK, RequestType, ListClients, requests
<1> QED BY <1>1, <1>2, <1>3, <1>4 DEF TypeOK

\* The worker handles a message: the types are kept.
LEMMA HandleMessageType ==
  ASSUME TypeOK, NEW h \in handlers, HandleMessage(h)
  PROVE  TypeOK'
<1>1. PageType'
  <2>1. CASE h.data = "CLIENT_CLOSED"
    BY <2>1 DEF TypeOK, PageType, HandleMessage, ClientClosed
  <2>2. CASE h.data = "MOCK_ACTIVATE"
    BY <2>2 DEF TypeOK, PageType, HandleMessage, MockActivate, WorkerType, Handlers
  <2> QED BY <2>1, <2>2 DEF HandleMessage
<1>2. BrowserType'
  <2>1. CASE h.data = "CLIENT_CLOSED"
    BY <2>1, MockWorkerAssumption DEF TypeOK, BrowserType, HandleMessage, ClientClosed
  <2>2. CASE h.data = "MOCK_ACTIVATE"
    BY <2>2, MockWorkerAssumption DEF TypeOK, BrowserType, HandleMessage, MockActivate
  <2> QED BY <2>1, <2>2 DEF HandleMessage
<1>3. WorkerType'
  <2>1. CASE h.data = "CLIENT_CLOSED"
    BY <2>1, MockWorkerAssumption DEF TypeOK, WorkerType, HandleMessage, ClientClosed
  <2>2. CASE h.data = "MOCK_ACTIVATE"
    BY <2>2, MockWorkerAssumption DEF TypeOK, WorkerType, HandleMessage, MockActivate, Handlers
  <2> QED BY <2>1, <2>2 DEF HandleMessage
<1>4. RequestType'
  <2>1. CASE h.data = "CLIENT_CLOSED"
    BY <2>1, MockWorkerAssumption DEF TypeOK, RequestType, HandleMessage, requests
  <2>2. CASE h.data = "MOCK_ACTIVATE"
    BY <2>2, MockWorkerAssumption DEF TypeOK, RequestType, HandleMessage, requests
  <2> QED BY <2>1, <2>2 DEF HandleMessage
<1> QED BY <1>1, <1>2, <1>3, <1>4 DEF TypeOK

----------------------------------------------------------------------------
(* The agreement is kept.                                                  *)

\* A document is loaded: the agreement is kept.
LEMMA OpenKeeps ==
  ASSUME TypeOK, TypeOK', Agreement, NEW c \in Clients, Open(c)
  PROVE  Agreement'
<1>1. Registration'
  BY DEF TypeOK, BrowserType, Agreement, Registration, Exists, Open
<1>2. Documents'
  BY DEF Agreement, Documents, Talking, Open
<1>3. Conversations'
  BY DEF Agreement, Conversations, Exists, Known, Open
<1>4. Memory'
  BY DEF Agreement, Memory, Known, Open
<1>5. Starting'
  BY DEF Agreement, Starting, Open
<1>6. Asking'
  BY DEF Agreement, Asking, Known, Open, requests
<1>7. Answers'
  BY DEF Agreement, Answers, BannerTruthful, Open, requests
<1> QED BY <1>1, <1>2, <1>3, <1>4, <1>5, <1>6, <1>7 DEF Agreement

\* A page leaves: the agreement is kept.
LEMMA UnloadKeeps ==
  ASSUME TypeOK, TypeOK', Agreement, NEW c \in Clients, Unload(c)
  PROVE  Agreement'
<1>1. Registration'
  BY DEF Agreement, Registration, Exists, Unload, browser
<1>2. Documents'
  BY DEF Agreement, Documents, Talking, Unload, browser
<1>3. Conversations'
  BY DEF TypeOK, PageType, Agreement, Conversations, Documents, Exists, Known, Unload, Post,
         browser
<1>4. Memory'
  BY DEF Agreement, Memory, Known, Unload, browser
<1>5. Starting'
  BY DEF TypeOK, PageType, Agreement, Starting, Unload
<1>6. Asking'
  BY DEF TypeOK, RequestType, Agreement, Asking, Known, Unload, GivenUp, browser
<1>7. Answers'
  BY DEF Agreement, Answers, BannerTruthful, Unload, GivenUp, NoAnswer
<1> QED BY <1>1, <1>2, <1>3, <1>4, <1>5, <1>6, <1>7 DEF Agreement

\* A document is gone: the agreement is kept.
LEMMA GoneKeeps ==
  ASSUME TypeOK, TypeOK', Agreement, NEW c \in Clients, Gone(c)
  PROVE  Agreement'
<1>1. Registration'
  BY DEF TypeOK, PageType, Agreement, Registration, Exists, Gone
<1>2. Documents'
  BY DEF TypeOK, PageType, Agreement, Documents, Talking, Gone
<1>3. Conversations'
  BY DEF TypeOK, PageType, Agreement, Conversations, Exists, Known, Gone
<1>4. Memory'
  BY DEF TypeOK, PageType, Agreement, Memory, Known, Gone
<1>5. Starting'
  BY DEF TypeOK, PageType, Agreement, Starting, Gone
<1>6. Asking'
  BY DEF TypeOK, RequestType, Agreement, Asking, Known, Gone, GivenUp
<1>7. Answers'
  BY DEF TypeOK, PageType, RequestType, Agreement, Answers, BannerTruthful, EnvironmentBanner,
         Gone, GivenUp, NoAnswer
<1> QED BY <1>1, <1>2, <1>3, <1>4, <1>5, <1>6, <1>7 DEF Agreement

\* bootstrap() has its configuration: the agreement is kept.
LEMMA BootstrapKeeps ==
  ASSUME TypeOK, TypeOK', Agreement, NEW c \in Clients, Bootstrap(c)
  PROVE  Agreement'
<1>1. Registration'
  BY DEF TypeOK, BrowserType, PageType, Agreement, Registration, Exists, Bootstrap
<1>2. Documents'
  <2>1. PICK flag \in Flags : mocked' = [mocked EXCEPT ![c] = RuntimeConfig(command, flag)]
    BY DEF Bootstrap
  <2>2. mocked'[c] = RuntimeConfig(command, flag) /\ \A d \in Clients \ {c} : mocked'[d] = mocked[d]
    BY <2>1 DEF TypeOK, PageType
  <2>3. /\ c \notin nested
        /\ "claimed" \in cause[c] => c \in behind
    BY DEF Agreement, Documents, Bootstrap
  <2>4. CASE command = "serve" /\ mocked'[c]
    <3>1. /\ page' = [page EXCEPT ![c] = "starting"]
          /\ started' = IF registered = 0 THEN started + 1 ELSE started
          /\ registered' = IF registered = 0 THEN started + 1 ELSE registered
          /\ host' = [host EXCEPT ![c] = IF registered = 0 THEN started + 1 ELSE registered]
          /\ UNCHANGED <<nested, activated, controller, cause, behind>>
      BY <2>4 DEF Bootstrap
    <3>2. host'[c] = registered' /\ host'[c] \in 1..started'
      BY <3>1, MockWorkerAssumption DEF TypeOK, BrowserType, Agreement, Registration
    <3>3. registered' \in activated => controller[c] = registered'
      BY <3>1, MockWorkerAssumption
      DEF TypeOK, BrowserType, Agreement, Registration, Bootstrap, Exists
    <3>4. ASSUME NEW d \in Clients \ {c}, page[d] \in Talking
          PROVE  host[d] \in 1..started' /\ (host[d] # registered' => d \in behind)
      BY <3>1, <3>4, MockWorkerAssumption DEF TypeOK, BrowserType, Agreement, Documents
    <3>5. page'[c] = "starting"
      BY <3>1 DEF TypeOK, PageType
    <3>6. ASSUME NEW d \in Clients \ {c}
          PROVE  page'[d] = page[d] /\ host'[d] = host[d] /\ mocked'[d] = mocked[d]
      BY <2>2, <3>1 DEF TypeOK, PageType, BrowserType
    <3>7. /\ mocked'[c] /\ c \notin nested'
          /\ host'[c] \in activated' => controller'[c] = host'[c]
          /\ "claimed" \in cause'[c] => c \in behind'
      BY <2>3, <2>4, <3>1, <3>2, <3>3
    <3>8. ASSUME NEW d \in Clients, d # c, page[d] \in Talking
          PROVE  host'[d] \in 1..started' /\ (host'[d] # registered' => d \in behind')
      BY <3>8, <3>1, <3>4, <3>6
    <3> QED BY <3>1, <3>2, <3>5, <3>6, <3>7, <3>8 DEF Agreement, Documents, Talking
  <2>5. CASE ~(command = "serve" /\ mocked'[c])
    <3>1. ~mocked'[c]
      BY <2>2, <2>5 DEF RuntimeConfig
    <3> QED BY <2>2, <2>3, <2>5, <3>1
            DEF TypeOK, PageType, Agreement, Documents, Talking, Bootstrap
  <2> QED BY <2>4, <2>5
<1>3. Conversations'
  BY DEF TypeOK, PageType, WorkerType, BrowserType, Agreement, Conversations, Registration,
         Exists, Known, Handlers, Bootstrap
<1>4. Memory'
  BY DEF TypeOK, PageType, WorkerType, BrowserType, Agreement, Memory, Known, Bootstrap
<1>5. Starting'
  BY DEF TypeOK, PageType, Agreement, Starting, Bootstrap
<1>6. Asking'
  BY DEF TypeOK, PageType, BrowserType, Agreement, Asking, Known, Bootstrap
<1>7. Answers'
  BY DEF TypeOK, PageType, RequestType, Agreement, Answers, BannerTruthful, Bootstrap
<1> QED BY <1>1, <1>2, <1>3, <1>4, <1>5, <1>6, <1>7 DEF Agreement

\* A page tells its worker that it is there: the agreement is kept.
LEMMA PostActivateKeeps ==
  ASSUME TypeOK, TypeOK', Agreement, NEW c \in Clients, PostActivate(c)
  PROVE  Agreement'
<1>1. Registration'
  BY DEF Agreement, Registration, Exists, PostActivate, browser
<1>2. Documents'
  BY DEF Agreement, Documents, Talking, PostActivate, browser
<1>3. Conversations'
  BY DEF TypeOK, PageType, Agreement, Conversations, Exists, Known, PostActivate, Post, browser
<1>4. Memory'
  BY DEF Agreement, Memory, Known, PostActivate, browser
<1>5. Starting'
  <2>1. Post(host[c], c, "MOCK_ACTIVATE") \in handlers'
    BY DEF PostActivate
  <2>2. /\ Post(host[c], c, "MOCK_ACTIVATE").from = c
        /\ Post(host[c], c, "MOCK_ACTIVATE").data = "MOCK_ACTIVATE"
    BY DEF Post
  <2>3. handlers \subseteq handlers' /\ UNCHANGED enabling
        /\ \A d \in Clients \ {c} : page'[d] = page[d]
    BY DEF PostActivate, TypeOK, PageType
  <2> QED BY <2>1, <2>2, <2>3 DEF Agreement, Starting
<1>6. Asking'
  BY DEF Agreement, Asking, Known, PostActivate, browser, requests
<1>7. Answers'
  BY DEF Agreement, Answers, BannerTruthful, PostActivate, requests
<1> QED BY <1>1, <1>2, <1>3, <1>4, <1>5, <1>6, <1>7 DEF Agreement

\* A page hears that mocking is enabled: the agreement is kept.
LEMMA EnabledKeeps ==
  ASSUME TypeOK, TypeOK', Agreement, NEW c \in Clients, Enabled(c)
  PROVE  Agreement'
<1>1. Registration'
  BY DEF Agreement, Registration, Memory, Exists, Enabled, browser
<1>2. Documents'
  BY DEF Agreement, Documents, Memory, Talking, Enabled, browser
<1>3. Conversations'
  BY DEF Agreement, Conversations, Memory, Exists, Known, Enabled, browser
<1>4. Memory'
  BY DEF Agreement, Memory, Known, Enabled, browser
<1>5. Starting'
  BY DEF TypeOK, PageType, Agreement, Starting, Enabled
<1>6. Asking'
  BY DEF Agreement, Asking, Memory, Known, Enabled, browser, requests
<1>7. Answers'
  BY DEF Agreement, Answers, BannerTruthful, Enabled, requests
<1> QED BY <1>1, <1>2, <1>3, <1>4, <1>5, <1>6, <1>7 DEF Agreement

\* A page asks: the agreement is kept.
LEMMA FetchKeeps ==
  ASSUME TypeOK, TypeOK', Agreement, NEW c \in Clients, Fetch(c)
  PROVE  Agreement'
<1>1. Registration'
  BY DEF TypeOK, PageType, Agreement, Registration, Exists, Fetch, Answered, browser
<1>2. Documents'
  BY DEF TypeOK, PageType, Agreement, Documents, Talking, Fetch, Answered, browser
<1>3. Conversations'
  BY DEF TypeOK, PageType, WorkerType, Agreement, Conversations, Exists, Known, Handlers, Fetch,
         Answered, browser
<1>4. Memory'
  BY DEF TypeOK, PageType, WorkerType, Agreement, Memory, Known, Fetch, Answered, browser
<1>5. Starting'
  BY DEF TypeOK, PageType, Agreement, Starting, Fetch, Answered
<1>6. Asking'
  <2>1. CASE controller[c] = 0 \/ activeClientIds[controller[c]] = {}
    BY <2>1 DEF TypeOK, PageType, Agreement, Asking, Known, Fetch, Answered, browser
  <2>2. CASE ~(controller[c] = 0 \/ activeClientIds[controller[c]] = {})
    <3>1. controller[c] \in Workers
      BY <2>2, MockWorkerAssumption DEF TypeOK, BrowserType, Workers
    <3>2. /\ UNCHANGED <<page, main, nested, host, cause>>
          /\ ask' = [ask EXCEPT ![c] = "resolving"] /\ via' = [via EXCEPT ![c] = controller[c]]
      BY <2>2 DEF Fetch, browser
    <3>3. page[c] = "mocking" => controller[c] = host[c] \/ "claimed" \in cause[c]
      BY DEF Agreement, Documents, Talking
    <3> QED BY <3>1, <3>2, <3>3 DEF TypeOK, RequestType, Agreement, Asking, Fetch, Asks
  <2> QED BY <2>1, <2>2
<1>7. Answers'
  BY DEF TypeOK, PageType, RequestType, Agreement, Answers, BannerTruthful, EnvironmentBanner,
         Documents, Memory, Talking, Fetch, Asks, Answered
<1> QED BY <1>1, <1>2, <1>3, <1>4, <1>5, <1>6, <1>7 DEF Agreement

\* The worker looks for the page to ask: the agreement is kept.
LEMMA ResolveMainClientKeeps ==
  ASSUME TypeOK, TypeOK', Agreement, NEW c \in Clients, ResolveMainClient(c)
  PROVE  Agreement'
<1>1. Registration'
  BY DEF Agreement, Registration, ResolveMainClient, browser, Exists
<1>2. Documents'
  BY DEF Agreement, Documents, ResolveMainClient, browser
<1>3. Conversations'
  BY DEF Agreement, Conversations, ResolveMainClient, browser, Exists
<1>4. Memory'
  BY DEF Agreement, Memory, ResolveMainClient, browser
<1>5. Starting'
  BY DEF Agreement, Starting, ResolveMainClient
<1>6. Asking'
  BY DEF TypeOK, RequestType, Agreement, Asking, ResolveMainClient, browser
<1>7. Answers'
  BY DEF Agreement, Answers, ResolveMainClient, BannerTruthful
<1> QED BY <1>1, <1>2, <1>3, <1>4, <1>5, <1>6, <1>7 DEF Agreement

\* A frame's request finds a page: the agreement is kept.
LEMMA ResolveVisibleClientKeeps ==
  ASSUME TypeOK, TypeOK', Agreement, NEW c \in Clients, ResolveVisibleClient(c)
  PROVE  Agreement'
<1>1. Registration'
  BY DEF Agreement, Registration, ResolveVisibleClient, browser, Exists
<1>2. Documents'
  BY DEF Agreement, Documents, ResolveVisibleClient, browser
<1>3. Conversations'
  BY DEF Agreement, Conversations, ResolveVisibleClient, browser, Exists
<1>4. Memory'
  BY DEF Agreement, Memory, ResolveVisibleClient, browser
<1>5. Starting'
  BY DEF Agreement, Starting, ResolveVisibleClient
<1>6. Asking'
  BY DEF Agreement, Asking, ResolveVisibleClient, browser
<1>7. Answers'
  BY DEF Agreement, Answers, ResolveVisibleClient, BannerTruthful
<1> QED BY <1>1, <1>2, <1>3, <1>4, <1>5, <1>6, <1>7 DEF Agreement

\* The worker asks the page, or the network: the agreement is kept.
LEMMA GetResponseKeeps ==
  ASSUME TypeOK, TypeOK', Agreement, NEW c \in Clients, GetResponse(c)
  PROVE  Agreement'
<1>1. Registration'
  BY DEF TypeOK, PageType, Agreement, Registration, Exists, GetResponse, Responds, Answered,
         browser
<1>2. Documents'
  BY DEF TypeOK, PageType, Agreement, Documents, Talking, GetResponse, Responds, Answered,
         browser
<1>3. Conversations'
  BY DEF TypeOK, PageType, WorkerType, Agreement, Conversations, Exists, Known, Handlers,
         GetResponse, Responds, Answered, browser
<1>4. Memory'
  BY DEF TypeOK, PageType, WorkerType, Agreement, Memory, Known, GetResponse, Responds,
         Answered, browser
<1>5. Starting'
  BY DEF TypeOK, PageType, Agreement, Starting, GetResponse, Responds, Answered
<1>6. Asking'
  BY DEF TypeOK, PageType, WorkerType, RequestType, Agreement, Asking, Memory, Known,
         GetResponse, Responds, Answered, browser
<1>7. Answers'
  BY DEF TypeOK, PageType, RequestType, Agreement, Answers, Asking, BannerTruthful,
         EnvironmentBanner, Documents, Memory, GetResponse, Responds, Answered
<1> QED BY <1>1, <1>2, <1>3, <1>4, <1>5, <1>6, <1>7 DEF Agreement

\* The asked page answers: the agreement is kept.
LEMMA AnswerRequestKeeps ==
  ASSUME TypeOK, TypeOK', Agreement, NEW c \in Clients, AnswerRequest(c)
  PROVE  Agreement'
<1>1. Registration'
  BY DEF TypeOK, PageType, Agreement, Registration, Exists, AnswerRequest, Responds, Answered,
         browser
<1>2. Documents'
  BY DEF TypeOK, PageType, Agreement, Documents, Talking, AnswerRequest, Responds, Answered,
         browser
<1>3. Conversations'
  BY DEF TypeOK, PageType, WorkerType, Agreement, Conversations, Exists, Known, Handlers,
         AnswerRequest, Responds, Answered, browser
<1>4. Memory'
  BY DEF TypeOK, PageType, WorkerType, Agreement, Memory, Known, AnswerRequest, Responds,
         Answered, browser
<1>5. Starting'
  BY DEF TypeOK, PageType, Agreement, Starting, AnswerRequest, Responds, Answered
<1>6. Asking'
  BY DEF TypeOK, PageType, RequestType, Agreement, Asking, Known, AnswerRequest, Responds,
         Answered, browser
<1>7. Answers'
  BY DEF Agreement, Answers, Asking, BannerTruthful, EnvironmentBanner, Documents, Talking,
         AnswerRequest, Responds, Answered
<1> QED BY <1>1, <1>2, <1>3, <1>4, <1>5, <1>6, <1>7 DEF Agreement

\* A worker becomes active and claims every page: the agreement is kept.
LEMMA ActivateKeeps ==
  ASSUME TypeOK, TypeOK', Agreement, NEW w \in Workers, Activate(w)
  PROVE  Agreement'
<1>1. Registration'
  BY DEF Agreement, Registration, Exists, Activate
<1>2. Documents'
  BY DEF Agreement, Documents, Registration, Exists, Talking, Activate
<1>3. Conversations'
  BY DEF Agreement, Conversations, Registration, Activate
<1>4. Memory'
  BY DEF Agreement, Memory, Activate
<1>5. Starting'
  BY DEF Agreement, Starting, Activate
<1>6. Asking'
  BY DEF Agreement, Asking, Activate, requests
<1>7. Answers'
  BY DEF TypeOK, RequestType, Agreement, Answers, BannerTruthful, Activate, requests
<1> QED BY <1>1, <1>2, <1>3, <1>4, <1>5, <1>6, <1>7 DEF Agreement

\* The browser stops a worker: the agreement is kept.
LEMMA TerminateKeeps ==
  ASSUME TypeOK, TypeOK', Agreement, NEW w \in Workers, Terminate(w)
  PROVE  Agreement'
<1>1. Registration'
  BY DEF Agreement, Registration, Terminate, browser, Exists
<1>2. Documents'
  BY DEF Agreement, Documents, Terminate, browser
<1>3. Conversations'
  BY DEF Agreement, Conversations, Terminate, browser, Exists
<1>4. Memory'
  BY DEF Agreement, Memory, Exists, Terminate, browser
<1>5. Starting'
  BY DEF Agreement, Starting, Terminate
<1>6. Asking'
  BY DEF Agreement, Asking, Terminate, browser, requests
<1>7. Answers'
  BY DEF TypeOK, RequestType, Agreement, Answers, BannerTruthful, Terminate, requests
<1> QED BY <1>1, <1>2, <1>3, <1>4, <1>5, <1>6, <1>7 DEF Agreement

\* A message's sender is looked up: the agreement is kept.
LEMMA GetClientKeeps ==
  ASSUME TypeOK, TypeOK', Agreement, NEW h \in handlers, GetClient(h)
  PROVE  Agreement'
<1>1. Registration'
  BY DEF Agreement, Registration, GetClient, browser, Exists
<1>2. Documents'
  BY DEF Agreement, Documents, GetClient, browser
<1>3. Conversations'
  BY DEF Agreement, Conversations, Exists, GetClient, Moved, browser
<1>4. Memory'
  BY DEF Agreement, Memory, GetClient, browser
<1>5. Starting'
  <2> SUFFICES ASSUME NEW c \in Clients, page[c] = "activating", c \notin enabling
               PROVE  \E g \in handlers' : g.from = c /\ g.data = "MOCK_ACTIVATE"
    BY DEF Starting, GetClient
  <2>1. PICK g \in handlers : g.from = c /\ g.data = "MOCK_ACTIVATE"
    BY DEF Agreement, Starting
  <2>2. CASE g = h
    <3> DEFINE n == Moved(h, "found", {})
    <3>1. n.from = c /\ n.data = "MOCK_ACTIVATE"
      BY <2>1, <2>2 DEF Moved
    <3>2. n \in handlers'
      BY <2>1, <2>2 DEF GetClient, Exists
    <3> QED BY <3>1, <3>2
  <2>3. CASE g # h
    BY <2>1, <2>3 DEF GetClient
  <2> QED BY <2>2, <2>3
<1>6. Asking'
  BY DEF Agreement, Asking, GetClient, browser, requests
<1>7. Answers'
  BY DEF Agreement, Answers, GetClient, requests, BannerTruthful
<1> QED BY <1>1, <1>2, <1>3, <1>4, <1>5, <1>6, <1>7 DEF Agreement

\* The worker lists its pages: the agreement is kept.
LEMMA ListClientsKeeps ==
  ASSUME TypeOK, TypeOK', Agreement, NEW h \in handlers, ListClients(h)
  PROVE  Agreement'
<1>1. Registration'
  BY DEF Agreement, Registration, ListClients, browser, Exists
<1>2. Documents'
  BY DEF Agreement, Documents, ListClients, browser
<1>3. Conversations'
  BY DEF Agreement, Conversations, Registration, Exists, ListClients, Moved, MatchAll, browser
<1>4. Memory'
  BY DEF Agreement, Memory, ListClients, browser
<1>5. Starting'
  <2> SUFFICES ASSUME NEW c \in Clients, page[c] = "activating", c \notin enabling
               PROVE  \E g \in handlers' : g.from = c /\ g.data = "MOCK_ACTIVATE"
    BY DEF Starting, ListClients
  <2>1. PICK g \in handlers : g.from = c /\ g.data = "MOCK_ACTIVATE"
    BY DEF Agreement, Starting
  <2>2. CASE g = h
    <3> DEFINE n == Moved(h, "listed", IF h.data = "CLIENT_CLOSED" THEN MatchAll(h.worker) ELSE {})
    <3>1. n.from = c /\ n.data = "MOCK_ACTIVATE"
      BY <2>1, <2>2 DEF Moved
    <3>2. n \in handlers'
      BY <2>1, <2>2 DEF ListClients
    <3> QED BY <3>1, <3>2
  <2>3. CASE g # h
    BY <2>1, <2>3 DEF ListClients
  <2> QED BY <2>2, <2>3
<1>6. Asking'
  BY DEF Agreement, Asking, ListClients, browser, requests
<1>7. Answers'
  BY DEF Agreement, Answers, ListClients, requests, BannerTruthful
<1> QED BY <1>1, <1>2, <1>3, <1>4, <1>5, <1>6, <1>7 DEF Agreement

\* The worker handles a message: the agreement is kept.
LEMMA HandleMessageKeeps ==
  ASSUME TypeOK, TypeOK', Agreement, NEW h \in handlers, HandleMessage(h)
  PROVE  Agreement'
<1>1. Registration'
  BY DEF TypeOK, BrowserType, Agreement, Registration, Exists, Conversations, HandleMessage,
         ClientClosed, MockActivate
<1>2. Documents'
  BY DEF Agreement, Documents, Conversations, Exists, Talking, HandleMessage, ClientClosed,
         MockActivate
<1>3. Conversations'
  BY DEF Agreement, Conversations, Registration, Exists, HandleMessage, ClientClosed,
         MockActivate
<1>4. Memory'
  BY DEF TypeOK, WorkerType, BrowserType, Agreement, Memory, Conversations, Documents,
         HandleMessage, ClientClosed, MockActivate
<1>5. Starting'
  BY DEF Agreement, Starting, HandleMessage, ClientClosed, MockActivate
<1>6. Asking'
  BY DEF Agreement, Asking, HandleMessage, requests
<1>7. Answers'
  BY DEF Agreement, Answers, HandleMessage, requests, BannerTruthful
<1> QED BY <1>1, <1>2, <1>3, <1>4, <1>5, <1>6, <1>7 DEF Agreement

----------------------------------------------------------------------------
(* The theorems.                                                           *)

\* Initially the types hold.
LEMMA InitType == Init => TypeOK
  BY MockWorkerAssumption
  DEF Init, TypeOK, PageType, BrowserType, WorkerType, RequestType, Stages, NoAnswer, Clients

\* Initially nobody is there, and everybody agrees.
LEMMA InitAgrees == Init => Agreement
<1> SUFFICES ASSUME Init PROVE Agreement
  OBVIOUS
<1>1. Registration
  BY MockWorkerAssumption DEF Init, Registration, Exists
<1>2. Documents /\ Conversations /\ Starting
  BY DEF Init, Documents, Conversations, Starting, Talking
<1>3. Memory
  BY DEF Init, Memory
<1>4. Asking
  BY DEF Init, Asking
<1>5. Answers
  BY DEF Init, Answers, BannerTruthful, NoAnswer
<1> QED BY <1>1, <1>2, <1>3, <1>4, <1>5 DEF Agreement

\* Every step keeps the types.
LEMMA NextType == ASSUME TypeOK, [Next]_vars PROVE TypeOK'
<1>1. ASSUME NEW c \in Clients, \/ Open(c)
                \/ Unload(c)
                \/ Gone(c)
                \/ Bootstrap(c)
                \/ PostActivate(c)
                \/ Enabled(c)
                \/ Fetch(c)
                \/ ResolveMainClient(c)
                \/ ResolveVisibleClient(c)
                \/ GetResponse(c)
                \/ AnswerRequest(c)
      PROVE  TypeOK'
  BY <1>1, OpenType, UnloadType, GoneType, BootstrapType, PostActivateType, EnabledType,
     FetchType, ResolveMainClientType, ResolveVisibleClientType, GetResponseType,
     AnswerRequestType
<1>2. ASSUME NEW w \in Workers, Activate(w) \/ Terminate(w) PROVE TypeOK'
  BY <1>2, ActivateType, TerminateType
<1>3. ASSUME NEW h \in handlers, WorkerStep(h) PROVE TypeOK'
  BY <1>3, GetClientType, ListClientsType, HandleMessageType DEF WorkerStep
<1>4. CASE UNCHANGED vars
  BY <1>4 DEF vars, TypeOK, PageType, BrowserType, WorkerType, RequestType
<1> QED BY <1>1, <1>2, <1>3, <1>4 DEF Next, StartStep, RequestStep

\* Every step keeps the agreement.
LEMMA NextKeeps == ASSUME TypeOK, TypeOK', Agreement, [Next]_vars PROVE Agreement'
<1>1. ASSUME NEW c \in Clients, \/ Open(c)
                \/ Unload(c)
                \/ Gone(c)
                \/ Bootstrap(c)
                \/ PostActivate(c)
                \/ Enabled(c)
                \/ Fetch(c)
                \/ ResolveMainClient(c)
                \/ ResolveVisibleClient(c)
                \/ GetResponse(c)
                \/ AnswerRequest(c)
      PROVE  Agreement'
  BY <1>1, OpenKeeps, UnloadKeeps, GoneKeeps, BootstrapKeeps, PostActivateKeeps, EnabledKeeps,
     FetchKeeps, ResolveMainClientKeeps, ResolveVisibleClientKeeps, GetResponseKeeps,
     AnswerRequestKeeps
<1>2. ASSUME NEW w \in Workers, Activate(w) \/ Terminate(w) PROVE Agreement'
  BY <1>2, ActivateKeeps, TerminateKeeps
<1>3. ASSUME NEW h \in handlers, WorkerStep(h) PROVE Agreement'
  BY <1>3, GetClientKeeps, ListClientsKeeps, HandleMessageKeeps DEF WorkerStep
<1>4. CASE UNCHANGED vars
  BY <1>4
  DEF vars, Agreement, Registration, Documents, Conversations, Memory, Starting, Asking,
      Answers, BannerTruthful, Exists
<1> QED BY <1>1, <1>2, <1>3, <1>4 DEF Next, StartStep, RequestStep

\* The pages', the browser's and the worker's state keep their types.
THEOREM TypeCorrect == Spec => []TypeOK
<1>1. Init => TypeOK
  BY InitType
<1>2. TypeOK /\ [Next]_vars => TypeOK'
  BY NextType
<1> QED BY <1>1, <1>2, PTL DEF Spec

\* Pages, browser and worker always agree: the inductive invariant.
THEOREM AgreementHolds == Spec => []Agreement
<1>1. Init => Agreement
  BY InitAgrees
<1>2. TypeOK /\ TypeOK' /\ Agreement /\ [Next]_vars => Agreement'
  BY NextKeeps
<1> QED BY <1>1, <1>2, TypeCorrect, PTL DEF Spec

\* The banner of environment-banner.tsx tells the truth: a page that says its data is mocked
\* shows the network's answer only if its worker was stopped or replaced, and a page that
\* says it is live never shows a fixture.
THEOREM BannerCorrect == Spec => []BannerTruthful
<1>1. Agreement => BannerTruthful
  BY DEF Agreement, Answers
<1> QED BY <1>1, AgreementHolds, PTL

\* Only a page that opened behind a goodbye the worker was handling is taken from the worker
\* that knows it (CLIENT_CLOSED unregisters by a list of clients that may be stale).
THEOREM OrphanCorrect == Spec => []OrphanHasCause
<1>1. Agreement => OrphanHasCause
  BY DEF Agreement, Documents, OrphanHasCause
<1> QED BY <1>1, AgreementHolds, PTL

\* startWorker() and the REQUEST message, which have no timeout, are not left waiting for
\* something that cannot come.
THEOREM AnswersCorrect == Spec => []SomebodyAnswers
<1>1. Agreement => SomebodyAnswers
  <2> SUFFICES ASSUME Agreement, NEW c \in Clients
               PROVE  /\ page[c] = "starting" => host[c] \in 1..started
                      /\ page[c] = "activating" =>
                           \/ c \in enabling
                           \/ \E h \in handlers : h.from = c /\ h.data = "MOCK_ACTIVATE"
                      /\ ask[c] = "asking" =>
                           \/ page[main[c]] \in {"activating", "mocking"}
                           \/ c \in nested /\ page[main[c]] \in {"unloading", "closed"}
    BY DEF SomebodyAnswers
  <2>1. page[c] = "starting" => host[c] \in 1..started
    BY DEF Agreement, Documents, Talking
  <2>2. page[c] = "activating" =>
          c \in enabling \/ \E h \in handlers : h.from = c /\ h.data = "MOCK_ACTIVATE"
    BY DEF Agreement, Starting
  <2>3. ask[c] = "asking" =>
          \/ page[main[c]] \in {"activating", "mocking"}
          \/ c \in nested /\ page[main[c]] \in {"unloading", "closed"}
    BY DEF Agreement, Asking, Known
  <2> QED BY <2>1, <2>2, <2>3
<1> QED BY <1>1, AgreementHolds, PTL

----------------------------------------------------------------------------
(* The session.                                                            *)

\* Whatever is fetched is fetched for the user of the token: signing in replaces nobody,
\* and signing out leaves no fetch behind.
FetchesOwn == overlap \/ (fetches \subseteq {token} /\ meFetch \in {Nobody, token})

\* The cached answer to GET /setup says "done" only once it is.
StatusOld == status = "done" => install = "done"

SessionInv == SessionTypeOK /\ FetchesOwn /\ StatusOld /\ NothingLeaks /\ MeIsTokens

\* The initial states satisfy the invariant.
LEMMA SessionInitInv == SessionInit => SessionInv
<1> SUFFICES ASSUME SessionInit PROVE SessionInv
  OBVIOUS
<1>1. /\ mocking \in BOOLEAN /\ worker \in BOOLEAN /\ setups \in BOOLEAN
      /\ late \in BOOLEAN /\ overlap \in BOOLEAN
  BY DEF SessionInit
<1>2. SessionTypeOK
  BY <1>1 DEF SessionInit, SessionTypeOK
<1> QED
  BY <1>2 DEF SessionInit, SessionInv, FetchesOwn, StatusOld, NothingLeaks, MeIsTokens, UserMenu

\* The pages are shown to somebody.
LEMMA PagesSignedIn == ASSUME SessionTypeOK, View = "pages" PROVE token \in Users
BY DEF SessionTypeOK, View, SetupRoute, LoginRoute, ProtectedLayout, Paths

\* Boot, guards, forms and answers that leave token and user data alone.
LEMMA QuietStep ==
  ASSUME SessionInv,
         \/ LoadConfig \/ LoadConfigFails \/ StartWorker \/ Redirect
         \/ \E p \in Paths : Navigate(p)
         \/ UseSetupStatus \/ SetupStatusAnswered \/ SetupStatusFails
         \/ \E u \in Users : Login(u) \/ LoginFails(u)
         \/ CompleteSetup \/ SetupFails \/ SetUpElsewhere
  PROVE  SessionInv'
<1>1. /\ token' = token /\ stored' = stored /\ data' = data /\ fetches' = fetches /\ me' = me
      /\ meFetch' = meFetch /\ saves' = saves /\ late' = late /\ overlap' = overlap
  BY DEF LoadConfig, LoadConfigFails, StartWorker, Redirect, Navigate, UseSetupStatus,
     SetupStatusAnswered, SetupStatusFails, Login, LoginFails, CompleteSetup, SetupFails,
     SetUpElsewhere, cache, history
<1>2. SessionTypeOK'
  <2> USE DEF SessionInv, SessionTypeOK
  <2>1. faults' \in Nat /\ reloads' \in Nat
    <3>1. Fault => faults' \in Nat /\ reloads' \in Nat
      BY DEF Fault
    <3>2. UNCHANGED bound => faults' \in Nat /\ reloads' \in Nat
      BY DEF bound
    <3>3. Fault \/ UNCHANGED bound
      BY DEF LoadConfig, LoadConfigFails, StartWorker, Redirect, Navigate, UseSetupStatus,
         SetupStatusAnswered, SetupStatusFails, Login, LoginFails, CompleteSetup, SetupFails,
         SetUpElsewhere
    <3> QED
      BY <3>1, <3>2, <3>3
  <2>2. path' \in Paths /\ form' \in {"idle", "pending", "failed"}
    BY DEF LoadConfig, LoadConfigFails, StartWorker, Redirect, Navigate, UseSetupStatus,
       SetupStatusAnswered, SetupStatusFails, Login, LoginFails, CompleteSetup, SetupFails,
       SetUpElsewhere, Go, Paths
  <2>3. mocking' \in BOOLEAN /\ worker' \in BOOLEAN /\ setups' \in BOOLEAN
    <3>1. CASE LoadConfig
      BY <3>1 DEF LoadConfig
    <3>2. CASE ~LoadConfig
      <4>1. /\ mocking' = mocking
            /\ worker' = worker \/ worker' = TRUE
            /\ setups' = setups \/ setups' = TRUE \/ setups' = FALSE
        BY <3>2 DEF LoadConfigFails, StartWorker, Redirect, Navigate, UseSetupStatus,
           SetupStatusAnswered, SetupStatusFails, Login, LoginFails, CompleteSetup, SetupFails,
           SetUpElsewhere
      <4> QED
        BY <4>1
    <3> QED
      BY <3>1, <3>2
  <2>4. /\ install' \in {"fresh", "done"} /\ boot' \in {"config", "worker", "up", "failed"}
        /\ status' \in {"absent", "pending", "error", "fresh", "done"} /\ logins' \subseteq Users
    BY DEF LoadConfig, LoadConfigFails, StartWorker, Redirect, Navigate, UseSetupStatus,
       SetupStatusAnswered, SetupStatusFails, Login, LoginFails, CompleteSetup, SetupFails,
       SetUpElsewhere, Go, cache
  <2> QED
    BY <1>1, <2>1, <2>2, <2>3, <2>4
<1>3. StatusOld'
  BY DEF SessionInv, SessionTypeOK, StatusOld, LoadConfig, LoadConfigFails, StartWorker, Redirect,
     Navigate, UseSetupStatus, SetupStatusAnswered, SetupStatusFails, Login, LoginFails, CompleteSetup,
     SetupFails, SetUpElsewhere, Go, cache
<1>4. FetchesOwn' /\ NothingLeaks' /\ MeIsTokens'
  BY <1>1 DEF SessionInv, FetchesOwn, NothingLeaks, MeIsTokens, UserMenu
<1> QED
  BY <1>2, <1>3, <1>4 DEF SessionInv

\* Somebody signs in: nothing is cached or fetched for nobody, so nothing is anybody else's.
LEMMA SignInStep ==
  ASSUME SessionInv, NEW u \in Users, LoginSucceeds(u) \/ SetupSucceeds(u) PROVE SessionInv'
<1> USE DEF SessionInv, LoginSucceeds, SetupSucceeds, SignIn
<1>1. /\ token' = u /\ me' = u /\ data' = data /\ fetches' = fetches /\ meFetch' = meFetch
      /\ saves' = saves /\ late' = late
  OBVIOUS
<1>2. overlap' \in BOOLEAN /\ (overlap => overlap') /\ (~overlap' => token \in {Nobody, u})
  BY DEF SessionTypeOK
<1>3. SessionTypeOK'
  <2>1. path' \in Paths /\ form' \in {"idle", "pending", "failed"} /\ stored' \in Users \cup {Nobody}
    BY DEF SessionTypeOK, Paths
  <2>2. reloads' = reloads /\ faults' = faults /\ boot' = boot /\ mocking' = mocking /\ worker' = worker
    BY DEF bound
  <2>3. /\ install' \in {"fresh", "done"} /\ logins' \subseteq Users
        /\ status' \in {"absent", "pending", "error", "fresh", "done"}
    BY DEF SessionTypeOK
  <2>4. setups' \in BOOLEAN
    BY DEF SessionTypeOK
  <2> QED
    BY <1>1, <1>2, <2>1, <2>2, <2>3, <2>4 DEF SessionTypeOK
<1>4. FetchesOwn' /\ NothingLeaks'
  <2>1. CASE overlap'
    BY <2>1 DEF FetchesOwn, NothingLeaks
  <2>2. CASE ~overlap'
    BY <1>1, <1>2, <2>2, SessionAssumption DEF FetchesOwn, NothingLeaks, SessionTypeOK
  <2> QED
    BY <2>1, <2>2
<1>5. MeIsTokens' /\ StatusOld'
  BY <1>1 DEF MeIsTokens, UserMenu, StatusOld
<1> QED
  BY <1>3, <1>4, <1>5

\* Signing out and reloading leave nothing cached or under way for a page.
LEMMA SignOutStep == ASSUME SessionInv, Logout \/ Reload PROVE SessionInv'
<1> USE DEF SessionInv, Logout, UserMenu, Reload, SignOut
<1>1. /\ me' = Nobody /\ meFetch' = Nobody /\ data' = {} /\ fetches' = {} /\ status' = "absent"
      /\ late' = late /\ overlap' = overlap
  BY DEF history
<1>2. SessionTypeOK'
  <2>1. reloads' \in Nat /\ faults' \in Nat
    BY DEF bound, SessionTypeOK
  <2>2. mocking' \in BOOLEAN /\ worker' \in BOOLEAN /\ setups' \in BOOLEAN
    BY DEF SessionTypeOK
  <2>3. stored' \in Users \cup {Nobody} /\ token' \in Users \cup {Nobody}
    BY DEF SessionTypeOK
  <2>4. /\ install' = install /\ path' = path /\ boot' \in {"config", "worker", "up", "failed"}
        /\ saves' \subseteq Users /\ logins' \subseteq Users /\ form' \in {"idle", "pending", "failed"}
    BY DEF SessionTypeOK
  <2> QED
    BY <1>1, <2>1, <2>2, <2>3, <2>4 DEF SessionTypeOK
<1>3. FetchesOwn' /\ NothingLeaks' /\ MeIsTokens' /\ StatusOld'
  BY <1>1 DEF FetchesOwn, NothingLeaks, MeIsTokens, UserMenu, StatusOld
<1> QED
  BY <1>2, <1>3

\* Requests of the pages carry the token they are sent with.
LEMMA PageRequestStep ==
  ASSUME SessionInv,
         \/ UseMe \/ MeAnswered \/ FetchData \/ Save
         \/ \E u \in Users : FetchAnswered(u) \/ SaveAnswered(u)
  PROVE  SessionInv'
<1> USE DEF SessionInv, UseMe, MeAnswered, FetchData, Save, FetchAnswered, SaveAnswered
<1>1. /\ token' = token /\ overlap' = overlap /\ install' = install /\ status' = status
  BY DEF history, cache
<1>2. (late => late') /\ late' \in BOOLEAN
  BY DEF history, SessionTypeOK
<1>3. SessionTypeOK'
  <2>1. reloads' \in Nat /\ faults' \in Nat
    BY DEF bound, SessionTypeOK, Fault
  <2>2. /\ me' \in Users \cup {Nobody} /\ meFetch' \in Users \cup {Nobody} /\ data' \subseteq Users
        /\ fetches' \subseteq Users /\ saves' \subseteq Users
    BY PagesSignedIn DEF SessionTypeOK, cache
  <2>3. /\ boot' = boot /\ mocking' = mocking /\ worker' = worker /\ stored' = stored /\ path' = path
        /\ logins' = logins /\ setups' = setups /\ form' = form
    OBVIOUS
  <2> QED
    BY <1>1, <1>2, <2>1, <2>2, <2>3 DEF SessionTypeOK
<1>4. FetchesOwn'
  BY <1>1 DEF FetchesOwn, SessionTypeOK, cache
<1>5. NothingLeaks'
  <2>1. CASE overlap \/ late'
    BY <1>1, <2>1 DEF NothingLeaks
  <2>2. CASE ~overlap /\ ~late'
    <3>1. fetches \subseteq {token} /\ data \subseteq {token}
      BY <1>2, <2>2 DEF FetchesOwn, NothingLeaks
    <3>2. data' \subseteq {token}
      BY <2>2, <3>1 DEF cache
    <3> QED
      BY <1>1, <3>2 DEF NothingLeaks
  <2> QED
    BY <2>1, <2>2
<1>6. MeIsTokens'
  <2>1. CASE overlap
    BY <1>1, <2>1 DEF MeIsTokens, UserMenu
  <2>2. CASE ~overlap
    <3>1. me' = me \/ (meFetch # Nobody /\ me' = meFetch)
      BY DEF cache
    <3> QED
      BY <1>1, <2>2, <3>1 DEF MeIsTokens, UserMenu, FetchesOwn
  <2> QED
    BY <2>1, <2>2
<1>7. StatusOld'
  BY <1>1 DEF StatusOld
<1> QED
  BY <1>3, <1>4, <1>5, <1>6, <1>7

\* Every step keeps the invariant.
LEMMA SessionStepInv == SessionInv /\ [SessionNext]_sessionVars => SessionInv'
<1> SUFFICES ASSUME SessionInv, [SessionNext]_sessionVars PROVE SessionInv'
  OBVIOUS
<1>1. CASE UNCHANGED sessionVars
  BY <1>1 DEF sessionVars, SessionInv, SessionTypeOK, FetchesOwn, StatusOld, NothingLeaks,
     MeIsTokens, UserMenu
<1>2. CASE \/ LoadConfig \/ LoadConfigFails \/ StartWorker \/ Redirect
           \/ \E p \in Paths : Navigate(p)
           \/ UseSetupStatus \/ SetupStatusAnswered \/ SetupStatusFails
           \/ \E u \in Users : Login(u) \/ LoginFails(u)
           \/ CompleteSetup \/ SetupFails \/ SetUpElsewhere
  BY <1>2, QuietStep
<1>3. CASE \E u \in Users : LoginSucceeds(u) \/ SetupSucceeds(u)
  BY <1>3, SignInStep
<1>4. CASE Logout \/ Reload
  BY <1>4, SignOutStep
<1>5. CASE \/ UseMe \/ MeAnswered \/ FetchData \/ Save
           \/ \E u \in Users : FetchAnswered(u) \/ SaveAnswered(u)
  BY <1>5, PageRequestStep
<1> QED
  BY <1>1, <1>2, <1>3, <1>4, <1>5 DEF SessionNext

\* SessionInv is inductive.
THEOREM SessionInvCorrect == SessionSpec => []SessionInv
BY SessionInitInv, SessionStepInv, PTL DEF SessionSpec

\* The session's variables have their types: a token, and the owner of a request or of
\* cached data, is an account.
THEOREM SessionTypeCorrect == SessionSpec => []SessionTypeOK
<1>1. SessionInv => SessionTypeOK
  BY DEF SessionInv
<1> QED
  BY <1>1, SessionInvCorrect, PTL

\* Signing out leaves nothing of a session in the query cache: what it holds is the token
\* user's, but for a mutation answered after its session and for overlapping sign-ins.
THEOREM NothingLeaksCorrect == SessionSpec => []NothingLeaks
<1>1. SessionInv => NothingLeaks
  BY DEF SessionInv
<1> QED
  BY <1>1, SessionInvCorrect, PTL

\* The user the dashboard shows is the user of the token, but for overlapping sign-ins.
THEOREM MeCorrect == SessionSpec => []MeIsTokens
<1>1. SessionInv => MeIsTokens
  BY DEF SessionInv
<1> QED
  BY <1>1, SessionInvCorrect, PTL

\* No guard lets a visitor of a fresh install past the wizard, unless GET /setup failed.
THEOREM WizardCorrect == SessionSpec => []FreshShowsWizard
<1>1. SessionInv => FreshShowsWizard
  <2> SUFFICES ASSUME SessionInv, install = "fresh", View \in {"sign-in", "pages"}
               PROVE  status = "error"
    BY DEF FreshShowsWizard
  <2>1. status # "done"
    BY DEF SessionInv, StatusOld
  <2>2. status \notin {"absent", "pending", "fresh"}
    BY DEF SessionInv, SessionTypeOK, Paths, View, SetupRoute, LoginRoute, ProtectedLayout
  <2> QED
    BY <2>1, <2>2 DEF SessionInv, SessionTypeOK
<1> QED
  BY <1>1, SessionInvCorrect, PTL
=============================================================================
