------------------------- MODULE DashboardSession --------------------------
(***************************************************************************)
(* The dashboard's session (web/src): boot (app/main.tsx, config/env.ts),  *)
(* the route guards (app/guards.tsx), the bearer token (lib/auth-token.ts, *)
(* store/auth.store.ts), the sign-in, set-up and sign-out hooks, and what  *)
(* they do to TanStack Query's cache.                                      *)
(*                                                                         *)
(* A token is the user it belongs to.  Of the cache the model keeps the    *)
(* set-up status, me, and the owners of everything else: a page's data was *)
(* read, or answered to a mutation, under somebody's token.  A fetch       *)
(* belongs to the cache entry that started it and ends with it; a mutation *)
(* is not cancelled by clear(), and its onSuccess runs whoever is signed   *)
(* in by then.                                                             *)
(***************************************************************************)
EXTENDS Naturals, FiniteSets

CONSTANTS
  Users,       \* accounts
  Nobody,        \* no user, no token
  Dev,         \* import.meta.env.DEV
  StorageOk,   \* does localStorage work? (it throws in private mode)
  MaxReloads, MaxFaults  \* bounds: page reloads, failed requests

ASSUME SessionAssumption ==
  /\ Nobody \notin Users
  /\ Dev \in BOOLEAN /\ StorageOk \in BOOLEAN
  /\ MaxReloads \in Nat /\ MaxFaults \in Nat

VARIABLES
  install,    \* the server: is the first-run set-up still to be done?
  boot,       \* how far bootstrap() is
  mocking,    \* config.enableMocking
  worker,     \* is the mock service worker running?
  stored,     \* the token in localStorage
  token,      \* the token in memory: lib/auth-token's holder and the store
  path,       \* the route: "/setup", "/login", or a protected one
  status,     \* the entry setupStatus: absent, pending, error, or its data
  me,         \* the entry me: Nobody or the user
  meFetch,    \* the token the fetch of me went out with, Nobody if there is none
  data,       \* whose data the other entries hold
  fetches,    \* the tokens of their fetches
  saves,      \* mutations under way: the tokens they were sent with
  logins,     \* sign-in requests under way
  setups,     \* is a set-up request under way?
  form,       \* the mutation of the form on screen: idle, pending, failed
  reloads, faults,
  late,       \* history: a mutation's answer was cached after the session it belonged to
  overlap     \* history: a sign-in replaced another user's session

cache == <<status, me, meFetch, data, fetches>>
bound == <<reloads, faults>>
history == <<late, overlap>>
sessionVars ==
  <<install, boot, mocking, worker, stored, token, path, status, me, meFetch, data, fetches,
    saves, logins, setups, form, reloads, faults, late, overlap>>

Paths == {"setup", "login", "app"}

\* Types of the session's variables.
SessionTypeOK ==
  /\ install \in {"fresh", "done"}
  /\ boot \in {"config", "worker", "up", "failed"}
  /\ mocking \in BOOLEAN /\ worker \in BOOLEAN
  /\ stored \in Users \cup {Nobody} /\ token \in Users \cup {Nobody}
  /\ path \in Paths
  /\ status \in {"absent", "pending", "error", "fresh", "done"}
  /\ me \in Users \cup {Nobody} /\ meFetch \in Users \cup {Nobody}
  /\ data \subseteq Users /\ fetches \subseteq Users
  /\ saves \subseteq Users /\ logins \subseteq Users /\ setups \in BOOLEAN
  /\ form \in {"idle", "pending", "failed"}
  /\ reloads \in Nat /\ faults \in Nat
  /\ late \in BOOLEAN /\ overlap \in BOOLEAN

SessionInit ==
  /\ install \in {"fresh", "done"}
  /\ boot = "config" /\ mocking = FALSE /\ worker = FALSE
  /\ stored \in Users \cup {Nobody} /\ (~StorageOk => stored = Nobody)
  /\ token = stored
  /\ path \in Paths
  /\ status = "absent" /\ me = Nobody /\ meFetch = Nobody
  /\ data = {} /\ fetches = {}
  /\ saves = {} /\ logins = {} /\ setups = FALSE
  /\ form = "idle"
  /\ reloads = 0 /\ faults = 0 /\ late = FALSE /\ overlap = FALSE

Fault == faults < MaxFaults /\ faults' = faults + 1 /\ UNCHANGED reloads

----------------------------------------------------------------------------
(* Boot.                                                                   *)

\* loadConfig() resolves with a valid config.
LoadConfig ==
  /\ boot = "config"
  /\ mocking' \in BOOLEAN
  /\ boot' = IF Dev /\ mocking' THEN "worker" ELSE "up"
  /\ UNCHANGED <<install, worker, stored, token, path, saves, logins, setups, form>>
  /\ UNCHANGED cache /\ UNCHANGED bound /\ UNCHANGED history

\* /config.json is missing or does not fit the schema: the page says so and stops.
LoadConfigFails ==
  /\ boot = "config"
  /\ boot' = "failed"
  /\ Fault
  /\ UNCHANGED <<install, mocking, worker, stored, token, path, saves, logins, setups, form>>
  /\ UNCHANGED cache /\ UNCHANGED history

\* startWorker() resolves, and the app renders.
StartWorker ==
  /\ boot = "worker"
  /\ worker' = TRUE
  /\ boot' = "up"
  /\ UNCHANGED <<install, mocking, stored, token, path, saves, logins, setups, form>>
  /\ UNCHANGED cache /\ UNCHANGED bound /\ UNCHANGED history

\* The page is loaded again: memory is gone, the token comes back from storage.
Reload ==
  /\ boot \in {"up", "failed"}
  /\ reloads < MaxReloads /\ reloads' = reloads + 1
  /\ boot' = "config" /\ mocking' = FALSE /\ worker' = FALSE
  /\ token' = stored
  /\ status' = "absent" /\ me' = Nobody /\ meFetch' = Nobody /\ data' = {} /\ fetches' = {}
  /\ saves' = {} /\ logins' = {} /\ setups' = FALSE /\ form' = "idle"
  /\ UNCHANGED <<install, stored, path, faults>> /\ UNCHANGED history

----------------------------------------------------------------------------
(* The guards.                                                             *)

\* SetupRoute: the wizard, unless set-up is known, or taken, to be done.
SetupRoute ==
  IF status = "pending" THEN "spinner"
  ELSE IF status # "fresh" THEN (IF token # Nobody THEN "to app" ELSE "to login")
  ELSE "wizard"

\* LoginRoute.
LoginRoute ==
  IF status = "pending" THEN "spinner"
  ELSE IF status = "fresh" THEN "to setup"
  ELSE IF token # Nobody THEN "to app"
  ELSE "sign-in"

\* ProtectedLayout.
ProtectedLayout ==
  IF status = "pending" THEN "spinner"
  ELSE IF status = "fresh" THEN "to setup"
  ELSE IF token = Nobody THEN "to login"
  ELSE "pages"

\* What is on screen.  The first render of a guard starts the fetch of the
\* status, so an absent entry shows as pending.
View ==
  IF boot # "up" THEN "nothing"
  ELSE IF status = "absent" THEN "spinner"
  ELSE IF path = "setup" THEN SetupRoute
  ELSE IF path = "login" THEN LoginRoute
  ELSE ProtectedLayout

\* A guard mounts on path p: a failed status is fetched again, and the form on
\* screen, its mutation with it, is gone.
Go(p) ==
  /\ path' = p
  /\ status' = IF status = "error" THEN "pending" ELSE status
  /\ form' = "idle"

\* <Navigate replace>: the guard on screen sends the browser elsewhere.
Redirect ==
  /\ View \in {"to app", "to login", "to setup"}
  /\ Go(IF View = "to app" THEN "app" ELSE IF View = "to login" THEN "login" ELSE "setup")
  /\ UNCHANGED <<install, boot, mocking, worker, stored, token, me, meFetch, data, fetches,
                 saves, logins, setups>>
  /\ UNCHANGED bound /\ UNCHANGED history

\* The user follows a link or the browser's history.
Navigate(p) ==
  /\ View \in {"wizard", "sign-in", "pages", "spinner"}
  /\ p # path
  /\ Go(p)
  /\ UNCHANGED <<install, boot, mocking, worker, stored, token, me, meFetch, data, fetches,
                 saves, logins, setups>>
  /\ UNCHANGED bound /\ UNCHANGED history

\* Wrong variant: the status is fetched on the way to the wizard only.
UseSetupStatusLazily ==
  /\ boot = "up" /\ status = "absent"
  /\ status' = IF path = "app" /\ token = Nobody THEN "absent" ELSE "pending"
  /\ UNCHANGED <<install, boot, mocking, worker, stored, token, path, me, meFetch, data,
                 fetches, saves, logins, setups, form>>
  /\ UNCHANGED bound /\ UNCHANGED history

\* useSetupStatus, mounted with no entry: the fetch starts.
UseSetupStatus ==
  /\ boot = "up" /\ status = "absent"
  /\ status' = "pending"
  /\ UNCHANGED <<install, boot, mocking, worker, stored, token, path, me, meFetch, data,
                 fetches, saves, logins, setups, form>>
  /\ UNCHANGED bound /\ UNCHANGED history

\* GET /setup is answered; the answer is never stale (staleTime Infinity).
SetupStatusAnswered ==
  /\ status = "pending"
  /\ status' = install
  /\ UNCHANGED <<install, boot, mocking, worker, stored, token, path, me, meFetch, data,
                 fetches, saves, logins, setups, form>>
  /\ UNCHANGED bound /\ UNCHANGED history

\* GET /setup fails, and is not retried.
SetupStatusFails ==
  /\ status = "pending"
  /\ status' = "error"
  /\ Fault
  /\ UNCHANGED <<install, boot, mocking, worker, stored, token, path, me, meFetch, data,
                 fetches, saves, logins, setups, form>>
  /\ UNCHANGED history

----------------------------------------------------------------------------
(* Sessions.                                                               *)

\* signIn(u): the holder, localStorage when it works, and the store.
SignIn(u) ==
  /\ token' = u
  /\ stored' = IF StorageOk THEN u ELSE stored
  /\ overlap' = (overlap \/ token \notin {Nobody, u})

\* signOut().
SignOut ==
  /\ token' = Nobody
  /\ stored' = IF StorageOk THEN Nobody ELSE stored

\* LoginForm is submitted: the button is enabled unless a request is under way.
Login(u) ==
  /\ View = "sign-in" /\ form # "pending"
  /\ u \notin logins
  /\ logins' = logins \cup {u}
  /\ form' = "pending"
  /\ UNCHANGED <<install, boot, mocking, worker, stored, token, path, saves, setups>>
  /\ UNCHANGED cache /\ UNCHANGED bound /\ UNCHANGED history

\* useLogin succeeds: sign in and seed me; the page, if it is still the one that
\* asked, goes to the app.
LoginSucceeds(u) ==
  /\ u \in logins
  /\ logins' = logins \ {u}
  /\ SignIn(u)
  /\ me' = u
  /\ IF form = "pending" THEN path' = "app" /\ form' = "idle"
                         ELSE UNCHANGED <<path, form>>
  /\ UNCHANGED <<install, boot, mocking, worker, status, meFetch, data, fetches, saves,
                 setups, late>>
  /\ UNCHANGED bound

\* useLogin fails: a 401 becomes "Invalid email or password.", shown by the form.
LoginFails(u) ==
  /\ u \in logins
  /\ logins' = logins \ {u}
  /\ form' = IF form = "pending" THEN "failed" ELSE form
  /\ Fault
  /\ UNCHANGED <<install, boot, mocking, worker, stored, token, path, saves, setups>>
  /\ UNCHANGED cache /\ UNCHANGED history

\* SetupWizard is finished.
CompleteSetup ==
  /\ View = "wizard" /\ form # "pending" /\ ~setups
  /\ setups' = TRUE
  /\ form' = "pending"
  /\ UNCHANGED <<install, boot, mocking, worker, stored, token, path, saves, logins>>
  /\ UNCHANGED cache /\ UNCHANGED bound /\ UNCHANGED history

\* useCompleteSetup succeeds: sign in, seed me, and the status is done.
SetupSucceeds(u) ==
  /\ setups /\ install = "fresh"
  /\ install' = "done"
  /\ setups' = FALSE
  /\ SignIn(u)
  /\ me' = u
  /\ status' = "done"
  /\ IF form = "pending" THEN path' = "app" /\ form' = "idle"
                         ELSE UNCHANGED <<path, form>>
  /\ UNCHANGED <<boot, mocking, worker, meFetch, data, fetches, saves, logins, late>>
  /\ UNCHANGED bound

\* useCompleteSetup fails: 409 when the install is set up already, or any error.
SetupFails ==
  /\ setups
  /\ setups' = FALSE
  /\ form' = IF form = "pending" THEN "failed" ELSE form
  /\ \/ install = "done" /\ UNCHANGED bound
     \/ install = "fresh" /\ Fault
  /\ UNCHANGED <<install, boot, mocking, worker, stored, token, path, saves, logins>>
  /\ UNCHANGED cache /\ UNCHANGED history

\* External: somebody else finishes the set-up in another browser.
SetUpElsewhere ==
  /\ install = "fresh"
  /\ install' = "done"
  /\ UNCHANGED <<boot, mocking, worker, stored, token, path, saves, logins, setups, form>>
  /\ UNCHANGED cache /\ UNCHANGED bound /\ UNCHANGED history

\* The menu of a page's shell: me, Nobody while it is not known, and Sign out either way.
UserMenu == [user |-> me, signOut |-> View = "pages"]

\* Wrong variant: only the user's own entry is dropped.
LogoutKeepsData ==
  /\ View = "pages"
  /\ SignOut
  /\ me' = Nobody /\ meFetch' = Nobody
  /\ UNCHANGED <<install, boot, mocking, worker, path, status, data, fetches, saves, logins,
                 setups, form>>
  /\ UNCHANGED bound /\ UNCHANGED history

\* Wrong variant: a fetch under way outlives the entry it belongs to.
LogoutKeepsFetch ==
  /\ View = "pages"
  /\ SignOut
  /\ status' = "absent" /\ me' = Nobody /\ data' = {} /\ fetches' = {}
  /\ UNCHANGED <<install, boot, mocking, worker, path, meFetch, saves, logins, setups, form>>
  /\ UNCHANGED bound /\ UNCHANGED history

\* useLogout: sign out, then clear() every entry and with it its fetch.
Logout ==
  /\ UserMenu.signOut
  /\ SignOut
  /\ status' = "absent" /\ me' = Nobody /\ meFetch' = Nobody /\ data' = {} /\ fetches' = {}
  /\ UNCHANGED <<install, boot, mocking, worker, path, saves, logins, setups, form>>
  /\ UNCHANGED bound /\ UNCHANGED history

----------------------------------------------------------------------------
(* Server data.  request() reads the token when it is called.              *)

\* useMe on a page's shell: no entry yet, or one older than its 30 seconds.
UseMe ==
  /\ View = "pages" /\ meFetch = Nobody
  /\ meFetch' = token
  /\ UNCHANGED <<install, boot, mocking, worker, stored, token, path, status, me, data,
                 fetches, saves, logins, setups, form>>
  /\ UNCHANGED bound /\ UNCHANGED history

\* GET /me is answered for the token it carried, or fails.
MeAnswered ==
  /\ meFetch # Nobody
  /\ meFetch' = Nobody
  /\ \/ me' = meFetch /\ UNCHANGED bound
     \/ me' = me /\ Fault
  /\ UNCHANGED <<install, boot, mocking, worker, stored, token, path, status, data,
                 fetches, saves, logins, setups, form>>
  /\ UNCHANGED history

\* A page reads its data.
FetchData ==
  /\ View = "pages"
  /\ fetches' = fetches \cup {token}
  /\ UNCHANGED <<install, boot, mocking, worker, stored, token, path, status, me, meFetch,
                 data, saves, logins, setups, form>>
  /\ UNCHANGED bound /\ UNCHANGED history

\* The answer goes to the entry that asked for it.
FetchAnswered(u) ==
  /\ u \in fetches
  /\ fetches' = fetches \ {u}
  /\ data' = data \cup {u}
  /\ UNCHANGED <<install, boot, mocking, worker, stored, token, path, status, me, meFetch,
                 saves, logins, setups, form>>
  /\ UNCHANGED bound /\ UNCHANGED history

\* A page saves something.
Save ==
  /\ View = "pages"
  /\ saves' = saves \cup {token}
  /\ UNCHANGED <<install, boot, mocking, worker, stored, token, path, logins, setups, form>>
  /\ UNCHANGED cache /\ UNCHANGED bound /\ UNCHANGED history

\* The mutation's onSuccess puts the answer into the cache, as useSaveSegment,
\* useUpdateProject, useToggleFlag and usePatchFlagConfig do.
SaveAnswered(u) ==
  /\ u \in saves
  /\ saves' = saves \ {u}
  /\ data' = data \cup {u}
  /\ late' = (late \/ u # token)
  /\ UNCHANGED <<install, boot, mocking, worker, stored, token, path, status, me, meFetch,
                 fetches, logins, setups, form, overlap>>
  /\ UNCHANGED bound

SessionNext ==
  \/ LoadConfig \/ LoadConfigFails \/ StartWorker \/ Reload
  \/ Redirect \/ \E p \in Paths : Navigate(p)
  \/ UseSetupStatus \/ SetupStatusAnswered \/ SetupStatusFails
  \/ \E u \in Users : Login(u) \/ LoginSucceeds(u) \/ LoginFails(u) \/ SetupSucceeds(u)
  \/ CompleteSetup \/ SetupFails \/ SetUpElsewhere \/ Logout
  \/ UseMe \/ MeAnswered \/ FetchData \/ Save
  \/ \E u \in Users : FetchAnswered(u) \/ SaveAnswered(u)

SessionSpec == SessionInit /\ [][SessionNext]_sessionVars

\* The browser renders, follows redirects and finishes its requests.
Fairness == WF_sessionVars(Redirect) /\ WF_sessionVars(UseSetupStatus) /\ WF_sessionVars(SetupStatusAnswered)
FairSpec == SessionSpec /\ Fairness

----------------------------------------------------------------------------
(* Properties.                                                             *)

\* Signing out drops all cached server data, so nothing leaks across sessions:
\* what the pages' entries hold belongs to the user of the token, unless the
\* answer to a mutation came after its session, or two sign-ins overlapped.
NothingLeaks == data \subseteq {token} \/ late \/ overlap

\* The user shown is the token's user.  Only overlapping sign-ins break it: a
\* fetch of me still under way then puts the replaced user back.
MeIsTokens == UserMenu.user \in {Nobody, token} \/ overlap

\* On a fresh install only the wizard is reachable: while the server says set-up
\* is to be done, a screen behind the guards means that the question failed.
FreshShowsWizard ==
  install = "fresh" /\ View \in {"sign-in", "pages"} => status = "error"

\* The guards never send the browser in circles or leave it with a spinner: from
\* every state a screen is reached, after sign-out too, which empties the status.
ScreenReached == boot = "up" ~> (View \in {"wizard", "sign-in", "pages"} \/ boot # "up")
=============================================================================
