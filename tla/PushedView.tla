---------------------------- MODULE PushedView -----------------------------
(***************************************************************************)
(* What the stream endpoint promises, without channels or goroutines: each *)
(* viewer is shown versions of its own environment, in order, and a viewer *)
(* that is not shown the latest version is due another push.               *)
(***************************************************************************)
EXTENDS Naturals

CONSTANTS Viewers, Envs

VARIABLES
  version, \* per environment: the version evaluations are served from
  env,     \* per viewer: the environment it watches
  open,    \* per viewer: is it connected
  shown,   \* per viewer: the version it was last shown, 0 for none
  due      \* per viewer: will it be shown something again

view == <<version, env, open, shown, due>>

Init ==
  /\ version = [e \in Envs |-> 1]
  /\ env \in [Viewers -> Envs]
  /\ open = [c \in Viewers |-> FALSE]
  /\ shown = [c \in Viewers |-> 0]
  /\ due = [c \in Viewers |-> FALSE]

\* A new version makes every viewer of the environment due.
Change(e) ==
  /\ version' = [version EXCEPT ![e] = @ + 1]
  /\ due' = [c \in Viewers |-> due[c] \/ (open[c] /\ env[c] = e)]
  /\ UNCHANGED <<env, open, shown>>

Open(c, e) ==
  /\ ~open[c]
  /\ open' = [open EXCEPT ![c] = TRUE]
  /\ env' = [env EXCEPT ![c] = e]
  /\ due' = [due EXCEPT ![c] = TRUE]
  /\ UNCHANGED <<version, shown>>

\* A push may skip versions, never goes back, and may show a version that is
\* no longer the latest only if the viewer stays due.
Show(c, v) ==
  /\ open[c] /\ due[c]
  /\ shown[c] <= v /\ v <= version[env[c]]
  /\ shown' = [shown EXCEPT ![c] = v]
  /\ due' \in [Viewers -> BOOLEAN]
  /\ \A d \in Viewers \ {c} : due'[d] = due[d]
  /\ v # version[env[c]] => due'[c]
  /\ UNCHANGED <<version, env, open>>

Shut(c) ==
  /\ open[c]
  /\ open' = [open EXCEPT ![c] = FALSE]
  /\ shown' = [shown EXCEPT ![c] = 0]
  /\ due' = [due EXCEPT ![c] = FALSE]
  /\ UNCHANGED <<version, env>>

Next ==
  \/ \E e \in Envs : Change(e)
  \/ \E c \in Viewers : Shut(c)
  \/ \E c \in Viewers : \E e \in Envs : Open(c, e)
  \/ \E c \in Viewers : \E v \in 1..version[env[c]] : Show(c, v)

Spec == Init /\ [][Next]_view
=============================================================================
