------------------------------ MODULE Webhooks ------------------------------
(***************************************************************************)
(* Outbound webhooks (internal/webhooks, internal/store/webhooks.go): an   *)
(* audited event is fanned out into one delivery per webhook that wants    *)
(* it, and every replica runs a deliverer that lists the due deliveries,   *)
(* posts them and writes the result back by id.                            *)
(*                                                                         *)
(* A delivery is the pair of its webhook and its event.  A deliverer works *)
(* on copies: the rows as they were when it listed them.  Time is left to  *)
(* BackoffOver: a retry is due some time after it was scheduled.  Secrets  *)
(* and payloads are left out.                                              *)
(***************************************************************************)
EXTENDS Naturals, FiniteSets

CONSTANTS
  Hooks,        \* webhook ids of one organization
  Events,       \* audited events, and test events
  Deliverers,   \* one per replica
  MaxAttempts,  \* maxDeliveryAttempts
  Batch,        \* dueBatchSize
  MaxFaults     \* bound: failing database calls and replicas that stop

ASSUME WebhooksAssumption ==
  /\ MaxAttempts \in Nat \ {0} /\ Batch \in Nat \ {0}
  /\ MaxFaults \in Nat
  /\ Hooks # {} /\ Events # {}

Deliveries == Hooks \X Events

VARIABLES
  hook,      \* per webhook: absent, enabled, disabled or deleted
  wants,     \* per webhook: the event types it subscribes to
  todo,      \* per event: the webhooks Enqueue has still to insert a delivery for
  emitted,   \* events whose Enqueue (or Test) has begun
  status,    \* the column; "none" before the insert, "deleted" after the cascade
  attempts,  \* the column
  due,       \* is next_attempt_at past?
  pc,        \* per deliverer: down, idle, batch, send or record
  held,      \* per deliverer: listed deliveries it has not finished
  copy,      \* per deliverer: attempts of a held delivery as it was listed, else 0
  cur,       \* per deliverer: the delivery of the attempt under way
  reply,     \* per deliverer: was the answer a 2xx?
  faults,
  \* history
  sent,      \* requests attempted, whether or not one reached the receiver
  accepted,  \* deliveries a receiver has accepted
  shared,    \* deliveries that two deliverers held at the same time
  lost,      \* per delivery: attempts whose result was never written
  dropped,   \* deliveries that were listed by Enqueue and not inserted
  unfound    \* deliveries failed because the look-up of the webhook failed

source == <<hook, wants, todo, emitted, dropped>>
table == <<status, attempts, due>>
worker == <<pc, held, copy, cur, reply>>
traffic == <<sent, accepted, shared>>
vars == <<hook, wants, todo, emitted, dropped, status, attempts, due, pc, held, copy, cur, reply,
          sent, accepted, shared, lost, unfound, faults>>

\* Types; attempts stay within the limit.
TypeOK ==
  /\ hook \in [Hooks -> {"absent", "enabled", "disabled", "deleted"}]
  /\ wants \in [Hooks -> SUBSET Events]
  /\ todo \in [Events -> SUBSET Hooks]
  /\ emitted \subseteq Events
  /\ status \in [Deliveries -> {"none", "pending", "success", "failed", "deleted"}]
  /\ attempts \in [Deliveries -> 0..MaxAttempts]
  /\ due \in [Deliveries -> BOOLEAN]
  /\ pc \in [Deliverers -> {"down", "idle", "batch", "send", "record"}]
  /\ held \in [Deliverers -> SUBSET Deliveries]
  /\ copy \in [Deliverers -> [Deliveries -> 0..MaxAttempts]]
  /\ cur \in [Deliverers -> Deliveries]
  /\ reply \in [Deliverers -> BOOLEAN]
  /\ faults \in Nat
  /\ sent \in [Deliveries -> Nat]
  /\ accepted \subseteq Deliveries /\ shared \subseteq Deliveries
  /\ lost \in [Deliveries -> Nat]
  /\ dropped \subseteq Deliveries /\ unfound \subseteq Deliveries

Init ==
  /\ hook = [w \in Hooks |-> "absent"]
  /\ wants = [w \in Hooks |-> {}]
  /\ todo = [e \in Events |-> {}]
  /\ emitted = {}
  /\ status = [d \in Deliveries |-> "none"]
  /\ attempts = [d \in Deliveries |-> 0]
  /\ due = [d \in Deliveries |-> FALSE]
  /\ pc = [k \in Deliverers |-> "idle"]
  /\ held = [k \in Deliverers |-> {}]
  /\ copy = [k \in Deliverers |-> [d \in Deliveries |-> 0]]
  /\ cur = [k \in Deliverers |-> CHOOSE d \in Deliveries : TRUE]
  /\ reply = [k \in Deliverers |-> FALSE]
  /\ faults = 0
  /\ sent = [d \in Deliveries |-> 0]
  /\ accepted = {} /\ shared = {}
  /\ lost = [d \in Deliveries |-> 0]
  /\ dropped = {} /\ unfound = {}

There(w) == hook[w] \in {"enabled", "disabled"}
Fault == faults < MaxFaults /\ faults' = faults + 1

----------------------------------------------------------------------------
(* Webhooks and their events.                                              *)

\* Create: refused unless it subscribes to something.
Create(w, types) ==
  /\ hook[w] = "absent"
  /\ types # {}
  /\ hook' = [hook EXCEPT ![w] = "enabled"]
  /\ wants' = [wants EXCEPT ![w] = types]
  /\ UNCHANGED <<todo, emitted, dropped, lost, unfound>>
  /\ UNCHANGED table /\ UNCHANGED worker /\ UNCHANGED traffic /\ UNCHANGED faults

\* SetEnabled: deliveries that are queued already are not touched.
SetEnabled(w, enabled) ==
  /\ There(w)
  /\ hook' = [hook EXCEPT ![w] = IF enabled THEN "enabled" ELSE "disabled"]
  /\ UNCHANGED <<wants, todo, emitted, dropped, lost, unfound>>
  /\ UNCHANGED table /\ UNCHANGED worker /\ UNCHANGED traffic /\ UNCHANGED faults

\* Delete: the deliveries go with it (ON DELETE CASCADE).
Delete(w) ==
  /\ There(w)
  /\ hook' = [hook EXCEPT ![w] = "deleted"]
  /\ status' = [d \in Deliveries |->
                  IF d[1] = w /\ status[d] # "none" THEN "deleted" ELSE status[d]]
  /\ UNCHANGED <<wants, todo, emitted, dropped, attempts, due, lost, unfound>>
  /\ UNCHANGED worker /\ UNCHANGED traffic /\ UNCHANGED faults

\* Enqueue: the enabled webhooks that subscribe, as they are now.
Enqueue(e) ==
  /\ e \notin emitted
  /\ emitted' = emitted \cup {e}
  /\ todo' = [todo EXCEPT ![e] = {w \in Hooks : hook[w] = "enabled" /\ e \in wants[w]}]
  /\ UNCHANGED <<hook, wants, dropped, lost, unfound>>
  /\ UNCHANGED table /\ UNCHANGED worker /\ UNCHANGED traffic /\ UNCHANGED faults

\* CreateWebhookDelivery for the next of them; a webhook deleted meanwhile has no row to
\* refer to, and the error is logged like any other.
CreateWebhookDelivery(e, w) ==
  /\ w \in todo[e]
  /\ todo' = [todo EXCEPT ![e] = @ \ {w}]
  /\ There(w)
  /\ status' = [status EXCEPT ![<<w, e>>] = "pending"]
  /\ due' = [due EXCEPT ![<<w, e>>] = TRUE]
  /\ UNCHANGED <<hook, wants, emitted, dropped, attempts, lost, unfound>>
  /\ UNCHANGED worker /\ UNCHANGED traffic /\ UNCHANGED faults

CreateWebhookDeliveryFails(e, w) ==
  /\ w \in todo[e]
  /\ todo' = [todo EXCEPT ![e] = @ \ {w}]
  /\ dropped' = dropped \cup {<<w, e>>}
  /\ \/ ~There(w) /\ UNCHANGED faults
     \/ Fault
  /\ UNCHANGED <<hook, wants, emitted, lost, unfound>>
  /\ UNCHANGED table /\ UNCHANGED worker /\ UNCHANGED traffic

\* Test: a delivery to one webhook, enabled or not, whatever it subscribes to.
Test(e, w) ==
  /\ e \notin emitted
  /\ There(w)
  /\ emitted' = emitted \cup {e}
  /\ status' = [status EXCEPT ![<<w, e>>] = "pending"]
  /\ due' = [due EXCEPT ![<<w, e>>] = TRUE]
  /\ UNCHANGED <<hook, wants, todo, dropped, attempts, lost, unfound>>
  /\ UNCHANGED worker /\ UNCHANGED traffic /\ UNCHANGED faults

\* The listing itself fails, or the replica stops in the middle of a fan-out.
EnqueueStops(e) ==
  /\ todo[e] # {}
  /\ Fault
  /\ todo' = [todo EXCEPT ![e] = {}]
  /\ dropped' = dropped \cup {<<w, e>> : w \in todo[e]}
  /\ UNCHANGED <<hook, wants, emitted, lost, unfound>>
  /\ UNCHANGED table /\ UNCHANGED worker /\ UNCHANGED traffic

----------------------------------------------------------------------------
(* The deliverer.                                                          *)

\* Wrong variant: disabling a webhook keeps its deliveries from being listed.
DueOfEnabled == {d \in Deliveries : status[d] = "pending" /\ due[d] /\ hook[d[1]] = "enabled"}

\* Wrong variant: failed deliveries are listed as well.
DueOrFailed == {d \in Deliveries : status[d] \in {"pending", "failed"} /\ due[d]}

\* WHERE status = 'pending' AND next_attempt_at <= now.
Due == {d \in Deliveries : status[d] = "pending" /\ due[d]}

\* deliverDue: list at most a batch.
DeliverDue(k) ==
  /\ pc[k] = "idle"
  /\ Due # {}
  /\ \E listed \in SUBSET Due :
       /\ Cardinality(listed) <= Batch
       /\ Cardinality(listed) = Batch \/ listed = Due
       /\ held' = [held EXCEPT ![k] = listed]
       /\ copy' = [copy EXCEPT ![k] = [d \in Deliveries |-> IF d \in listed THEN attempts[d] ELSE 0]]
       /\ shared' = shared \cup {d \in listed : \E j \in Deliverers \ {k} : d \in held[j]}
  /\ pc' = [pc EXCEPT ![k] = "batch"]
  /\ UNCHANGED <<cur, reply, sent, accepted, lost, unfound>>
  /\ UNCHANGED source /\ UNCHANGED table /\ UNCHANGED faults

\* The attempt at d is over.
Finished(k, d) ==
  /\ held' = [held EXCEPT ![k] = @ \ {d}]
  /\ copy' = [copy EXCEPT ![k][d] = 0]
  /\ reply' = [reply EXCEPT ![k] = FALSE]
  /\ pc' = [pc EXCEPT ![k] = IF held[k] = {d} THEN "idle" ELSE "batch"]

\* UpdateWebhookDeliveryResult: by id, from the copy, whatever the row has become.
UpdateWebhookDeliveryResult(d, s, n) ==
  /\ status' = [status EXCEPT ![d] = IF @ = "deleted" THEN @ ELSE s]
  /\ attempts' = [attempts EXCEPT ![d] = IF status[d] = "deleted" THEN @ ELSE n]
  /\ due' = [due EXCEPT ![d] = IF status[d] = "deleted" THEN @ ELSE s # "pending"]

\* attemptDelivery finds the webhook.
GetWebhook(k, d) ==
  /\ pc[k] = "batch" /\ d \in held[k]
  /\ There(d[1])
  /\ pc' = [pc EXCEPT ![k] = "send"]
  /\ cur' = [cur EXCEPT ![k] = d]
  /\ UNCHANGED <<held, copy, reply, lost, unfound>>
  /\ UNCHANGED source /\ UNCHANGED table /\ UNCHANGED traffic /\ UNCHANGED faults

\* It does not: the delivery is failed at once, when the webhook is gone (and the delivery
\* with it) and when the query failed alike.
GetWebhookFails(k, d) ==
  /\ pc[k] = "batch" /\ d \in held[k]
  /\ \/ ~There(d[1]) /\ UNCHANGED faults /\ UNCHANGED unfound
     \/ Fault /\ unfound' = unfound \cup {d}
  /\ UpdateWebhookDeliveryResult(d, "failed", copy[k][d])
  /\ Finished(k, d)
  /\ UNCHANGED <<cur, lost>>
  /\ UNCHANGED source /\ UNCHANGED traffic

\* The look-up and the finalize after it both fail: the row stays due.
FinalizeFails(k, d) ==
  /\ pc[k] = "batch" /\ d \in held[k]
  /\ Fault
  /\ Finished(k, d)
  /\ UNCHANGED <<cur, lost, unfound>>
  /\ UNCHANGED source /\ UNCHANGED table /\ UNCHANGED traffic

\* Wrong variant: a request without an answer counts as delivered.
AnswersOptimistic == {<<TRUE, TRUE>>, <<TRUE, FALSE>>, <<FALSE, TRUE>>}

\* External: has the receiver accepted the request, and did its 2xx come in time?
Answers == {<<TRUE, TRUE>>, <<TRUE, FALSE>>, <<FALSE, FALSE>>}

\* send: the client's timeout ends it.
Send(k) ==
  /\ pc[k] = "send"
  /\ pc' = [pc EXCEPT ![k] = "record"]
  /\ sent' = [sent EXCEPT ![cur[k]] = @ + 1]
  /\ \E a \in Answers :
       /\ accepted' = IF a[1] THEN accepted \cup {cur[k]} ELSE accepted
       /\ reply' = [reply EXCEPT ![k] = a[2]]
  /\ UNCHANGED <<held, copy, cur, shared, lost, unfound>>
  /\ UNCHANGED source /\ UNCHANGED table /\ UNCHANGED faults

\* Wrong variant: one attempt more than the limit.
OutcomeOneMore(ok, n) == IF ok THEN "success" ELSE IF n > MaxAttempts THEN "failed" ELSE "pending"

\* Wrong variant: the first refusal is final.
OutcomeAtOnce(ok, n) == IF ok THEN "success" ELSE "failed"

\* The status after attempt n.
Outcome(ok, n) == IF ok THEN "success" ELSE IF n >= MaxAttempts THEN "failed" ELSE "pending"

\* Wrong variant: a retry is scheduled with the attempts it was listed with.
RecordUncounted(k) ==
  LET d == cur[k]
      n == copy[k][d] + 1
  IN /\ pc[k] = "record"
     /\ UpdateWebhookDeliveryResult(d, Outcome(reply[k], n), IF reply[k] THEN n ELSE copy[k][d])
     /\ Finished(k, d)
     /\ UNCHANGED <<cur, lost, unfound>>
     /\ UNCHANGED source /\ UNCHANGED traffic /\ UNCHANGED faults

\* The result of the attempt is written: finalize, or a reschedule with backoff.
Record(k) ==
  LET d == cur[k]
      n == copy[k][d] + 1
  IN /\ pc[k] = "record"
     /\ UpdateWebhookDeliveryResult(d, Outcome(reply[k], n), n)
     /\ Finished(k, d)
     /\ UNCHANGED <<cur, lost, unfound>>
     /\ UNCHANGED source /\ UNCHANGED traffic /\ UNCHANGED faults

\* The write fails: it is logged, and the row stays due.
RecordFails(k) ==
  /\ pc[k] = "record"
  /\ Fault
  /\ lost' = [lost EXCEPT ![cur[k]] = @ + 1]
  /\ Finished(k, cur[k])
  /\ UNCHANGED <<cur, unfound>>
  /\ UNCHANGED source /\ UNCHANGED table /\ UNCHANGED traffic

BackoffOver(d) ==
  /\ status[d] = "pending" /\ ~due[d]
  /\ due' = [due EXCEPT ![d] = TRUE]
  /\ UNCHANGED <<status, attempts, lost, unfound>>
  /\ UNCHANGED source /\ UNCHANGED worker /\ UNCHANGED traffic /\ UNCHANGED faults

\* The replica stops: its context is cancelled or the process dies.
Stop(k) ==
  /\ pc[k] # "down"
  /\ Fault
  /\ pc' = [pc EXCEPT ![k] = "down"]
  /\ held' = [held EXCEPT ![k] = {}]
  /\ copy' = [copy EXCEPT ![k] = [d \in Deliveries |-> 0]]
  /\ reply' = [reply EXCEPT ![k] = FALSE]
  /\ lost' = IF pc[k] = "record" THEN [lost EXCEPT ![cur[k]] = @ + 1] ELSE lost
  /\ UNCHANGED <<cur, unfound>>
  /\ UNCHANGED source /\ UNCHANGED table /\ UNCHANGED traffic

StartDeliverer(k) ==
  /\ pc[k] = "down"
  /\ pc' = [pc EXCEPT ![k] = "idle"]
  /\ UNCHANGED <<held, copy, cur, reply, lost, unfound>>
  /\ UNCHANGED source /\ UNCHANGED table /\ UNCHANGED traffic /\ UNCHANGED faults

Emission(e) ==
  \E w \in Hooks : CreateWebhookDelivery(e, w) \/ CreateWebhookDeliveryFails(e, w)

Deliverer(k) ==
  \/ DeliverDue(k) \/ Send(k) \/ Record(k) \/ RecordFails(k)
  \/ \E d \in Deliveries : GetWebhook(k, d) \/ GetWebhookFails(k, d) \/ FinalizeFails(k, d)

Next ==
  \/ \E w \in Hooks : \/ \E types \in SUBSET Events : Create(w, types)
                      \/ \E enabled \in BOOLEAN : SetEnabled(w, enabled)
                      \/ Delete(w)
  \/ \E e \in Events : \/ Enqueue(e) \/ Emission(e) \/ EnqueueStops(e)
                       \/ \E w \in Hooks : Test(e, w)
  \/ \E k \in Deliverers : Deliverer(k) \/ Stop(k) \/ StartDeliverer(k)
  \/ \E d \in Deliveries : BackoffOver(d)

Spec == Init /\ [][Next]_vars

\* Handlers finish their fan-out, tickers tick, requests end (the client has a timeout)
\* and time passes.  Nothing says that a stopped replica comes back.
Fairness ==
  /\ \A e \in Events : WF_vars(Emission(e))
  /\ \A k \in Deliverers : WF_vars(Deliverer(k))
  /\ \A d \in Deliveries : WF_vars(BackoffOver(d))

FairSpec == Spec /\ Fairness

----------------------------------------------------------------------------
(* Properties.                                                             *)

\* The delivery log does not claim more than happened: a delivery marked success was
\* accepted by its receiver, also when a slower deliverer wrote over it.
SuccessHonest == \A d \in Deliveries : status[d] = "success" => d \in accepted

InFlight(d) == {k \in Deliverers : pc[k] = "record" /\ cur[k] = d}

\* Every request is accounted for, so a receiver sees at most maxDeliveryAttempts requests
\* and one more for every result that could not be written.  Only a delivery that two
\* replicas held at the same time can be sent more often.
SendsCounted ==
  \A d \in Deliveries \ shared :
    status[d] # "deleted" =>
      sent[d] = attempts[d] + lost[d] + Cardinality(InFlight(d))

\* A delivery is given up after maxDeliveryAttempts attempts, "with retry/backoff"
\* (README.md), or because the webhook could not be looked up once.
GivenUpLate ==
  \A d \in Deliveries :
    status[d] = "failed" => attempts[d] = MaxAttempts \/ d \in unfound

\* A result is final: a success or failure is sent again, and its row written again, only
\* if two deliverers held the delivery at the same time.
ResultFinal ==
  [][\A d \in Deliveries \ shared' :
       status[d] \in {"success", "failed"} => status'[d] \in {status[d], "deleted"}]_vars

\* Every event reaches a result at every webhook it was meant for: Enqueue finishes, and
\* no delivery stays pending, whichever replicas overwrite each other's attempts.
Drains ==
  <>[](/\ \A e \in Events : todo[e] = {}
       /\ \A d \in Deliveries : status[d] # "pending" \/ \A k \in Deliverers : pc[k] = "down")
=============================================================================
