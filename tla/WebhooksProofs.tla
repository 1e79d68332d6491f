--------------------------- MODULE WebhooksProofs ---------------------------
(***************************************************************************)
(* Proofs about Webhooks, for any number of webhooks, events, deliverers,  *)
(* attempts and faults.                                                    *)
(***************************************************************************)
EXTENDS Webhooks, FiniteSetTheorems, TLAPS

\* The attempt under way is one of the deliveries held, and those were inserted.
Holding ==
  /\ \A k \in Deliverers : pc[k] \in {"send", "record"} => cur[k] \in held[k]
  /\ \A k \in Deliverers : \A d \in held[k] : status[d] # "none"

\* Who alone holds a delivery has an exact copy of it, and it is pending.
Copies ==
  \A k \in Deliverers : \A d \in held[k] :
    d \in shared \/ status[d] = "deleted" \/ (status[d] = "pending" /\ copy[k][d] = attempts[d])

\* Two deliverers that hold the same delivery are on record.
Sharing ==
  \A j \in Deliverers : \A k \in Deliverers : \A d \in held[j] :
    j # k /\ d \in held[k] => d \in shared

\* A pending delivery, and a copy of one, has attempts left.
Counting ==
  /\ \A d \in Deliveries : status[d] = "pending" => attempts[d] < MaxAttempts
  /\ \A d \in Deliveries : status[d] = "none" => attempts[d] = 0
  /\ \A k \in Deliverers : \A d \in held[k] : copy[k][d] < MaxAttempts

\* A delivery is inserted once, and goes with its webhook.
Fresh ==
  /\ \A w \in Hooks : \A e \in Events :
       /\ w \in todo[e] => e \in emitted /\ status[<<w, e>>] = "none"
       /\ e \notin emitted => status[<<w, e>>] = "none"
  /\ \A d \in Deliveries : ~There(d[1]) => status[d] \in {"none", "deleted"}

\* A 2xx on its way to the row comes from the receiver.
Answered == \A k \in Deliverers : pc[k] = "record" /\ reply[k] => cur[k] \in accepted

\* What makes the results right is that who alone holds a delivery has a true copy of it
\* (Copies, Sharing); the rest says that the copies are well formed.
IInv ==
  /\ TypeOK /\ Holding /\ Copies /\ Sharing /\ Counting /\ Fresh /\ Answered
  /\ SuccessHonest /\ GivenUpLate

\* The initial state satisfies the invariant.
LEMMA InitInv == Init => IInv
<1> SUFFICES ASSUME Init PROVE IInv
  OBVIOUS
<1>1. Deliveries # {}
  <2>1. PICK w \in Hooks, e \in Events : TRUE
    BY WebhooksAssumption
  <2>2. <<w, e>> \in Deliveries
    BY DEF Deliveries
  <2> QED
    BY <2>2
<1>2. (CHOOSE d \in Deliveries : TRUE) \in Deliveries
  BY <1>1
<1>3. 0 \in 0..MaxAttempts
  BY WebhooksAssumption
<1>4. [d \in Deliveries |-> 0] \in [Deliveries -> 0..MaxAttempts]
  BY <1>3
<1>5. TypeOK
  <2>1. due \in [Deliveries -> BOOLEAN] /\ reply \in [Deliverers -> BOOLEAN]
    BY DEF Init
  <2>2. cur \in [Deliverers -> Deliveries] /\ copy \in [Deliverers -> [Deliveries -> 0..MaxAttempts]]
    BY <1>2, <1>4 DEF Init
  <2> QED
    BY <1>3, <2>1, <2>2 DEF Init, TypeOK
<1>6. Fresh
  BY DEF Init, Fresh, There, Deliveries
<1> QED
  BY <1>5, <1>6 DEF Init, IInv, Holding, Copies, Sharing, Counting, Answered, SuccessHonest, GivenUpLate

\* What the update writes.
LEMMA Updated ==
  ASSUME TypeOK, NEW d \in Deliveries, NEW s \in {"pending", "success", "failed"},
         NEW n \in 0..MaxAttempts, UpdateWebhookDeliveryResult(d, s, n)
  PROVE  /\ status' \in [Deliveries -> {"none", "pending", "success", "failed", "deleted"}]
         /\ attempts' \in [Deliveries -> 0..MaxAttempts]
         /\ due' \in [Deliveries -> BOOLEAN]
         /\ \A x \in Deliveries : x # d => status'[x] = status[x] /\ attempts'[x] = attempts[x]
         /\ status[d] = "deleted" => status'[d] = "deleted" /\ attempts'[d] = attempts[d]
         /\ status[d] # "deleted" => status'[d] = s /\ attempts'[d] = n
<1>1. due' \in [Deliveries -> BOOLEAN]
  <2>1. (IF status[d] = "deleted" THEN due[d] ELSE s # "pending") \in BOOLEAN
    BY DEF TypeOK
  <2> QED
    BY <2>1 DEF UpdateWebhookDeliveryResult, TypeOK
<1>2. status' \in [Deliveries -> {"none", "pending", "success", "failed", "deleted"}]
  BY DEF UpdateWebhookDeliveryResult, TypeOK
<1>3. attempts' \in [Deliveries -> 0..MaxAttempts]
  BY DEF UpdateWebhookDeliveryResult, TypeOK
<1> QED
  BY <1>1, <1>2, <1>3 DEF UpdateWebhookDeliveryResult, TypeOK

\* What the end of an attempt leaves.
LEMMA Ended ==
  ASSUME TypeOK, NEW k \in Deliverers, NEW d \in Deliveries, Finished(k, d)
  PROVE  /\ pc' \in [Deliverers -> {"down", "idle", "batch", "send", "record"}]
         /\ held' \in [Deliverers -> SUBSET Deliveries]
         /\ copy' \in [Deliverers -> [Deliveries -> 0..MaxAttempts]]
         /\ reply' \in [Deliverers -> BOOLEAN]
         /\ pc'[k] \in {"idle", "batch"}
         /\ held'[k] = held[k] \ {d}
         /\ \A x \in Deliveries : x # d => copy'[k][x] = copy[k][x]
         /\ \A j \in Deliverers : j # k => /\ pc'[j] = pc[j] /\ held'[j] = held[j]
                                          /\ copy'[j] = copy[j] /\ reply'[j] = reply[j]
<1>1. 0 \in 0..MaxAttempts
  BY WebhooksAssumption
<1>2. reply' \in [Deliverers -> BOOLEAN]
  BY DEF Finished, TypeOK
<1>3. copy' \in [Deliverers -> [Deliveries -> 0..MaxAttempts]]
  BY <1>1 DEF Finished, TypeOK
<1> QED
  BY <1>2, <1>3 DEF Finished, TypeOK

\* Creating, enabling and disabling a webhook touches no delivery.
LEMMA EditStep ==
  ASSUME IInv, NEW w \in Hooks, NEW types \in SUBSET Events, NEW enabled \in BOOLEAN,
         Create(w, types) \/ SetEnabled(w, enabled)
  PROVE  IInv'
<1> USE DEF IInv, Create, SetEnabled, table, worker, traffic
<1>1. TypeOK'
  BY DEF TypeOK
<1>2. Fresh'
  <2>1. \A v \in Hooks : There(v) => There(v)'
    BY DEF There, TypeOK
  <2>2. \A d \in Deliveries : d[1] \in Hooks
    BY DEF Deliveries
  <2> QED
    BY <2>1, <2>2 DEF Fresh
<1>3. Holding' /\ Copies' /\ Sharing' /\ Counting' /\ Answered'
  BY DEF Holding, Copies, Sharing, Counting, Answered
<1>4. SuccessHonest' /\ GivenUpLate'
  BY DEF SuccessHonest, GivenUpLate
<1> QED
  BY <1>1, <1>2, <1>3, <1>4

\* Deleting a webhook deletes its deliveries.
LEMMA DeleteStep == ASSUME IInv, NEW w \in Hooks, Delete(w) PROVE IInv'
<1> USE DEF IInv, Delete, worker, traffic
<1>1. TypeOK'
  BY DEF TypeOK
<1>2. \A d \in Deliveries : status'[d] = status[d] \/ (status[d] # "none" /\ status'[d] = "deleted")
  OBVIOUS
<1>3. Fresh'
  <2>1. \A d \in Deliveries : ~There(d[1])' => status'[d] \in {"none", "deleted"}
    BY DEF Fresh, TypeOK, There
  <2>2. \A v \in Hooks, e \in Events : <<v, e>> \in Deliveries
    BY DEF Deliveries
  <2> QED
    BY <1>2, <2>1, <2>2 DEF Fresh
<1>4. Holding' /\ Copies' /\ Sharing' /\ Counting' /\ Answered'
  BY <1>2 DEF Holding, Copies, Sharing, Counting, Answered, TypeOK
<1>5. SuccessHonest' /\ GivenUpLate'
  BY <1>2 DEF SuccessHonest, GivenUpLate
<1> QED
  BY <1>1, <1>3, <1>4, <1>5

\* A fan-out begins.
LEMMA EnqueueStep == ASSUME IInv, NEW e \in Events, Enqueue(e) PROVE IInv'
<1> USE DEF IInv, Enqueue, table, worker, traffic
<1>1. TypeOK'
  BY DEF TypeOK
<1>2. Fresh'
  BY DEF Fresh, TypeOK, There
<1>3. Holding' /\ Copies' /\ Sharing' /\ Counting' /\ Answered'
  BY DEF Holding, Copies, Sharing, Counting, Answered
<1>4. SuccessHonest' /\ GivenUpLate'
  BY DEF SuccessHonest, GivenUpLate
<1> QED
  BY <1>1, <1>2, <1>3, <1>4

\* A delivery is inserted, for an event or as a test: it is new, so nobody holds it.
LEMMA InsertStep ==
  ASSUME IInv, NEW e \in Events, NEW w \in Hooks, CreateWebhookDelivery(e, w) \/ Test(e, w)
  PROVE  IInv'
<1> USE DEF IInv, CreateWebhookDelivery, Test, worker, traffic
<1>1. <<w, e>> \in Deliveries /\ <<w, e>>[1] = w
  BY DEF Deliveries
<1>2. status[<<w, e>>] = "none" /\ There(w)
  BY DEF Fresh
<1>3. TypeOK'
  <2>1. due' \in [Deliveries -> BOOLEAN]
    BY DEF TypeOK
  <2>2. todo' \in [Events -> SUBSET Hooks] /\ emitted' \subseteq Events
    <3>1. todo \in [Events -> SUBSET Hooks] /\ emitted \subseteq Events
      BY DEF TypeOK
    <3>2. CASE CreateWebhookDelivery(e, w)
      BY <3>1, <3>2
    <3>3. CASE Test(e, w)
      BY <3>1, <3>3
    <3> QED
      BY <3>2, <3>3
  <2>3. status' \in [Deliveries -> {"none", "pending", "success", "failed", "deleted"}]
    BY <1>1 DEF TypeOK
  <2> QED
    BY <2>1, <2>2, <2>3 DEF TypeOK
<1>4. /\ status'[<<w, e>>] = "pending"
      /\ \A d \in Deliveries : d # <<w, e>> => status'[d] = status[d]
  BY <1>1 DEF TypeOK
<1>5. Fresh'
  <2>1. \A d \in Deliveries : ~There(d[1])' => status'[d] \in {"none", "deleted"}
    BY <1>1, <1>2, <1>4 DEF Fresh, There
  <2>2. ASSUME NEW v \in Hooks, NEW x \in Events
        PROVE  /\ v \in todo'[x] => x \in emitted' /\ status'[<<v, x>>] = "none"
               /\ x \notin emitted' => status'[<<v, x>>] = "none"
    <3>1. <<v, x>> \in Deliveries
      BY DEF Deliveries
    <3>2. v \in todo'[x] => v \in todo[x] /\ <<v, x>> # <<w, e>>
      BY DEF TypeOK, Fresh
    <3>3. e \in emitted' /\ emitted \subseteq emitted'
      BY DEF Fresh
    <3> QED
      BY <1>4, <3>1, <3>2, <3>3 DEF Fresh
  <2> QED
    BY <2>1, <2>2 DEF Fresh
<1>6. Holding' /\ Copies' /\ Sharing' /\ Answered'
  <2>1. /\ pc' = pc /\ held' = held /\ cur' = cur /\ reply' = reply /\ copy' = copy
        /\ shared' = shared /\ accepted' = accepted /\ attempts' = attempts
    OBVIOUS
  <2>2. \A k \in Deliverers : \A d \in held[k] : d \in Deliveries /\ d # <<w, e>>
    BY <1>2 DEF Holding, TypeOK
  <2>3. Holding' /\ Copies'
    BY <1>4, <2>1, <2>2 DEF Holding, Copies
  <2> QED
    BY <2>1, <2>3 DEF Sharing, Answered
<1>7. Counting'
  <2>1. attempts' = attempts /\ held' = held /\ copy' = copy
    OBVIOUS
  <2>2. attempts[<<w, e>>] < MaxAttempts
    BY <1>1, <1>2, WebhooksAssumption DEF Counting
  <2> QED
    BY <1>1, <1>4, <2>1, <2>2 DEF Counting
<1>8. SuccessHonest' /\ GivenUpLate'
  BY <1>1, <1>4 DEF SuccessHonest, GivenUpLate
<1> QED
  BY <1>3, <1>5, <1>6, <1>7, <1>8

\* A fan-out skips a webhook or stops.
LEMMA SkipStep ==
  ASSUME IInv, NEW e \in Events, NEW w \in Hooks,
         CreateWebhookDeliveryFails(e, w) \/ EnqueueStops(e)
  PROVE  IInv'
<1> USE DEF IInv, CreateWebhookDeliveryFails, EnqueueStops, table, worker, traffic
<1>1. faults' \in Nat
  BY DEF Fault, TypeOK
<1>2. dropped' \subseteq Deliveries
  BY DEF TypeOK, Deliveries
<1>3. TypeOK'
  BY <1>1, <1>2 DEF TypeOK
<1>4. \A x \in Events : todo'[x] \subseteq todo[x]
  BY DEF TypeOK
<1>5. Fresh'
  BY <1>4 DEF Fresh, There
<1>6. Holding' /\ Copies' /\ Sharing' /\ Counting' /\ Answered'
  BY DEF Holding, Copies, Sharing, Counting, Answered
<1>7. SuccessHonest' /\ GivenUpLate'
  BY DEF SuccessHonest, GivenUpLate
<1> QED
  BY <1>3, <1>5, <1>6, <1>7

\* The deliverer takes copies of due deliveries.
LEMMA DeliverDueStep == ASSUME IInv, NEW k \in Deliverers, DeliverDue(k) PROVE IInv'
<1> USE DEF IInv
<1>1. PICK listed \in SUBSET Due :
        /\ held' = [held EXCEPT ![k] = listed]
        /\ copy' = [copy EXCEPT ![k] = [d \in Deliveries |-> IF d \in listed THEN attempts[d] ELSE 0]]
        /\ shared' = shared \cup {d \in listed : \E j \in Deliverers \ {k} : d \in held[j]}
  BY DEF DeliverDue
<1>2. /\ pc' = [pc EXCEPT ![k] = "batch"]
      /\ cur' = cur /\ reply' = reply /\ sent' = sent /\ accepted' = accepted
      /\ lost' = lost /\ unfound' = unfound /\ faults' = faults
      /\ status' = status /\ attempts' = attempts /\ due' = due
      /\ hook' = hook /\ wants' = wants /\ todo' = todo /\ emitted' = emitted /\ dropped' = dropped
  BY DEF DeliverDue, source, table
<1>3. listed \subseteq Deliveries /\ \A d \in listed : status[d] = "pending"
  BY DEF Due
<1>4. TypeOK'
  <2>1. [d \in Deliveries |-> IF d \in listed THEN attempts[d] ELSE 0] \in [Deliveries -> 0..MaxAttempts]
    BY WebhooksAssumption DEF TypeOK
  <2>2. copy' \in [Deliverers -> [Deliveries -> 0..MaxAttempts]]
    BY <1>1, <2>1 DEF TypeOK
  <2>3. held' \in [Deliverers -> SUBSET Deliveries] /\ shared' \subseteq Deliveries
    BY <1>1, <1>3 DEF TypeOK
  <2>4. pc' \in [Deliverers -> {"down", "idle", "batch", "send", "record"}]
    BY <1>2 DEF TypeOK
  <2> QED
    BY <1>2, <2>2, <2>3, <2>4 DEF TypeOK
<1>5. /\ held'[k] = listed /\ pc'[k] = "batch"
      /\ \A d \in listed : copy'[k][d] = attempts[d]
      /\ \A j \in Deliverers : j # k => held'[j] = held[j] /\ copy'[j] = copy[j] /\ pc'[j] = pc[j]
  BY <1>1, <1>2, <1>3 DEF TypeOK
<1>6. shared \subseteq shared' /\ \A d \in listed, j \in Deliverers : j # k /\ d \in held[j] => d \in shared'
  BY <1>1
<1>7. Holding'
  BY <1>2, <1>3, <1>5 DEF Holding
<1>8. Copies'
  BY <1>2, <1>3, <1>5, <1>6 DEF Copies
<1>9. Sharing'
  BY <1>5, <1>6 DEF Sharing
<1>10. Counting'
  BY <1>2, <1>3, <1>5 DEF Counting
<1>11. Fresh' /\ Answered'
  BY <1>2, <1>5 DEF Fresh, Answered, There
<1>12. SuccessHonest' /\ GivenUpLate'
  BY <1>2 DEF SuccessHonest, GivenUpLate
<1> QED
  BY <1>4, <1>7, <1>8, <1>9, <1>10, <1>11, <1>12

\* The attempt at a held delivery begins.
LEMMA GetWebhookStep ==
  ASSUME IInv, NEW k \in Deliverers, NEW d \in Deliveries, GetWebhook(k, d) PROVE IInv'
<1> USE DEF IInv, GetWebhook, source, table, traffic
<1>1. TypeOK'
  BY DEF TypeOK
<1>2. Holding'
  BY DEF Holding, TypeOK
<1>3. Answered'
  BY DEF Answered, TypeOK
<1>4. Copies' /\ Sharing' /\ Counting' /\ Fresh'
  BY DEF Copies, Sharing, Counting, Fresh, There
<1>5. SuccessHonest' /\ GivenUpLate'
  BY DEF SuccessHonest, GivenUpLate
<1> QED
  BY <1>1, <1>2, <1>3, <1>4, <1>5

\* The request is sent: the answer is on its way to the row.
LEMMA SendStep == ASSUME IInv, NEW k \in Deliverers, Send(k) PROVE IInv'
<1> USE DEF IInv, Send, source, table
<1>1. PICK a \in Answers :
        /\ accepted' = IF a[1] THEN accepted \cup {cur[k]} ELSE accepted
        /\ reply' = [reply EXCEPT ![k] = a[2]]
  OBVIOUS
<1>2. a[2] \in BOOLEAN /\ (a[2] => a[1])
  <2>1. CASE a = <<TRUE, TRUE>>
    BY <2>1
  <2>2. CASE a = <<TRUE, FALSE>>
    BY <2>2
  <2>3. CASE a = <<FALSE, FALSE>>
    BY <2>3
  <2> QED
    BY <2>1, <2>2, <2>3 DEF Answers
<1>3. accepted \subseteq accepted'
  BY <1>1
<1>4. TypeOK'
  <2>1. reply' \in [Deliverers -> BOOLEAN]
    BY <1>1, <1>2 DEF TypeOK
  <2>2. accepted' \subseteq Deliveries
    BY <1>1 DEF TypeOK
  <2>3. sent' \in [Deliveries -> Nat]
    BY DEF TypeOK
  <2> QED
    BY <2>1, <2>2, <2>3 DEF TypeOK
<1>5. Holding'
  BY DEF Holding, TypeOK
<1>6. Answered'
  <2> SUFFICES ASSUME NEW j \in Deliverers, pc'[j] = "record", reply'[j] PROVE cur[j] \in accepted'
    BY DEF Answered
  <2>1. CASE j = k
    <3>1. a[1]
      BY <1>1, <1>2, <2>1 DEF TypeOK
    <3> QED
      BY <1>1, <2>1, <3>1
  <2>2. CASE j # k
    BY <1>1, <1>3, <2>2 DEF Answered, TypeOK
  <2> QED
    BY <2>1, <2>2
<1>7. Copies' /\ Sharing' /\ Counting' /\ Fresh'
  BY DEF Copies, Sharing, Counting, Fresh, There
<1>8. SuccessHonest' /\ GivenUpLate'
  BY <1>3 DEF SuccessHonest, GivenUpLate
<1> QED
  BY <1>4, <1>5, <1>6, <1>7, <1>8

\* The end of an attempt at d, whatever it does to the row of d: who else holds d shares it.
LEMMA FinishStep ==
  ASSUME IInv, NEW k \in Deliverers, NEW d \in held[k], Finished(k, d),
         cur' = cur, shared' = shared, accepted' = accepted, UNCHANGED source,
         \A x \in Deliveries : x # d => status'[x] = status[x] /\ attempts'[x] = attempts[x],
         status[d] = "deleted" => status'[d] = "deleted",
         status'[d] # "none",
         status'[d] = "pending" => attempts'[d] < MaxAttempts
  PROVE  Holding' /\ Copies' /\ Sharing' /\ Counting' /\ Fresh' /\ Answered'
<1> USE DEF IInv
<1>1. d \in Deliveries /\ status[d] # "none"
  BY DEF TypeOK, Holding
<1>2. /\ pc'[k] \in {"idle", "batch"}
      /\ held'[k] = held[k] \ {d}
      /\ \A x \in Deliveries : x # d => copy'[k][x] = copy[k][x]
      /\ \A j \in Deliverers : j # k => /\ pc'[j] = pc[j] /\ held'[j] = held[j]
                                       /\ copy'[j] = copy[j] /\ reply'[j] = reply[j]
  BY <1>1, Ended
<1>3. \A j \in Deliverers : \A x \in held'[j] : x \in Deliveries /\ x \in held[j] /\ copy'[j][x] = copy[j][x]
  BY <1>2 DEF TypeOK
<1>4. \A j \in Deliverers : d \in held'[j] => j # k /\ d \in shared
  BY <1>2, <1>3 DEF Sharing
<1>5. Holding'
  BY <1>1, <1>2, <1>3 DEF Holding
<1>6. Copies'
  BY <1>3, <1>4 DEF Copies
<1>7. Sharing'
  BY <1>3 DEF Sharing
<1>8. Counting'
  BY <1>1, <1>3 DEF Counting
<1>9. Fresh'
  <2>1. hook' = hook /\ todo' = todo /\ emitted' = emitted
    BY DEF source
  <2>2. \A w \in Hooks, e \in Events : <<w, e>> \in Deliveries
    BY DEF Deliveries
  <2>3. \A w \in Hooks, e \in Events : status[<<w, e>>] = "none" => status'[<<w, e>>] = "none"
    BY <1>1, <2>2
  <2>4. \A x \in Deliveries : ~There(x[1])' => status'[x] \in {"none", "deleted"}
    BY <1>1, <2>1 DEF Fresh, There
  <2> QED
    BY <2>1, <2>3, <2>4 DEF Fresh
<1>10. Answered'
  BY <1>2 DEF Answered
<1> QED
  BY <1>5, <1>6, <1>7, <1>8, <1>9, <1>10

\* The webhook is not found: gone with its deliveries, or on record as unfound.
LEMMA GetWebhookFailsStep ==
  ASSUME IInv, NEW k \in Deliverers, NEW d \in Deliveries, GetWebhookFails(k, d) PROVE IInv'
<1> USE DEF IInv
<1>1. /\ d \in held[k] /\ Finished(k, d) /\ UpdateWebhookDeliveryResult(d, "failed", copy[k][d])
      /\ cur' = cur /\ lost' = lost /\ sent' = sent /\ accepted' = accepted /\ shared' = shared
      /\ UNCHANGED source
  BY DEF GetWebhookFails, traffic
<1>2. copy[k][d] \in 0..MaxAttempts
  BY DEF TypeOK
<1>3. /\ status' \in [Deliveries -> {"none", "pending", "success", "failed", "deleted"}]
      /\ attempts' \in [Deliveries -> 0..MaxAttempts]
      /\ due' \in [Deliveries -> BOOLEAN]
      /\ \A x \in Deliveries : x # d => status'[x] = status[x] /\ attempts'[x] = attempts[x]
      /\ status[d] = "deleted" => status'[d] = "deleted" /\ attempts'[d] = attempts[d]
      /\ status[d] # "deleted" => status'[d] = "failed" /\ attempts'[d] = copy[k][d]
  BY <1>1, <1>2, Updated
<1>4. unfound' \subseteq Deliveries /\ faults' \in Nat /\ unfound \subseteq unfound'
  BY DEF GetWebhookFails, Fault, TypeOK
<1>5. TypeOK'
  <2>1. /\ pc' \in [Deliverers -> {"down", "idle", "batch", "send", "record"}]
        /\ held' \in [Deliverers -> SUBSET Deliveries]
        /\ copy' \in [Deliverers -> [Deliveries -> 0..MaxAttempts]]
        /\ reply' \in [Deliverers -> BOOLEAN]
    BY <1>1, Ended
  <2> QED
    BY <1>1, <1>3, <1>4, <2>1 DEF TypeOK, source
<1>6. Holding' /\ Copies' /\ Sharing' /\ Counting' /\ Fresh' /\ Answered'
  BY <1>1, <1>3, FinishStep
<1>7. SuccessHonest'
  BY <1>1, <1>3 DEF SuccessHonest
<1>8. GivenUpLate'
  <2>1. CASE ~There(d[1])
    <3>1. status[d] = "deleted"
      BY <1>1, <2>1 DEF Fresh, Holding
    <3> QED
      BY <1>3, <1>4, <3>1 DEF GivenUpLate
  <2>2. CASE d \in unfound'
    BY <1>3, <1>4, <2>2 DEF GivenUpLate
  <2> QED
    BY <2>1, <2>2 DEF GetWebhookFails
<1> QED
  BY <1>5, <1>6, <1>7, <1>8

\* The result of an attempt is written.
LEMMA RecordStep == ASSUME IInv, NEW k \in Deliverers, Record(k) PROVE IInv'
<1> DEFINE d == cur[k]
           n == copy[k][d] + 1
           s == Outcome(reply[k], n)
<1> USE DEF IInv
<1>1. /\ pc[k] = "record" /\ Finished(k, d) /\ UpdateWebhookDeliveryResult(d, s, n)
      /\ cur' = cur /\ lost' = lost /\ unfound' = unfound /\ faults' = faults
      /\ sent' = sent /\ accepted' = accepted /\ shared' = shared /\ UNCHANGED source
  BY DEF Record, traffic
<1>2. d \in held[k] /\ d \in Deliveries
  BY <1>1 DEF Holding, TypeOK
<1>3. n \in 0..MaxAttempts
  <2>1. copy[k][d] \in 0..MaxAttempts /\ copy[k][d] < MaxAttempts
    BY <1>2 DEF TypeOK, Counting
  <2> QED
    BY <2>1, WebhooksAssumption
<1>4. /\ s \in {"pending", "success", "failed"}
      /\ s = "pending" => n < MaxAttempts
      /\ s = "failed" => n = MaxAttempts
      /\ s = "success" => reply[k]
  BY <1>3, WebhooksAssumption DEF Outcome
<1> HIDE DEF d, n, s
<1>5. /\ status' \in [Deliveries -> {"none", "pending", "success", "failed", "deleted"}]
      /\ attempts' \in [Deliveries -> 0..MaxAttempts]
      /\ due' \in [Deliveries -> BOOLEAN]
      /\ \A x \in Deliveries : x # d => status'[x] = status[x] /\ attempts'[x] = attempts[x]
      /\ status[d] = "deleted" => status'[d] = "deleted" /\ attempts'[d] = attempts[d]
      /\ status[d] # "deleted" => status'[d] = s /\ attempts'[d] = n
  BY <1>1, <1>2, <1>3, <1>4, Updated
<1>6. TypeOK'
  <2>1. /\ pc' \in [Deliverers -> {"down", "idle", "batch", "send", "record"}]
        /\ held' \in [Deliverers -> SUBSET Deliveries]
        /\ copy' \in [Deliverers -> [Deliveries -> 0..MaxAttempts]]
        /\ reply' \in [Deliverers -> BOOLEAN]
    BY <1>1, <1>2, Ended
  <2> QED
    BY <1>1, <1>5, <2>1 DEF TypeOK, source
<1>7. Holding' /\ Copies' /\ Sharing' /\ Counting' /\ Fresh' /\ Answered'
  <2>1. status'[d] # "none" /\ (status'[d] = "pending" => attempts'[d] < MaxAttempts)
    BY <1>4, <1>5
  <2> QED
    BY <1>1, <1>2, <1>5, <2>1, FinishStep
<1>8. SuccessHonest'
  <2>1. reply[k] => d \in accepted
    BY <1>1 DEF Answered, d
  <2> QED
    BY <1>1, <1>4, <1>5, <2>1 DEF SuccessHonest
<1>9. GivenUpLate'
  BY <1>1, <1>4, <1>5 DEF GivenUpLate
<1> QED
  BY <1>6, <1>7, <1>8, <1>9

\* The result is not written.
LEMMA RecordFailsStep == ASSUME IInv, NEW k \in Deliverers, RecordFails(k) PROVE IInv'
<1> USE DEF IInv, RecordFails, table, traffic
<1>1. cur[k] \in held[k] /\ cur[k] \in Deliveries
  BY DEF Holding, TypeOK
<1>2. TypeOK'
  <2>1. /\ pc' \in [Deliverers -> {"down", "idle", "batch", "send", "record"}]
        /\ held' \in [Deliverers -> SUBSET Deliveries]
        /\ copy' \in [Deliverers -> [Deliveries -> 0..MaxAttempts]]
        /\ reply' \in [Deliverers -> BOOLEAN]
    BY <1>1, Ended
  <2>2. lost' \in [Deliveries -> Nat] /\ faults' \in Nat
    BY <1>1 DEF Fault, TypeOK
  <2> QED
    BY <2>1, <2>2 DEF TypeOK, source
<1>3. /\ status[cur[k]] # "none"
      /\ status[cur[k]] = "pending" => attempts[cur[k]] < MaxAttempts
  BY <1>1 DEF Holding, Counting
<1>4. Holding' /\ Copies' /\ Sharing' /\ Counting' /\ Fresh' /\ Answered'
  BY <1>1, <1>3, FinishStep
<1>5. SuccessHonest' /\ GivenUpLate'
  BY DEF SuccessHonest, GivenUpLate
<1> QED
  BY <1>2, <1>4, <1>5

\* The look-up and the update both fail.
LEMMA FinalizeFailsStep ==
  ASSUME IInv, NEW k \in Deliverers, NEW d \in Deliveries, FinalizeFails(k, d) PROVE IInv'
<1> USE DEF IInv, FinalizeFails, table, traffic
<1>1. TypeOK'
  <2>1. /\ pc' \in [Deliverers -> {"down", "idle", "batch", "send", "record"}]
        /\ held' \in [Deliverers -> SUBSET Deliveries]
        /\ copy' \in [Deliverers -> [Deliveries -> 0..MaxAttempts]]
        /\ reply' \in [Deliverers -> BOOLEAN]
    BY Ended
  <2>2. faults' \in Nat
    BY DEF Fault, TypeOK
  <2> QED
    BY <2>1, <2>2 DEF TypeOK, source
<1>2. status[d] # "none" /\ (status[d] = "pending" => attempts[d] < MaxAttempts)
  BY DEF Holding, Counting
<1>3. Holding' /\ Copies' /\ Sharing' /\ Counting' /\ Fresh' /\ Answered'
  BY <1>2, FinishStep
<1>4. SuccessHonest' /\ GivenUpLate'
  BY DEF SuccessHonest, GivenUpLate
<1> QED
  BY <1>1, <1>3, <1>4

\* A retry falls due.
LEMMA BackoffStep == ASSUME IInv, NEW d \in Deliveries, BackoffOver(d) PROVE IInv'
<1> USE DEF IInv, BackoffOver, source, worker, traffic
<1>1. due' \in [Deliveries -> BOOLEAN]
  BY DEF TypeOK
<1>2. TypeOK'
  BY <1>1 DEF TypeOK
<1>3. Holding' /\ Copies' /\ Sharing' /\ Counting' /\ Fresh' /\ Answered'
  BY DEF Holding, Copies, Sharing, Counting, Fresh, Answered, There
<1>4. SuccessHonest' /\ GivenUpLate'
  BY DEF SuccessHonest, GivenUpLate
<1> QED
  BY <1>2, <1>3, <1>4

\* A replica stops, and forgets what it held, or starts again.
LEMMA StopStep ==
  ASSUME IInv, NEW k \in Deliverers, Stop(k) \/ StartDeliverer(k) PROVE IInv'
<1> USE DEF IInv
<1>1. CASE Stop(k)
  <2> USE <1>1 DEF Stop, table, traffic
  <2>1. [d \in Deliveries |-> 0] \in [Deliveries -> 0..MaxAttempts]
    BY WebhooksAssumption
  <2>2. TypeOK'
    <3>1. copy' \in [Deliverers -> [Deliveries -> 0..MaxAttempts]]
      BY <2>1 DEF TypeOK
    <3>2. reply' \in [Deliverers -> BOOLEAN]
      BY DEF TypeOK
    <3>3. lost' \in [Deliveries -> Nat] /\ faults' \in Nat
      BY DEF TypeOK, Fault
    <3> QED
      BY <3>1, <3>2, <3>3 DEF TypeOK, source
  <2>3. /\ held'[k] = {} /\ pc'[k] = "down"
        /\ \A j \in Deliverers : j # k => /\ held'[j] = held[j] /\ copy'[j] = copy[j]
                                         /\ pc'[j] = pc[j] /\ reply'[j] = reply[j]
    BY DEF TypeOK
  <2>4. Holding' /\ Copies' /\ Sharing' /\ Counting' /\ Answered'
    BY <2>3 DEF Holding, Copies, Sharing, Counting, Answered
  <2>5. Fresh' /\ SuccessHonest' /\ GivenUpLate'
    BY DEF Fresh, There, source, SuccessHonest, GivenUpLate
  <2> QED
    BY <2>2, <2>4, <2>5
<1>2. CASE StartDeliverer(k)
  <2> USE <1>2 DEF StartDeliverer, table, traffic, source
  <2>1. TypeOK'
    BY DEF TypeOK
  <2>2. Holding' /\ Answered'
    BY DEF Holding, Answered, TypeOK
  <2>3. Copies' /\ Sharing' /\ Counting' /\ Fresh' /\ SuccessHonest' /\ GivenUpLate'
    BY DEF Copies, Sharing, Counting, Fresh, There, SuccessHonest, GivenUpLate
  <2> QED
    BY <2>1, <2>2, <2>3
<1> QED
  BY <1>1, <1>2

\* Every step keeps the invariant.
LEMMA StepInv == IInv /\ [Next]_vars => IInv'
<1> SUFFICES ASSUME IInv, [Next]_vars PROVE IInv'
  OBVIOUS
<1>1. ASSUME NEW w \in Hooks,
             \/ \E types \in SUBSET Events : Create(w, types)
             \/ \E enabled \in BOOLEAN : SetEnabled(w, enabled)
             \/ Delete(w)
      PROVE  IInv'
  <2>1. TRUE \in BOOLEAN /\ {} \in SUBSET Events
    OBVIOUS
  <2> QED
    BY <1>1, <2>1, EditStep, DeleteStep
<1>2. ASSUME NEW e \in Events, Enqueue(e) \/ Emission(e) \/ EnqueueStops(e) \/ \E w \in Hooks : Test(e, w)
      PROVE  IInv'
  <2>1. PICK w \in Hooks : TRUE
    BY WebhooksAssumption
  <2> QED
    BY <1>2, <2>1, EnqueueStep, InsertStep, SkipStep DEF Emission
<1>3. ASSUME NEW k \in Deliverers, Deliverer(k) \/ Stop(k) \/ StartDeliverer(k) PROVE IInv'
  BY <1>3, DeliverDueStep, SendStep, RecordStep, RecordFailsStep, GetWebhookStep,
     GetWebhookFailsStep, FinalizeFailsStep, StopStep DEF Deliverer
<1>4. ASSUME UNCHANGED vars PROVE IInv'
  BY <1>4 DEF vars, IInv, TypeOK, Holding, Copies, Sharing, Counting, Fresh, There, Answered,
     SuccessHonest, GivenUpLate
<1> QED
  BY <1>1, <1>2, <1>3, <1>4, BackoffStep DEF Next

\* The inductive invariant: at most one deliverer has a true claim to a delivery that is
\* not on record as shared.
THEOREM Invariant == Spec => []IInv
BY InitInv, StepInv, PTL DEF Spec

\* Types; no row ever counts more attempts than maxDeliveryAttempts.
THEOREM TypeCorrect == Spec => []TypeOK
<1>1. IInv => TypeOK
  BY DEF IInv
<1> QED
  BY <1>1, Invariant, PTL

\* A delivery marked success was accepted by its receiver, whoever wrote the row.
THEOREM SuccessCorrect == Spec => []SuccessHonest
<1>1. IInv => SuccessHonest
  BY DEF IInv
<1> QED
  BY <1>1, Invariant, PTL

\* A delivery is given up after maxDeliveryAttempts attempts or a failed look-up.
THEOREM GivenUpCorrect == Spec => []GivenUpLate
<1>1. IInv => GivenUpLate
  BY DEF IInv
<1> QED
  BY <1>1, Invariant, PTL

\* Who writes a row was the only one to hold it, found it pending and wrote a copy that was
\* up to date, unless the delivery is on record as shared.
LEMMA WriteExact ==
  ASSUME IInv, NEW k \in Deliverers, NEW d \in held[k], d \notin shared
  PROVE  /\ d \in Deliveries
         /\ status[d] = "deleted" \/ (status[d] = "pending" /\ copy[k][d] = attempts[d])
         /\ \A j \in Deliverers : d \in held[j] => j = k
BY DEF IInv, TypeOK, Copies, Sharing

\* One step does not undo the result of an unshared delivery.
LEMMA FinalStep ==
  ASSUME IInv, Next, NEW d \in Deliveries, d \notin shared', status[d] \in {"success", "failed"}
  PROVE  status'[d] \in {status[d], "deleted"}
<1> USE DEF IInv
<1>1. ASSUME NEW w \in Hooks,
             \/ \E types \in SUBSET Events : Create(w, types)
             \/ \E enabled \in BOOLEAN : SetEnabled(w, enabled)
             \/ Delete(w)
      PROVE  status'[d] \in {status[d], "deleted"}
  BY <1>1 DEF Create, SetEnabled, Delete, table
<1>2. ASSUME NEW e \in Events, Enqueue(e) \/ Emission(e) \/ EnqueueStops(e) \/ \E w \in Hooks : Test(e, w)
      PROVE  status'[d] \in {status[d], "deleted"}
  <2>1. ASSUME NEW w \in Hooks, CreateWebhookDelivery(e, w) \/ Test(e, w)
        PROVE  status'[d] = status[d]
    <3>1. status[<<w, e>>] = "none"
      BY <2>1 DEF Fresh, CreateWebhookDelivery, Test
    <3> QED
      BY <2>1, <3>1 DEF TypeOK, CreateWebhookDelivery, Test
  <2>2. ASSUME NEW w \in Hooks, Enqueue(e) \/ CreateWebhookDeliveryFails(e, w) \/ EnqueueStops(e)
        PROVE  status'[d] = status[d]
    BY <2>2 DEF Enqueue, CreateWebhookDeliveryFails, EnqueueStops, table
  <2>3. PICK w \in Hooks : TRUE
    BY WebhooksAssumption
  <2> QED
    BY <1>2, <2>1, <2>2, <2>3 DEF Emission
<1>3. ASSUME NEW k \in Deliverers, Deliverer(k) \/ Stop(k) \/ StartDeliverer(k)
      PROVE  status'[d] \in {status[d], "deleted"}
  <2>1. ASSUME NEW x \in held[k], NEW s, NEW n, UpdateWebhookDeliveryResult(x, s, n), shared' = shared
        PROVE  status'[d] = status[d]
    <3>1. CASE x = d
      <4>1. status[d] = "deleted" \/ status[d] = "pending"
        BY <2>1, <3>1, WriteExact
      <4> QED
        BY <4>1
    <3>2. CASE x # d
      BY <2>1, <3>2 DEF UpdateWebhookDeliveryResult, TypeOK
    <3> QED
      BY <3>1, <3>2
  <2>2. ASSUME NEW x \in Deliveries, GetWebhookFails(k, x) PROVE status'[d] = status[d]
    BY <2>1, <2>2 DEF GetWebhookFails, traffic
  <2>3. ASSUME Record(k) PROVE status'[d] = status[d]
    <3>1. cur[k] \in held[k]
      BY <2>3 DEF Record, Holding
    <3> QED
      BY <2>1, <2>3, <3>1 DEF Record, traffic
  <2>4. ASSUME NEW x \in Deliveries,
               \/ DeliverDue(k) \/ Send(k) \/ RecordFails(k) \/ GetWebhook(k, x) \/ FinalizeFails(k, x)
               \/ Stop(k) \/ StartDeliverer(k)
        PROVE  status'[d] = status[d]
    BY <2>4 DEF DeliverDue, Send, RecordFails, GetWebhook, FinalizeFails, Stop, StartDeliverer, table
  <2> QED
    BY <1>3, <2>2, <2>3, <2>4 DEF Deliverer
<1>4. ASSUME NEW x \in Deliveries, BackoffOver(x) PROVE status'[d] = status[d]
  BY <1>4 DEF BackoffOver
<1> QED
  BY <1>1, <1>2, <1>3, <1>4 DEF Next

\* A success or failure is final unless two deliverers held the delivery at the same time.
THEOREM ResultCorrect == Spec => ResultFinal
<1>1. IInv /\ [Next]_vars =>
        [\A d \in Deliveries \ shared' :
           status[d] \in {"success", "failed"} => status'[d] \in {status[d], "deleted"}]_vars
  BY FinalStep
<1> QED
  BY <1>1, Invariant, PTL DEF Spec, ResultFinal

\* A step that neither sends nor records keeps the account of the deliveries it leaves alone.
LEMMA AccountKept ==
  ASSUME SendsCounted, shared \subseteq shared', sent' = sent, lost' = lost,
         \A j \in Deliverers : (pc'[j] = "record") = (pc[j] = "record"),
         \A j \in Deliverers : pc[j] = "record" => cur'[j] = cur[j],
         \A d \in Deliveries \ shared' :
           status'[d] # "deleted" => status[d] # "deleted" /\ attempts'[d] = attempts[d]
  PROVE  SendsCounted'
<1> SUFFICES ASSUME NEW d \in Deliveries \ shared', status'[d] # "deleted"
             PROVE  sent'[d] = attempts'[d] + lost'[d] + Cardinality(InFlight(d)')
  BY DEF SendsCounted
<1>1. InFlight(d)' = InFlight(d)
  BY DEF InFlight
<1> QED
  BY <1>1 DEF SendsCounted

\* The requests of an unshared delivery that are under way: at most one.
LEMMA Alone ==
  ASSUME IInv, NEW k \in Deliverers, cur[k] \in held[k], cur[k] \notin shared
  PROVE  /\ pc[k] = "record" => Cardinality(InFlight(cur[k])) = 1
         /\ pc[k] # "record" => Cardinality(InFlight(cur[k])) = 0
         /\ \A j \in Deliverers : pc[j] = "record" /\ cur[j] = cur[k] => j = k
<1>1. \A j \in Deliverers : pc[j] = "record" /\ cur[j] = cur[k] => j = k
  BY DEF IInv, Holding, Sharing
<1>2. pc[k] = "record" => InFlight(cur[k]) = {k}
  BY <1>1 DEF InFlight
<1>3. pc[k] # "record" => InFlight(cur[k]) = {}
  BY <1>1 DEF InFlight
<1> QED
  BY <1>1, <1>2, <1>3, FS_EmptySet, FS_Singleton

\* The request of k ends, and is entered with the attempts of the row or with the lost ones.
LEMMA AccountMoved ==
  ASSUME IInv, SendsCounted, NEW k \in Deliverers, pc[k] = "record",
         sent' = sent, shared' = shared, cur' = cur, pc'[k] # "record",
         \A j \in Deliverers : j # k => pc'[j] = pc[j],
         \A d \in Deliveries : d # cur[k] =>
           attempts'[d] = attempts[d] /\ lost'[d] = lost[d] /\ (status'[d] = status[d]),
         cur[k] \in shared \/ status'[cur[k]] = "deleted"
           \/ (/\ status[cur[k]] # "deleted"
               /\ attempts'[cur[k]] + lost'[cur[k]] = attempts[cur[k]] + lost[cur[k]] + 1)
  PROVE  SendsCounted'
<1> SUFFICES ASSUME NEW d \in Deliveries \ shared, status'[d] # "deleted"
             PROVE  sent[d] = attempts'[d] + lost'[d] + Cardinality(InFlight(d)')
  BY DEF SendsCounted
<1>1. CASE d = cur[k]
  <2>1. cur[k] \in held[k]
    BY DEF IInv, Holding
  <2>2. Cardinality(InFlight(d)) = 1 /\ \A j \in Deliverers : pc[j] = "record" /\ cur[j] = d => j = k
    BY <1>1, <2>1, Alone
  <2>3. InFlight(d)' = {}
    BY <2>2 DEF InFlight
  <2>4. sent[d] = attempts[d] + lost[d] + 1
    BY <1>1, <2>2 DEF SendsCounted
  <2>5. Cardinality({}) = 0
    BY FS_EmptySet
  <2>6. /\ attempts[d] \in Nat /\ lost[d] \in Nat
    BY DEF IInv, TypeOK
  <2> QED
    BY <1>1, <2>3, <2>4, <2>5, <2>6
<1>2. CASE d # cur[k]
  <2>1. InFlight(d)' = InFlight(d)
    BY <1>2 DEF InFlight
  <2> QED
    BY <1>2, <2>1 DEF SendsCounted
<1> QED
  BY <1>1, <1>2

\* Every step keeps the account.
LEMMA AccountStep == IInv /\ SendsCounted /\ [Next]_vars => SendsCounted'
<1> SUFFICES ASSUME IInv, SendsCounted, [Next]_vars PROVE SendsCounted'
  OBVIOUS
<1> USE DEF IInv
<1>1. ASSUME NEW w \in Hooks, NEW types \in SUBSET Events, NEW enabled \in BOOLEAN,
             Create(w, types) \/ SetEnabled(w, enabled) \/ Delete(w)
      PROVE  SendsCounted'
  BY <1>1, AccountKept DEF Create, SetEnabled, Delete, table, worker, traffic
<1>2. ASSUME NEW e \in Events, NEW w \in Hooks,
             \/ Enqueue(e) \/ EnqueueStops(e) \/ CreateWebhookDeliveryFails(e, w)
      PROVE  SendsCounted'
  BY <1>2, AccountKept DEF Enqueue, EnqueueStops, CreateWebhookDeliveryFails, table, worker, traffic
<1>3. ASSUME NEW e \in Events, NEW w \in Hooks, CreateWebhookDelivery(e, w) \/ Test(e, w)
      PROVE  SendsCounted'
  <2>1. status[<<w, e>>] = "none"
    BY <1>3 DEF Fresh, CreateWebhookDelivery, Test
  <2>2. \A d \in Deliveries : status'[d] # "deleted" => status[d] # "deleted"
    BY <1>3, <2>1 DEF TypeOK, CreateWebhookDelivery, Test
  <2> QED
    BY <1>3, <2>2, AccountKept DEF CreateWebhookDelivery, Test, worker, traffic
<1>4. ASSUME NEW k \in Deliverers, NEW x \in Deliveries,
             DeliverDue(k) \/ GetWebhook(k, x) \/ StartDeliverer(k)
      PROVE  SendsCounted'
  <2>1. \A j \in Deliverers : (pc'[j] = "record") = (pc[j] = "record")
    BY <1>4 DEF TypeOK, DeliverDue, GetWebhook, StartDeliverer
  <2>2. \A j \in Deliverers : pc[j] = "record" => cur'[j] = cur[j]
    BY <1>4 DEF TypeOK, DeliverDue, GetWebhook, StartDeliverer
  <2>3. /\ status' = status /\ attempts' = attempts /\ sent' = sent /\ lost' = lost
        /\ shared \subseteq shared'
    BY <1>4 DEF DeliverDue, GetWebhook, StartDeliverer, table, traffic
  <2> QED
    BY <2>1, <2>2, <2>3, AccountKept
<1>5. ASSUME NEW k \in Deliverers, NEW x \in Deliveries, FinalizeFails(k, x) PROVE SendsCounted'
  <2>1. /\ Finished(k, x) /\ pc[k] = "batch" /\ cur' = cur /\ lost' = lost /\ sent' = sent
        /\ shared' = shared /\ status' = status /\ attempts' = attempts
    BY <1>5 DEF FinalizeFails, table, traffic
  <2>2. pc'[k] \in {"idle", "batch"} /\ \A j \in Deliverers : j # k => pc'[j] = pc[j]
    BY <2>1, Ended
  <2> QED
    BY <2>1, <2>2, AccountKept
<1>6. ASSUME NEW k \in Deliverers, NEW x \in Deliveries, GetWebhookFails(k, x) PROVE SendsCounted'
  <2>1. /\ x \in held[k] /\ UpdateWebhookDeliveryResult(x, "failed", copy[k][x]) /\ Finished(k, x)
        /\ cur' = cur /\ lost' = lost /\ sent' = sent /\ shared' = shared /\ pc[k] = "batch"
    BY <1>6 DEF GetWebhookFails, traffic
  <2>2. copy[k][x] \in 0..MaxAttempts
    BY DEF TypeOK
  <2>3. /\ \A d \in Deliveries : d # x => status'[d] = status[d] /\ attempts'[d] = attempts[d]
        /\ status[x] = "deleted" => status'[x] = "deleted"
        /\ status[x] # "deleted" => attempts'[x] = copy[k][x]
    BY <2>1, <2>2, Updated
  <2>4. x \notin shared /\ status[x] # "deleted" => copy[k][x] = attempts[x]
    BY <2>1, WriteExact
  <2>5. pc'[k] \in {"idle", "batch"} /\ \A j \in Deliverers : j # k => pc'[j] = pc[j]
    BY <2>1, Ended
  <2> QED
    BY <2>1, <2>3, <2>4, <2>5, AccountKept
<1>7. ASSUME NEW k \in Deliverers, Send(k) PROVE SendsCounted'
  <2> SUFFICES ASSUME NEW d \in Deliveries \ shared, status[d] # "deleted"
               PROVE  sent'[d] = attempts[d] + lost[d] + Cardinality(InFlight(d)')
    BY <1>7 DEF SendsCounted, Send, table
  <2>1. pc[k] = "send" /\ cur' = cur /\ cur[k] \in held[k] /\ cur[k] \in Deliveries
    BY <1>7 DEF Send, Holding, TypeOK
  <2>2. pc'[k] = "record" /\ \A j \in Deliverers : j # k => pc'[j] = pc[j]
    BY <1>7 DEF Send, TypeOK
  <2>3. sent[d] = attempts[d] + lost[d] + Cardinality(InFlight(d))
    BY DEF SendsCounted
  <2>4. CASE d = cur[k]
    <3>1. Cardinality(InFlight(d)) = 0 /\ \A j \in Deliverers : pc[j] = "record" /\ cur[j] = d => j = k
      BY <2>1, <2>4, Alone
    <3>2. InFlight(d)' = {k}
      BY <2>1, <2>2, <2>4, <3>1 DEF InFlight
    <3>3. Cardinality({k}) = 1
      BY FS_Singleton
    <3>4. sent'[d] = sent[d] + 1
      BY <1>7, <2>1, <2>4 DEF Send, TypeOK
    <3>5. attempts[d] \in Nat /\ lost[d] \in Nat
      BY DEF TypeOK
    <3> QED
      BY <2>3, <3>1, <3>2, <3>3, <3>4, <3>5
  <2>5. CASE d # cur[k]
    <3>1. InFlight(d)' = InFlight(d)
      BY <2>1, <2>2, <2>5 DEF InFlight
    <3>2. sent'[d] = sent[d]
      BY <1>7, <2>1, <2>5 DEF Send, TypeOK
    <3> QED
      BY <2>3, <3>1, <3>2
  <2> QED
    BY <2>4, <2>5
<1>8. ASSUME NEW k \in Deliverers, Record(k) PROVE SendsCounted'
  <2> DEFINE d == cur[k]
             n == copy[k][d] + 1
             s == Outcome(reply[k], n)
  <2>1. /\ pc[k] = "record" /\ Finished(k, d) /\ UpdateWebhookDeliveryResult(d, s, n)
        /\ cur' = cur /\ lost' = lost /\ sent' = sent /\ shared' = shared
    BY <1>8 DEF Record, traffic
  <2>2. d \in held[k] /\ d \in Deliveries
    BY <2>1 DEF Holding, TypeOK
  <2>3. n \in 0..MaxAttempts
    <3>1. copy[k][d] \in 0..MaxAttempts /\ copy[k][d] < MaxAttempts
      BY <2>2 DEF TypeOK, Counting
    <3> QED
      BY <3>1, WebhooksAssumption
  <2>4. s \in {"pending", "success", "failed"}
    BY DEF Outcome
  <2>5. d \notin shared /\ status[d] # "deleted" => copy[k][d] = attempts[d]
    BY <2>2, WriteExact
  <2>6. attempts[d] \in Nat /\ lost[d] \in Nat
    BY <2>2 DEF TypeOK
  <2> HIDE DEF s
  <2>7. /\ \A x \in Deliveries : x # d => status'[x] = status[x] /\ attempts'[x] = attempts[x]
        /\ status[d] = "deleted" => status'[d] = "deleted"
        /\ status[d] # "deleted" => attempts'[d] = n
    BY <2>1, <2>2, <2>3, <2>4, Updated
  <2>8. pc'[k] # "record" /\ \A j \in Deliverers : j # k => pc'[j] = pc[j]
    BY <2>1, <2>2, Ended
  <2>9. cur[k] \in shared \/ status'[cur[k]] = "deleted"
          \/ (/\ status[cur[k]] # "deleted"
              /\ attempts'[cur[k]] + lost'[cur[k]] = attempts[cur[k]] + lost[cur[k]] + 1)
    <3>1. CASE d \in shared \/ status[d] = "deleted"
      BY <2>7, <3>1
    <3>2. CASE d \notin shared /\ status[d] # "deleted"
      <4>1. attempts'[d] = attempts[d] + 1 /\ lost'[d] = lost[d]
        BY <2>1, <2>5, <2>7, <3>2
      <4> QED
        BY <2>6, <3>2, <4>1
    <3> QED
      BY <3>1, <3>2
  <2>10. \A x \in Deliveries : x # cur[k] =>
           attempts'[x] = attempts[x] /\ lost'[x] = lost[x] /\ (status'[x] = status[x])
    BY <2>1, <2>7
  <2> QED
    BY <2>1, <2>8, <2>9, <2>10, AccountMoved
<1>9. ASSUME NEW k \in Deliverers, RecordFails(k) PROVE SendsCounted'
  <2>1. /\ pc[k] = "record" /\ Finished(k, cur[k]) /\ lost' = [lost EXCEPT ![cur[k]] = @ + 1]
        /\ cur' = cur /\ sent' = sent /\ shared' = shared /\ status' = status /\ attempts' = attempts
    BY <1>9 DEF RecordFails, table, traffic
  <2>2. cur[k] \in Deliveries
    BY DEF TypeOK
  <2>3. pc'[k] # "record" /\ \A j \in Deliverers : j # k => pc'[j] = pc[j]
    BY <2>1, <2>2, Ended
  <2>4. /\ \A d \in Deliveries : d # cur[k] => lost'[d] = lost[d]
        /\ attempts[cur[k]] + lost'[cur[k]] = attempts[cur[k]] + lost[cur[k]] + 1
    BY <2>1, <2>2 DEF TypeOK
  <2> QED
    BY <2>1, <2>3, <2>4, AccountMoved
<1>10. ASSUME NEW k \in Deliverers, Stop(k) PROVE SendsCounted'
  <2>1. /\ cur' = cur /\ sent' = sent /\ shared' = shared /\ status' = status /\ attempts' = attempts
        /\ pc'[k] = "down" /\ \A j \in Deliverers : j # k => pc'[j] = pc[j]
    BY <1>10 DEF Stop, table, traffic, TypeOK
  <2>2. CASE pc[k] = "record"
    <3>1. lost' = [lost EXCEPT ![cur[k]] = @ + 1] /\ cur[k] \in Deliveries
      BY <1>10, <2>2 DEF Stop, TypeOK
    <3>2. /\ \A d \in Deliveries : d # cur[k] => lost'[d] = lost[d]
          /\ attempts[cur[k]] + lost'[cur[k]] = attempts[cur[k]] + lost[cur[k]] + 1
      BY <3>1 DEF TypeOK
    <3> QED
      BY <2>1, <2>2, <3>2, AccountMoved
  <2>3. CASE pc[k] # "record"
    <3>1. lost' = lost
      BY <1>10, <2>3 DEF Stop
    <3> QED
      BY <2>1, <2>3, <3>1, AccountKept
  <2> QED
    BY <2>2, <2>3
<1>11. ASSUME UNCHANGED vars PROVE SendsCounted'
  BY <1>11, AccountKept DEF vars
<1>12. PICK w0 \in Hooks, e0 \in Events : TRUE
  BY WebhooksAssumption
<1>13. <<w0, e0>> \in Deliveries /\ TRUE \in BOOLEAN /\ {} \in SUBSET Events
  BY DEF Deliveries
<1>14. ASSUME NEW w \in Hooks,
              \/ \E types \in SUBSET Events : Create(w, types)
              \/ \E enabled \in BOOLEAN : SetEnabled(w, enabled)
              \/ Delete(w)
       PROVE  SendsCounted'
  BY <1>1, <1>13, <1>14
<1>15. ASSUME NEW e \in Events, Enqueue(e) \/ Emission(e) \/ EnqueueStops(e) \/ \E w \in Hooks : Test(e, w)
       PROVE  SendsCounted'
  BY <1>2, <1>3, <1>12, <1>15 DEF Emission
<1>16. ASSUME NEW k \in Deliverers, Deliverer(k) \/ Stop(k) \/ StartDeliverer(k) PROVE SendsCounted'
  BY <1>4, <1>6, <1>7, <1>8, <1>9, <1>10, <1>13, <1>16, <1>5 DEF Deliverer
<1>17. ASSUME NEW x \in Deliveries, BackoffOver(x) PROVE SendsCounted'
  <2>1. x \in Deliveries /\ UNCHANGED worker /\ UNCHANGED traffic /\ lost' = lost
        /\ status' = status /\ attempts' = attempts
    BY <1>17 DEF BackoffOver
  <2> QED
    BY <2>1, AccountKept DEF worker, traffic
<1> QED
  BY <1>11, <1>14, <1>15, <1>16, <1>17 DEF Next

\* Every request to a receiver is one of the attempts of the row or one whose result was
\* not written, unless two deliverers held the delivery at the same time.
THEOREM SendsCorrect == Spec => []SendsCounted
<1>1. Init => SendsCounted
  <2> SUFFICES ASSUME Init, NEW d \in Deliveries
               PROVE  sent[d] = attempts[d] + lost[d] + Cardinality(InFlight(d))
    BY DEF SendsCounted
  <2>1. InFlight(d) = {}
    BY DEF Init, InFlight
  <2>2. Cardinality({}) = 0
    BY FS_EmptySet
  <2> QED
    BY <2>1, <2>2 DEF Init
<1> QED
  BY <1>1, Invariant, AccountStep, PTL DEF Spec
=============================================================================
