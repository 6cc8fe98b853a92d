----------------------- MODULE DeliveryPipelineProofs -----------------------
(***************************************************************************)
(* Proofs about DeliveryPipeline, for every number of deliveries, workers, *)
(* rules and tokens, every lease length and backoff, and every bound.      *)
(***************************************************************************)
EXTENDS DeliveryPipeline, TLAPS

USE DEF outboxVars, quotaVars, workerVars, ghostVars

-----------------------------------------------------------------------------
(* Type correctness.                                                       *)

LEMMA InitType == Init => TypeOK
  BY QuotaAssumption
  DEF Init, OutboxInit, QuotaInit, TypeOK, OutboxTypeOK, QuotaTypeOK, Status,
      Waiting, Settled, Letter, Step, Outcome, Excuse, LeaseHeld

LEMMA TimeLeftNat == ASSUME NEW n \in Nat PROVE TimeLeft(n) \in Nat
  BY DEF TimeLeft

\* A worker that is not idle works on a delivery.
LEMMA BusyHasJob ==
  ASSUME TypeOK, LeaseInv, NEW w \in Worker, pc[w] # "idle"
  PROVE  job[w] \in Delivery /\ token[w] \in Token
  BY DEF TypeOK, LeaseInv

\* The delay that complete adds is a duration.
LEMMA DelayNat == ASSUME NEW n \in Nat PROVE Delay(n) \in Nat
  <1>1. (IF n = 0 THEN 1 ELSE IF n > BackoffSteps THEN BackoffSteps ELSE n)
          \in 1 .. BackoffSteps
    BY BackoffAssumption
  <1> QED BY <1>1, BackoffAssumption DEF Delay

-----------------------------------------------------------------------------
(* Leases, and the types, which say who has one.                           *)

\* Claims give out tokens that nobody has, so leases stay unambiguous.
LEMMA NextLease == TypeOK /\ LeaseInv /\ [Next]_vars => LeaseInv'
  <1> SUFFICES ASSUME TypeOK, LeaseInv, [Next]_vars PROVE LeaseInv'
    OBVIOUS
  <1> USE DEF TypeOK, OutboxTypeOK, LeaseInv, LeaseHeld
  <1>0. ASSUME NEW w \in Worker, job[w] \in Delivery, Release(w),
               \/ UNCHANGED <<status, leaseToken>>
               \/ \E s \in Waiting \cup Settled :
                    /\ status' = [status EXCEPT ![job[w]] = s]
                    /\ leaseToken' = [leaseToken EXCEPT ![job[w]] = NoToken]
        PROVE  LeaseInv'
    <2>1. /\ pc' = [pc EXCEPT ![w] = "idle"]
          /\ job' = [job EXCEPT ![w] = NoDelivery]
          /\ token' = [token EXCEPT ![w] = NoToken]
      BY <1>0 DEF Release
    <2>2. \A d \in Delivery :
            /\ status'[d] = "sending" <=> leaseToken'[d] # NoToken
            /\ status[d] # "absent" => status'[d] # "absent"
      BY <1>0 DEF Waiting, Settled
    <2> QED BY <2>1, <2>2
  <1>1. ASSUME NEW d \in Delivery, Produce(d) PROVE LeaseInv'
    BY <1>1 DEF Produce, Enqueue
  <1>2. ASSUME NEW d \in Delivery, Reopen(d) PROVE LeaseInv'
    BY <1>2 DEF Reopen, RetryDead, ClearLease
  <1>3. ASSUME NEW w \in Worker, WorkerClaim(w) PROVE LeaseInv'
    <2>0. PICK e \in Delivery, k \in Token :
          /\ k \notin TokensInUse
          /\ Claim(Serves[w], e, k)
          /\ pc' = [pc EXCEPT ![w] = "claimed"]
          /\ job' = [job EXCEPT ![w] = e]
          /\ token' = [token EXCEPT ![w] = k]
      BY <1>3 DEF WorkerClaim
    <2>1. \A v \in Worker : token[v] # k
      BY <2>0 DEF TokensInUse
    <2>2. k # NoToken /\ e # NoDelivery
      BY TokenAssumption, WorkerAssumption
    <2> QED BY <2>0, <2>1, <2>2 DEF Claim
  <1>4. ASSUME NEW w \in Worker, WorkerReserve(w) PROVE LeaseInv'
    <2>1. pc[w] = "claimed" /\ pc' \in {[pc EXCEPT ![w] = "reserved"],
                                       [pc EXCEPT ![w] = "denied"]}
      BY <1>4 DEF WorkerReserve
    <2>2. UNCHANGED <<status, leaseToken, job, token>>
      BY <1>4 DEF WorkerReserve
    <2> QED BY <2>1, <2>2
  <1>5. ASSUME NEW w \in Worker, WorkerDefer(w) PROVE LeaseInv'
    <2>1. job[w] \in Delivery
      BY <1>5, BusyHasJob DEF WorkerDefer
    <2>2. Release(w) /\ "quota_wait" \in Waiting
      BY <1>5 DEF WorkerDefer, Waiting
    <2> QED BY <1>0, <1>5, <2>1, <2>2 DEF WorkerDefer, DeferForQuota, ClearLease
  <1>6. ASSUME NEW w \in Worker, WorkerSend(w) PROVE LeaseInv'
    <2>1. pc[w] = "reserved" /\ pc' = [pc EXCEPT ![w] = "answered"]
      BY <1>6 DEF WorkerSend
    <2>2. UNCHANGED <<status, leaseToken, job, token>>
      BY <1>6 DEF WorkerSend
    <2> QED BY <2>1, <2>2
  <1>7. ASSUME NEW w \in Worker, WorkerComplete(w) PROVE LeaseInv'
    <2>1. job[w] \in Delivery
      BY <1>7, BusyHasJob DEF WorkerComplete
    <2>2. /\ Release(w)
          /\ {"sent", "dead", "retry_wait"} \subseteq Waiting \cup Settled
      BY <1>7 DEF WorkerComplete, Waiting, Settled
    <2> QED
      BY <1>0, <1>7, <2>1, <2>2
      DEF WorkerComplete, Complete, CompleteSent, CompleteRetry, CompleteDead,
          ClearLease
  <1>8. ASSUME NEW w \in Worker, WorkerAbandon(w) PROVE LeaseInv'
    BY <1>8 DEF WorkerAbandon, Release
  <1>9. CASE Tick
    BY <1>9 DEF Tick, OutboxTick
  <1>10. CASE UNCHANGED vars
    BY <1>10 DEF vars
  <1> QED
    BY <1>1, <1>2, <1>3, <1>4, <1>5, <1>6, <1>7, <1>8, <1>9, <1>10
    DEF Next, WorkerStep

\* Every step keeps the types.
LEMMA NextType == TypeOK /\ LeaseInv /\ [Next]_vars => TypeOK'
  <1> SUFFICES ASSUME TypeOK, LeaseInv, [Next]_vars PROVE TypeOK'
    OBVIOUS
  <1>0. LeaseHeld'
    BY NextLease DEF LeaseInv
  <1> USE <1>0 DEF TypeOK, OutboxTypeOK, QuotaTypeOK, Status, Waiting, Settled,
              Letter, Step, Outcome, Excuse
  <1>1. ASSUME NEW d \in Delivery, Produce(d) PROVE TypeOK'
    BY <1>1 DEF Produce, Enqueue
  <1>2. ASSUME NEW d \in Delivery, Reopen(d) PROVE TypeOK'
    BY <1>2 DEF Reopen, RetryDead, ClearLease
  <1>3. ASSUME NEW w \in Worker, WorkerClaim(w) PROVE TypeOK'
    BY <1>3, LeaseAssumption DEF WorkerClaim, Claim
  <1>4. ASSUME NEW w \in Worker, WorkerReserve(w) PROVE TypeOK'
    <2>1. job[w] \in Message
      BY <1>4, BusyHasJob, WorkerAssumption DEF WorkerReserve
    <2>2. CASE ReserveAllowed(job[w], ended[w]) /\ UNCHANGED until
      <3>1. \A r \in Rule : ScopeOf[r][job[w]] \in Scope
        BY <2>1, QuotaAssumption
      <3>2. used' \in [Rule -> [Scope -> Nat]]
        BY <2>2, <3>1 DEF ReserveAllowed
      <3> QED BY <1>4, <2>2, <3>2 DEF WorkerReserve, ReserveAllowed
    <2>3. ASSUME NEW t \in {0} \cup {windowLeft[r] : r \in Rule},
                 ReserveDenied(job[w], ended[w], t),
                 pc' = [pc EXCEPT ![w] = "denied"],
                 until' = [until EXCEPT ![w] = t]
          PROVE  TypeOK'
      <3>1. t \in Nat
        OBVIOUS
      <3> QED BY <1>4, <2>3, <3>1 DEF WorkerReserve, ReserveDenied
    <2> QED BY <1>4, <2>2, <2>3 DEF WorkerReserve
  <1>5. ASSUME NEW w \in Worker, WorkerDefer(w) PROVE TypeOK'
    <2>1. job[w] \in Delivery
          /\ (IF attempts[job[w]] = 0 THEN 0 ELSE attempts[job[w]] - 1) \in Nat
      BY <1>5, BusyHasJob DEF WorkerDefer
    <2>2. CASE DeferForQuota(job[w], token[w], until[w])
      BY <1>5, <2>1, <2>2 DEF WorkerDefer, DeferForQuota, ClearLease, Release
    <2>3. CASE UNCHANGED outboxVars
      BY <1>5, <2>3 DEF WorkerDefer, Release
    <2> QED BY <1>5, <2>2, <2>3 DEF WorkerDefer
  <1>6. ASSUME NEW w \in Worker, WorkerSend(w) PROVE TypeOK'
    BY <1>6, BusyHasJob DEF WorkerSend
  <1>7. ASSUME NEW w \in Worker, WorkerComplete(w) PROVE TypeOK'
    <2>1. Lateness(w) \subseteq Nat
      BY BoundAssumption DEF Lateness
    <2>2. attempts[job[w]] \in Nat /\ Delay(attempts[job[w]]) \in Nat
      BY <1>7, BusyHasJob, DelayNat DEF WorkerComplete
    <2>3. ASSUME NEW late \in Lateness(w),
                 Complete(job[w], token[w], outcome[w], late)
          PROVE  OutboxTypeOK'
      <3> DEFINE delay == Delay(attempts[job[w]])
      <3>1. (IF delay > late THEN delay - late ELSE 0) \in Nat
        BY <2>1, <2>2
      <3>2. job[w] \in Delivery
        BY <1>7, BusyHasJob DEF WorkerComplete
      <3>3. dueIn' \in [Delivery -> Nat]
        BY <2>3, <3>1, <3>2
        DEF Complete, CompleteSent, CompleteRetry, CompleteDead
      <3>4. status' \in [Delivery -> Status] /\ deadLetter' \in [Delivery -> Letter]
        BY <2>3 DEF Complete, CompleteSent, CompleteRetry, CompleteDead
      <3> QED
        BY <2>3, <3>3, <3>4 DEF Complete, ClearLease
    <2>4. OutboxTypeOK'
      BY <1>7, <2>3 DEF WorkerComplete
    <2> QED BY <1>7, <2>4 DEF WorkerComplete, Release
  <1>8. ASSUME NEW w \in Worker, WorkerAbandon(w) PROVE TypeOK'
    BY <1>8 DEF WorkerAbandon, Release
  <1>9. CASE Tick
    <2>1. OutboxTypeOK'
      BY <1>9, TimeLeftNat DEF Tick, OutboxTick
    <2>2. windowLeft' \in [Rule -> Nat \ {0}]
      <3>1. ASSUME NEW r \in Rule
            PROVE  (IF windowLeft[r] = 1 THEN Length[r] ELSE windowLeft[r] - 1)
                      \in Nat \ {0}
        <4>1. windowLeft[r] \in Nat \ {0} /\ Length[r] \in Nat \ {0}
          BY QuotaAssumption
        <4> QED BY <4>1
      <3> QED BY <1>9, <3>1 DEF Tick, QuotaTick
    <2>3. used' \in [Rule -> [Scope -> Nat]]
      BY <1>9 DEF Tick, QuotaTick
    <2>4. until' \in [Worker -> Nat]
      BY <1>9, TimeLeftNat DEF Tick
    <2>5. ended' \in [Worker -> SUBSET Rule]
      BY <1>9 DEF Tick, Ending
    <2> QED BY <1>9, <2>1, <2>2, <2>3, <2>4, <2>5 DEF Tick
  <1>10. CASE UNCHANGED vars
    BY <1>10 DEF vars
  <1> QED
    BY <1>1, <1>2, <1>3, <1>4, <1>5, <1>6, <1>7, <1>8, <1>9, <1>10
    DEF Next, WorkerStep

-----------------------------------------------------------------------------
(* Attempts, dead letters and quotas.                                      *)

LEMMA NextRetry ==
  TypeOK /\ LeaseInv /\ RetryInv /\ [Next]_vars => RetryInv'
  <1> SUFFICES ASSUME TypeOK, LeaseInv, RetryInv, [Next]_vars PROVE RetryInv'
    OBVIOUS
  <1> USE AttemptsAssumption
      DEF TypeOK, OutboxTypeOK, RetryInv, Waiting
  <1>1. ASSUME NEW d \in Delivery, Produce(d) PROVE RetryInv'
    BY <1>1 DEF Produce, Enqueue
  <1>2. ASSUME NEW d \in Delivery, Reopen(d) PROVE RetryInv'
    BY <1>2 DEF Reopen, RetryDead, ClearLease
  <1>3. ASSUME NEW w \in Worker, WorkerClaim(w) PROVE RetryInv'
    BY <1>3 DEF WorkerClaim, Claim, DueFor, Due
  <1>4. ASSUME NEW w \in Worker, WorkerReserve(w) PROVE RetryInv'
    BY <1>4 DEF WorkerReserve
  <1>5. ASSUME NEW w \in Worker, WorkerDefer(w) PROVE RetryInv'
    BY <1>5, BusyHasJob
    DEF WorkerDefer, DeferForQuota, ClearLease
  <1>6. ASSUME NEW w \in Worker, WorkerSend(w) PROVE RetryInv'
    BY <1>6 DEF WorkerSend
  <1>7. ASSUME NEW w \in Worker, WorkerComplete(w) PROVE RetryInv'
    BY <1>7, BusyHasJob
    DEF WorkerComplete, Complete, CompleteSent, CompleteRetry, CompleteDead,
        RetryAllowed
  <1>8. ASSUME NEW w \in Worker, WorkerAbandon(w) PROVE RetryInv'
    BY <1>8 DEF WorkerAbandon
  <1>9. CASE Tick
    BY <1>9 DEF Tick, OutboxTick
  <1>10. CASE UNCHANGED vars
    BY <1>10 DEF vars
  <1> QED
    BY <1>1, <1>2, <1>3, <1>4, <1>5, <1>6, <1>7, <1>8, <1>9, <1>10
    DEF Next, WorkerStep

LEMMA NextDead ==
  TypeOK /\ LeaseInv /\ DeadInv /\ [Next]_vars => DeadInv'
  <1> SUFFICES ASSUME TypeOK, LeaseInv, DeadInv, [Next]_vars
               PROVE  DeadInv'
    OBVIOUS
  <1> USE DEF TypeOK, OutboxTypeOK, DeadInv, DeadLettersMatch
  <1>1. ASSUME NEW d \in Delivery, Produce(d) \/ Reopen(d)
        PROVE  DeadInv'
    BY <1>1 DEF Produce, Enqueue, Reopen, RetryDead
  <1>2. ASSUME NEW w \in Worker, WorkerClaim(w) PROVE DeadInv'
    BY <1>2 DEF WorkerClaim, Claim, DueFor, Due, Waiting
  <1>3. ASSUME NEW w \in Worker, WorkerDefer(w) PROVE DeadInv'
    BY <1>3, BusyHasJob DEF WorkerDefer, DeferForQuota, Owns
  <1>4. ASSUME NEW w \in Worker, WorkerComplete(w) PROVE DeadInv'
    BY <1>4, BusyHasJob
    DEF WorkerComplete, Complete, CompleteSent, CompleteRetry, CompleteDead,
        Owns
  <1>5. ASSUME NEW w \in Worker,
               WorkerReserve(w) \/ WorkerSend(w) \/ WorkerAbandon(w)
        PROVE  DeadInv'
    BY <1>5 DEF WorkerReserve, WorkerSend, WorkerAbandon
  <1>6. CASE Tick \/ UNCHANGED vars
    BY <1>6 DEF Tick, OutboxTick, vars
  <1> QED BY <1>1, <1>2, <1>3, <1>4, <1>5, <1>6 DEF Next, WorkerStep

\* A window is charged only when it has room, and starts empty.
LEMMA NextLimits ==
  TypeOK /\ LeaseInv /\ WithinLimits /\ [Next]_vars => WithinLimits'
  <1> SUFFICES ASSUME TypeOK, LeaseInv, WithinLimits, [Next]_vars
               PROVE  WithinLimits'
    OBVIOUS
  <1> USE DEF TypeOK, QuotaTypeOK, WithinLimits
  <1>1. ASSUME NEW w \in Worker, WorkerReserve(w) PROVE WithinLimits'
    <2>1. CASE ReserveAllowed(job[w], ended[w])
      <3> SUFFICES ASSUME NEW r \in Rule, NEW s \in Scope
                   PROVE  used'[r][s] <= Limit[r]
        OBVIOUS
      <3>1. used[r] \in [Scope -> Nat] /\ Limit[r] \in Nat
        BY QuotaAssumption
      <3>2. CASE r \in ended[w]
        BY <2>1, <3>2 DEF ReserveAllowed
      <3>3. CASE r \notin ended[w]
        <4>1. used'[r] = [used[r] EXCEPT ![ScopeOf[r][job[w]]] = @ + 1]
          BY <2>1, <3>3 DEF ReserveAllowed
        <4>2. ~(used[r][ScopeOf[r][job[w]]] >= Limit[r])
          BY <2>1, <3>3 DEF ReserveAllowed, Blocking
        <4> QED BY <3>1, <4>1, <4>2
      <3> QED BY <3>2, <3>3
    <2>2. CASE UNCHANGED quotaVars
      BY <2>2
    <2> QED BY <1>1, <2>1, <2>2 DEF WorkerReserve, ReserveDenied
  <1>2. CASE Tick
    <2> SUFFICES ASSUME NEW r \in Rule, NEW s \in Scope
                 PROVE  used'[r][s] <= Limit[r]
      OBVIOUS
    <2>1. used'[r][s] = 0 \/ used'[r][s] = used[r][s]
      BY <1>2 DEF Tick, QuotaTick
    <2>2. Limit[r] \in Nat
      BY QuotaAssumption
    <2> QED BY <2>1, <2>2
  <1>3. CASE UNCHANGED quotaVars
    BY <1>3
  <1> QED
    BY <1>1, <1>2, <1>3
    DEF Next, WorkerStep, Produce, Reopen, WorkerClaim, WorkerDefer, WorkerSend,
        WorkerComplete, WorkerAbandon, vars

-----------------------------------------------------------------------------
(* What the provider has taken.                                            *)

LEMMA NextAccept ==
  TypeOK /\ LeaseInv /\ AcceptInv /\ [Next]_vars => AcceptInv'
  <1> SUFFICES ASSUME TypeOK, LeaseInv, AcceptInv, [Next]_vars
               PROVE  AcceptInv'
    OBVIOUS
  <1> USE DEF TypeOK, OutboxTypeOK, AcceptInv, SentWasAccepted
  <1>1. ASSUME NEW d \in Delivery, Produce(d) PROVE AcceptInv'
    BY <1>1 DEF Produce, Enqueue
  <1>2. ASSUME NEW d \in Delivery, Reopen(d) PROVE AcceptInv'
    BY <1>2 DEF Reopen, RetryDead
  <1>3. ASSUME NEW w \in Worker, WorkerClaim(w) PROVE AcceptInv'
    BY <1>3 DEF WorkerClaim, Claim
  <1>4. ASSUME NEW w \in Worker, WorkerReserve(w) PROVE AcceptInv'
    BY <1>4 DEF WorkerReserve
  <1>5. ASSUME NEW w \in Worker, WorkerDefer(w) PROVE AcceptInv'
    BY <1>5, BusyHasJob DEF WorkerDefer, DeferForQuota, Release
  <1>6. ASSUME NEW w \in Worker, WorkerSend(w) PROVE AcceptInv'
    <2> PICK o \in Outcome, n \in {0, 1} :
          /\ o = "ok" => n = 1
          /\ outcome' = [outcome EXCEPT ![w] = o]
          /\ accepted' = [accepted EXCEPT ![job[w]] = @ + n]
      BY <1>6 DEF WorkerSend
    <2>1. job[w] \in Delivery /\ status[job[w]] # "absent" /\ o # "none"
      BY <1>6, BusyHasJob DEF WorkerSend, LeaseInv, Outcome
    <2>2. \A d \in Delivery : accepted'[d] >= accepted[d]
      BY <2>1
    <2>3. (\A v \in Worker : /\ pc[v] = "answered" <=> outcome[v] # "none"
                            /\ outcome[v] = "ok" => accepted[job[v]] >= 1)'
      <3> SUFFICES ASSUME NEW v \in Worker
                   PROVE  /\ pc'[v] = "answered" <=> outcome'[v] # "none"
                          /\ outcome'[v] = "ok" => accepted'[job[v]] >= 1
        BY <1>6 DEF WorkerSend
      <3>1. CASE v = w
        BY <1>6, <2>1, <3>1 DEF WorkerSend
      <3>2. CASE v # w
        <4>1. pc'[v] = pc[v] /\ outcome'[v] = outcome[v]
          BY <1>6, <3>2 DEF WorkerSend
        <4>2. outcome[v] = "ok" => job[v] \in Delivery
          BY BusyHasJob
        <4> QED BY <2>2, <4>1, <4>2
      <3> QED BY <3>1, <3>2
    <2> QED BY <1>6, <2>1, <2>2, <2>3 DEF WorkerSend
  <1>7. ASSUME NEW w \in Worker, WorkerComplete(w) PROVE AcceptInv'
    BY <1>7, BusyHasJob
    DEF WorkerComplete, Complete, CompleteSent, CompleteRetry, CompleteDead,
        Release
  <1>8. ASSUME NEW w \in Worker, WorkerAbandon(w) PROVE AcceptInv'
    BY <1>8 DEF WorkerAbandon, Release
  <1>9. CASE Tick
    BY <1>9 DEF Tick, OutboxTick
  <1>10. CASE UNCHANGED vars
    BY <1>10 DEF vars
  <1> QED
    BY <1>1, <1>2, <1>3, <1>4, <1>5, <1>6, <1>7, <1>8, <1>9, <1>10
    DEF Next, WorkerStep

-----------------------------------------------------------------------------
(* At most once.                                                           *)

\* What a claim takes.
LEMMA ClaimTakes ==
  ASSUME NEW x \in Worker, WorkerClaim(x)
  PROVE  \E e \in Delivery, k \in Token :
           /\ Claim(Serves[x], e, k)
           /\ pc' = [pc EXCEPT ![x] = "claimed"]
           /\ job' = [job EXCEPT ![x] = e]
           /\ token' = [token EXCEPT ![x] = k]
           /\ excuse' = [excuse EXCEPT ![e] =
                IF status[e] = "sending" THEN @ \cup {"lapsed"} ELSE @]
  BY DEF WorkerClaim

\* Two workers on a delivery that nothing excuses would both hold its lease.
LEMMA AloneOnJob ==
  ASSUME TypeOK, LeaseInv, DuplicateInv,
         NEW e \in Delivery, excuse[e] = {},
         NEW x \in Worker, NEW y \in Worker, job[x] = e, job[y] = e
  PROVE  x = y
  <1>1. Owns(e, token[x]) /\ Owns(e, token[y])
    BY DEF DuplicateInv
  <1>2. token[x] = token[y] /\ token[x] # NoToken
    BY <1>1 DEF Owns, LeaseInv, LeaseHeld
  <1> QED BY <1>2 DEF LeaseInv

LEMMA NextDuplicate ==
  TypeOK /\ LeaseInv /\ AcceptInv /\ DuplicateInv /\ [Next]_vars
    => DuplicateInv'
  <1> SUFFICES ASSUME TypeOK, LeaseInv, AcceptInv, DuplicateInv, [Next]_vars
               PROVE  DuplicateInv'
    OBVIOUS
  <1> USE DEF TypeOK, OutboxTypeOK, LeaseHeld, DuplicateInv, Owns
  <1>1. ASSUME NEW e \in Delivery, Produce(e) PROVE DuplicateInv'
    <2>1. accepted[e] = 0 /\ status[e] = "absent"
      BY <1>1 DEF Produce, Enqueue, AcceptInv
    <2>2. excuse[e] = {} => \A y \in Worker : job[y] # e
      BY <2>1
    <2>3. \A f \in Delivery : f # e => status'[f] = status[f]
      BY <1>1 DEF Produce, Enqueue
    <2>4. UNCHANGED <<leaseToken, pc, job, token, outcome, accepted, excuse>>
      BY <1>1 DEF Produce, Enqueue
    <2> QED BY <2>1, <2>2, <2>3, <2>4
  <1>2. ASSUME NEW e \in Delivery, Reopen(e) PROVE DuplicateInv'
    <2>1. excuse'[e] # {}
      <3>1. "reopened" \in excuse'[e]
        BY <1>2 DEF Reopen
      <3> QED BY <3>1
    <2>2. \A f \in Delivery : f # e =>
            /\ status'[f] = status[f] /\ leaseToken'[f] = leaseToken[f]
            /\ excuse'[f] = excuse[f]
      BY <1>2 DEF Reopen, RetryDead, ClearLease
    <2>3. UNCHANGED <<pc, job, token, outcome, accepted>>
      BY <1>2 DEF Reopen
    <2> QED BY <2>1, <2>2, <2>3
  <1>3. ASSUME NEW x \in Worker, WorkerClaim(x) PROVE DuplicateInv'
    <2>1. PICK e \in Delivery, k \in Token :
          /\ Claim(Serves[x], e, k)
          /\ pc' = [pc EXCEPT ![x] = "claimed"]
          /\ job' = [job EXCEPT ![x] = e]
          /\ token' = [token EXCEPT ![x] = k]
          /\ excuse' = [excuse EXCEPT ![e] =
               IF status[e] = "sending" THEN @ \cup {"lapsed"} ELSE @]
      BY <1>3, ClaimTakes
    <2>2. UNCHANGED <<outcome, accepted>> /\ pc[x] = "idle"
      BY <1>3 DEF WorkerClaim
    <2>3. ASSUME excuse'[e] = {}
          PROVE  /\ excuse[e] = {} /\ status[e] \in Waiting
                 /\ accepted[e] = 0
                 /\ \A y \in Worker : job[y] # e
      <3>1. excuse'[e] =
              IF status[e] = "sending" THEN excuse[e] \cup {"lapsed"}
                                       ELSE excuse[e]
        BY <2>1
      <3>2. excuse[e] = {} /\ status[e] # "sending"
        BY <2>3, <3>1
      <3>3. status[e] \in Waiting
        BY <2>1, <3>2 DEF Claim, DueFor, Due
      <3>4. status[e] # "sent"
        BY <3>3 DEF Waiting
      <3> QED BY <3>2, <3>3, <3>4
    <2>4. job[x] = NoDelivery
      BY <2>2 DEF LeaseInv
    <2> QED BY <2>1, <2>2, <2>3, <2>4 DEF Claim
  <1>4. ASSUME NEW x \in Worker, WorkerReserve(x) PROVE DuplicateInv'
    BY <1>4 DEF WorkerReserve
  <1>5. ASSUME NEW x \in Worker, WorkerDefer(x) PROVE DuplicateInv'
    <2>1. job[x] \in Delivery
      BY <1>5, BusyHasJob DEF WorkerDefer
    <2>2. excuse[job[x]] = {} =>
            \A y \in Worker : job[y] = job[x] => y = x
      BY <2>1, AloneOnJob
    <2>3. excuse[job[x]] = {} => accepted[job[x]] = 0
      BY <1>5, <2>1 DEF WorkerDefer
    <2> QED
      BY <1>5, <2>1, <2>2, <2>3, WorkerAssumption
      DEF WorkerDefer, DeferForQuota, ClearLease, Release
  <1>6. ASSUME NEW x \in Worker, WorkerSend(x) PROVE DuplicateInv'
    <2>1. job[x] \in Delivery
      BY <1>6, BusyHasJob DEF WorkerSend
    <2>2. excuse[job[x]] = {} =>
            \A y \in Worker : job[y] = job[x] => y = x
      BY <2>1, AloneOnJob
    <2>3. excuse[job[x]] = {} => accepted[job[x]] = 0
      BY <1>6, <2>1 DEF WorkerSend
    <2>4. PICK o \in Outcome, n \in {0, 1} :
          /\ o = "ok" => n = 1
          /\ outcome' = [outcome EXCEPT ![x] = o]
          /\ accepted' = [accepted EXCEPT ![job[x]] = @ + n]
          /\ excuse' = [excuse EXCEPT ![job[x]] =
               IF n = 1 /\ o # "ok" THEN @ \cup {"ambiguous"} ELSE @]
      BY <1>6 DEF WorkerSend
    <2>5. /\ UNCHANGED <<status, leaseToken, job, token>>
          /\ pc' = [pc EXCEPT ![x] = "answered"]
      BY <1>6 DEF WorkerSend
    <2>6. ASSUME NEW e \in Delivery, excuse'[e] = {}, e = job[x]
          PROVE  /\ excuse[e] = {} /\ (n = 1 => o = "ok")
                 /\ accepted'[e] = n /\ status[e] = "sending"
      <3>1. excuse'[e] =
              IF n = 1 /\ o # "ok" THEN excuse[e] \cup {"ambiguous"}
                                   ELSE excuse[e]
        BY <2>4, <2>6
      <3>2. excuse[e] = {} /\ (n = 1 => o = "ok")
        <4> HIDE DEF TypeOK
        <4> QED BY <2>6, <3>1
      <3> QED BY <2>1, <2>3, <2>4, <2>6, <3>2
    <2>7. ASSUME NEW e \in Delivery, e # job[x]
          PROVE  excuse'[e] = excuse[e] /\ accepted'[e] = accepted[e]
      BY <2>4, <2>7
    <2>8. \A y \in Worker : y # x => pc'[y] = pc[y] /\ outcome'[y] = outcome[y]
      BY <2>4, <2>5
    <2>9. pc'[x] = "answered" /\ outcome'[x] = o
      BY <2>4, <2>5
    <2> QED BY <2>1, <2>2, <2>5, <2>6, <2>7, <2>8, <2>9
  <1>7. ASSUME NEW x \in Worker, WorkerComplete(x) PROVE DuplicateInv'
    <2>1. job[x] \in Delivery
      BY <1>7, BusyHasJob DEF WorkerComplete
    <2>2. excuse[job[x]] = {} =>
            \A y \in Worker : job[y] = job[x] => y = x
      BY <2>1, AloneOnJob
    <2>3. excuse[job[x]] = {} => accepted[job[x]] = 0 \/ outcome[x] = "ok"
      BY <1>7, <2>1 DEF WorkerComplete
    <2> QED
      BY <1>7, <2>1, <2>2, <2>3, WorkerAssumption
      DEF WorkerComplete, Complete, CompleteSent, CompleteRetry, CompleteDead,
          RetryAllowed, ClearLease, Release
  <1>8. ASSUME NEW x \in Worker, WorkerAbandon(x) PROVE DuplicateInv'
    BY <1>8, WorkerAssumption DEF WorkerAbandon, Release
  <1>9. CASE Tick
    BY <1>9 DEF Tick, OutboxTick
  <1>10. CASE UNCHANGED vars
    BY <1>10 DEF vars
  <1> QED
    BY <1>1, <1>2, <1>3, <1>4, <1>5, <1>6, <1>7, <1>8, <1>9, <1>10
    DEF Next, WorkerStep

-----------------------------------------------------------------------------
(* The theorems.                                                           *)

LEMMA InitInd == Init => IndInv
  <1> SUFFICES ASSUME Init PROVE IndInv
    OBVIOUS
  <1>1. TypeOK
    BY InitType
  <1>2. LeaseInv /\ DuplicateInv /\ AcceptInv /\ DeadInv
    BY WorkerAssumption
    DEF Init, OutboxInit, LeaseInv, LeaseHeld, DuplicateInv, AcceptInv, SentWasAccepted,
        DeadInv, DeadLettersMatch
  <1>3. RetryInv
    BY AttemptsAssumption DEF Init, OutboxInit, RetryInv, Waiting
  <1>4. WithinLimits
    BY QuotaAssumption DEF Init, QuotaInit, WithinLimits
  <1> QED BY <1>1, <1>2, <1>3, <1>4 DEF IndInv

LEMMA NextInd == IndInv /\ [Next]_vars => IndInv'
  BY NextType, NextLease, NextDuplicate, NextAccept, NextRetry, NextDead,
     NextLimits
  DEF IndInv

\* Every reachable state of the outbound path satisfies the whole inductive
\* invariant.
THEOREM Invariance == Spec => []IndInv
  <1>1. Init => IndInv
    BY InitInd
  <1>2. IndInv /\ [Next]_vars => IndInv'
    BY NextInd
  <1> QED BY <1>1, <1>2, PTL DEF Spec

\* The rows, the quota counters and the workers keep their types.
THEOREM TypeCorrect == Spec => []TypeOK
  <1>1. IndInv => TypeOK
    BY DEF IndInv
  <1> QED BY <1>1, Invariance, PTL

\* However many workers drain the outbox, the provider takes a message at most
\* once unless a lease was taken over, an answer was lost or the operator
\* reopened the delivery.
THEOREM NoDuplicates == Spec => []AtMostOnce
  <1>1. IndInv => AtMostOnce
    BY DEF IndInv, DuplicateInv, AtMostOnce
  <1> QED BY <1>1, Invariance, PTL

\* A row is marked sent only when the provider took its message.
THEOREM SentIsTrue == Spec => []SentWasAccepted
  <1>1. IndInv => SentWasAccepted
    BY DEF IndInv, AcceptInv
  <1> QED BY <1>1, Invariance, PTL

\* Open dead letters and dead deliveries are the same.
THEOREM DeadLettersTrue == Spec => []DeadLettersMatch
  <1>1. IndInv => DeadLettersMatch
    BY DEF IndInv, DeadInv
  <1> QED BY <1>1, Invariance, PTL

\* Only takeovers of lapsed leases exceed max_attempts.
THEOREM RetriesStayBounded == Spec => []RetriesBounded
  <1>1. IndInv => RetriesBounded
    BY DEF IndInv, RetryInv, RetriesBounded
  <1> QED BY <1>1, Invariance, PTL

\* No quota window is charged beyond its limit.
THEOREM QuotasHold == Spec => []WithinLimits
  <1>1. IndInv => WithinLimits
    BY DEF IndInv
  <1> QED BY <1>1, Invariance, PTL

-----------------------------------------------------------------------------
(* Finality and the contract.                                              *)

\* A sent or dead delivery changes only when retry_dead reopens it.
THEOREM Finality == Spec => SettledIsFinal
  <1>1. IndInv /\ [Next]_vars =>
          [\A d \in Delivery :
             status[d] \in Settled => status'[d] = status[d] \/ Reopen(d)]_vars
    <2> SUFFICES ASSUME IndInv, Next, NEW e \in Delivery,
                        status[e] \in Settled, ~Reopen(e)
                 PROVE  status'[e] = status[e]
      OBVIOUS
    <2> USE DEF IndInv, TypeOK, OutboxTypeOK, Settled
    <2>1. ASSUME NEW f \in Delivery, Produce(f) \/ (f # e /\ Reopen(f))
          PROVE  status'[e] = status[e]
      BY <2>1 DEF Produce, Enqueue, Reopen, RetryDead
    <2>2. ASSUME NEW x \in Worker, WorkerClaim(x)
          PROVE  status'[e] = status[e]
      BY <2>2 DEF WorkerClaim, Claim, DueFor, Due, Waiting
    <2>3. ASSUME NEW x \in Worker, WorkerDefer(x) \/ WorkerComplete(x)
          PROVE  status'[e] = status[e]
      BY <2>3
      DEF WorkerDefer, DeferForQuota, WorkerComplete, Complete, CompleteSent,
          CompleteRetry, CompleteDead, Owns
    <2>4. ASSUME NEW x \in Worker,
                 WorkerReserve(x) \/ WorkerSend(x) \/ WorkerAbandon(x)
          PROVE  status'[e] = status[e]
      BY <2>4 DEF WorkerReserve, WorkerSend, WorkerAbandon
    <2>5. CASE Tick
      BY <2>5 DEF Tick, OutboxTick
    <2> QED BY <2>1, <2>2, <2>3, <2>4, <2>5 DEF Next, WorkerStep
  <1> QED BY <1>1, Invariance, PTL DEF Spec, SettledIsFinal

LEMMA PhaseValues ==
  /\ PhaseOf("absent") = "absent" /\ PhaseOf("sending") = "leased"
  /\ PhaseOf("sent") = "sent" /\ PhaseOf("dead") = "dead"
  /\ \A s \in Waiting : PhaseOf(s) = "queued"
  BY DEF PhaseOf, Waiting

LEMMA ContractInit == Init => Contract!Init
  BY PhaseValues
  DEF Init, OutboxInit, Contract!Init, phaseNow, lapsedNow, takenNow

\* A step that leaves the rows and the provider alone is invisible.
LEMMA Invisible ==
  UNCHANGED <<status, leaseToken, leaseLeft, accepted>>
    => UNCHANGED Contract!contractVars
  BY DEF Contract!contractVars, phaseNow, lapsedNow, takenNow

\* Changing the status of one delivery changes its phase, and only its phase.
LEMMA PhaseUpdate ==
  ASSUME TypeOK, NEW e \in Delivery, NEW s \in Status,
         status' = [status EXCEPT ![e] = s]
  PROVE  phaseNow' = [phaseNow EXCEPT ![e] = PhaseOf(s)]
  BY DEF TypeOK, OutboxTypeOK, phaseNow

\* A lease that ends, or begins, has not lapsed.
LEMMA LapsedUpdate ==
  ASSUME TypeOK, NEW e \in Delivery, NEW s \in Status, NEW n \in Nat,
         status' = [status EXCEPT ![e] = s],
         leaseLeft' = [leaseLeft EXCEPT ![e] = n],
         s # "sending" \/ n # 0
  PROVE  lapsedNow' = lapsedNow \ {e}
  BY DEF TypeOK, OutboxTypeOK, lapsedNow

LEMMA ContractNext ==
  IndInv /\ [Next]_vars => [Contract!Next]_(Contract!contractVars)
  <1> SUFFICES ASSUME IndInv, [Next]_vars
               PROVE  Contract!Next \/ UNCHANGED Contract!contractVars
    OBVIOUS
  <1> USE DEF IndInv, Status, Waiting, Settled
  <1>1. ASSUME NEW e \in Delivery, Produce(e) PROVE Contract!Submit(e)
    <2>1. status[e] = "absent" /\ status' = [status EXCEPT ![e] = "pending"]
      BY <1>1 DEF Produce, Enqueue
    <2>2. phaseNow[e] = "absent" /\ phaseNow' = [phaseNow EXCEPT ![e] = "queued"]
      <3>1. phaseNow[e] = "absent"
        BY <2>1, PhaseValues DEF phaseNow
      <3>2. "pending" \in Status /\ PhaseOf("pending") = "queued"
        BY PhaseValues
      <3>3. phaseNow' = [phaseNow EXCEPT ![e] = PhaseOf("pending")]
        BY <2>1, <3>2, PhaseUpdate
      <3> QED BY <3>1, <3>2, <3>3
    <2>3. UNCHANGED <<leaseToken, lapsedNow, takenNow>>
      BY <1>1
      DEF Produce, Enqueue, lapsedNow, takenNow, TypeOK, OutboxTypeOK
    <2> QED BY <2>2, <2>3 DEF Contract!Submit
  <1>2. ASSUME NEW e \in Delivery, Reopen(e) PROVE Contract!Reopen(e)
    <2>1. /\ status' = [status EXCEPT ![e] = "pending"]
          /\ leaseToken' = [leaseToken EXCEPT ![e] = NoToken]
          /\ leaseLeft' = [leaseLeft EXCEPT ![e] = 0]
          /\ UNCHANGED accepted
      BY <1>2 DEF Reopen, RetryDead, ClearLease
    <2>2. status[e] # "absent"
      BY <1>2 DEF Reopen, RetryDead, DeadInv
    <2> QED
      BY <2>1, <2>2, PhaseValues, PhaseUpdate, LapsedUpdate
      DEF Contract!Reopen, phaseNow, takenNow, TypeOK, OutboxTypeOK
  <1>3. ASSUME NEW x \in Worker, WorkerClaim(x)
        PROVE  \E e \in Delivery, k \in Token : Contract!Grant(e, k)
    <2>1. PICK e \in Delivery, k \in Token :
            k \notin TokensInUse /\ Claim(Serves[x], e, k)
      BY <1>3 DEF WorkerClaim
    <2>2. /\ status' = [status EXCEPT ![e] = "sending"]
          /\ leaseToken' = [leaseToken EXCEPT ![e] = k]
          /\ leaseLeft' = [leaseLeft EXCEPT ![e] = LeaseFor]
          /\ UNCHANGED accepted
      BY <1>3, <2>1 DEF Claim, WorkerClaim
    <2>3. phaseNow[e] = "queued" \/ e \in lapsedNow
      BY <2>1, PhaseValues DEF Claim, DueFor, Due, phaseNow, lapsedNow
    <2>4. k # leaseToken[e]
      BY <2>1 DEF TokensInUse
    <2>5. phaseNow' = [phaseNow EXCEPT ![e] = "leased"]
      BY <2>2, PhaseValues, PhaseUpdate
    <2>6. lapsedNow' = lapsedNow \ {e} /\ UNCHANGED takenNow
      BY <2>2, LapsedUpdate, LeaseAssumption DEF takenNow
    <2> QED BY <2>2, <2>3, <2>4, <2>5, <2>6 DEF Contract!Grant
  <1>4. ASSUME NEW x \in Worker, WorkerReserve(x)
        PROVE  UNCHANGED Contract!contractVars
    BY <1>4, Invisible DEF WorkerReserve
  <1>5. ASSUME NEW e \in Delivery, NEW s \in Status \ {"absent", "sending"},
               status[e] = "sending",
               s = "sent" => accepted[e] > 0,
               status' = [status EXCEPT ![e] = s], ClearLease(e),
               UNCHANGED accepted
        PROVE  \E p \in {"queued", "sent", "dead"} : Contract!Report(e, p)
    <2>1. PhaseOf(s) \in {"queued", "sent", "dead"} /\ (PhaseOf(s) = "sent" => s = "sent")
      BY PhaseValues
    <2>2. phaseNow[e] = "leased" /\ phaseNow' = [phaseNow EXCEPT ![e] = PhaseOf(s)]
      BY <1>5, PhaseValues, PhaseUpdate DEF phaseNow
    <2>3. lapsedNow' = lapsedNow \ {e}
      BY <1>5, LapsedUpdate DEF ClearLease
    <2>4. UNCHANGED takenNow /\ (PhaseOf(s) = "sent" => e \in takenNow)
      BY <1>5, <2>1 DEF takenNow
    <2>5. leaseToken' = [leaseToken EXCEPT ![e] = NoToken]
      BY <1>5 DEF ClearLease
    <2>6. Contract!Report(e, PhaseOf(s))
      BY <2>2, <2>3, <2>4, <2>5 DEF Contract!Report
    <2> QED BY <2>1, <2>6
  <1>6. ASSUME NEW x \in Worker, WorkerDefer(x)
        PROVE  Contract!Next \/ UNCHANGED Contract!contractVars
    <2>1. job[x] \in Delivery /\ UNCHANGED accepted
      BY <1>6, BusyHasJob DEF WorkerDefer
    <2>2. CASE DeferForQuota(job[x], token[x], until[x])
      <3>1. /\ status[job[x]] = "sending"
            /\ status' = [status EXCEPT ![job[x]] = "quota_wait"]
            /\ ClearLease(job[x])
        BY <2>2 DEF DeferForQuota, Owns
      <3> QED BY <1>5, <2>1, <3>1 DEF Contract!Next
    <2>3. CASE UNCHANGED outboxVars
      BY <2>1, <2>3, Invisible
    <2> QED BY <1>6, <2>2, <2>3 DEF WorkerDefer
  <1>7. ASSUME NEW x \in Worker, WorkerSend(x)
        PROVE  Contract!Take(job[x]) \/ UNCHANGED Contract!contractVars
    <2>1. job[x] \in Delivery /\ status[job[x]] # "absent"
      BY <1>7, BusyHasJob DEF WorkerSend, LeaseInv
    <2>2. phaseNow[job[x]] # "absent"
      BY <2>1, PhaseValues DEF phaseNow, TypeOK, OutboxTypeOK
    <2>3. PICK n \in {0, 1} : accepted' = [accepted EXCEPT ![job[x]] = @ + n]
      BY <1>7 DEF WorkerSend
    <2>4. UNCHANGED <<phaseNow, leaseToken, lapsedNow>>
      BY <1>7 DEF WorkerSend, phaseNow, lapsedNow
    <2>5. CASE n = 0
      <3>1. UNCHANGED takenNow
        BY <2>3, <2>5 DEF takenNow, TypeOK
      <3> QED BY <2>4, <3>1 DEF Contract!contractVars
    <2>6. CASE n = 1
      <3>1. takenNow' = takenNow \cup {job[x]}
        BY <2>1, <2>3, <2>6 DEF takenNow, TypeOK
      <3> QED BY <2>2, <2>4, <3>1 DEF Contract!Take
    <2> QED BY <2>5, <2>6
  <1>8. ASSUME NEW x \in Worker, WorkerComplete(x)
        PROVE  Contract!Next \/ UNCHANGED Contract!contractVars
    <2>1. job[x] \in Delivery /\ UNCHANGED accepted
      BY <1>8, BusyHasJob DEF WorkerComplete
    <2>2. outcome[x] = "ok" => accepted[job[x]] > 0
      BY <2>1 DEF AcceptInv, TypeOK
    <2>3. ASSUME NEW late \in Lateness(x),
                 Complete(job[x], token[x], outcome[x], late)
          PROVE  Contract!Next
      <3>1. status[job[x]] = "sending" /\ ClearLease(job[x])
        BY <2>3 DEF Complete, Owns
      <3>2. \E s \in {"sent", "retry_wait", "dead"} :
              /\ s = "sent" => outcome[x] = "ok"
              /\ status' = [status EXCEPT ![job[x]] = s]
        BY <2>3 DEF Complete, CompleteSent, CompleteRetry, CompleteDead
      <3> QED BY <1>5, <2>1, <2>2, <3>1, <3>2 DEF Contract!Next
    <2>4. CASE UNCHANGED outboxVars
      BY <2>1, <2>4, Invisible
    <2> QED BY <1>8, <2>3, <2>4 DEF WorkerComplete
  <1>9. ASSUME NEW x \in Worker, WorkerAbandon(x)
        PROVE  UNCHANGED Contract!contractVars
    BY <1>9, Invisible DEF WorkerAbandon
  <1>10. CASE Tick
    <2> DEFINE D == {e \in Delivery : status[e] = "sending" /\ leaseLeft'[e] = 0}
    <2>1. UNCHANGED <<phaseNow, leaseToken, takenNow>>
      BY <1>10 DEF Tick, OutboxTick, phaseNow, takenNow
    <2>2. lapsedNow' = lapsedNow \cup D
      BY <1>10 DEF Tick, OutboxTick, lapsedNow, TimeLeft, TypeOK, OutboxTypeOK
    <2>3. \A e \in D : phaseNow[e] = "leased"
      BY PhaseValues DEF phaseNow
    <2>4. Contract!Lapse(D)
      BY <2>1, <2>2, <2>3 DEF Contract!Lapse
    <2>5. D \in SUBSET Delivery
      OBVIOUS
    <2> QED BY <2>4, <2>5 DEF Contract!Next
  <1>11. CASE UNCHANGED vars
    BY <1>11, Invisible DEF vars
  <1>12. CASE \E e \in Delivery : Produce(e) \/ Reopen(e)
    BY <1>1, <1>2, <1>12 DEF Contract!Next
  <1>13. CASE \E x \in Worker : WorkerStep(x) \/ WorkerAbandon(x)
    <2> PICK x \in Worker : WorkerStep(x) \/ WorkerAbandon(x)
      BY <1>13
    <2>1. CASE WorkerClaim(x)
      BY <1>3, <2>1 DEF Contract!Next
    <2>2. CASE WorkerSend(x)
      <3>1. job[x] \in Delivery
        BY <2>2, BusyHasJob DEF WorkerSend
      <3> QED BY <1>7, <2>2, <3>1 DEF Contract!Next
    <2> QED BY <1>4, <1>6, <1>8, <1>9, <2>1, <2>2 DEF WorkerStep
  <1> QED BY <1>10, <1>11, <1>12, <1>13 DEF Next

\* The whole outbound path implements the contract it offers to producers and
\* operators.
THEOREM Refinement == Spec => KeepsContract
  <1> QED
    BY ContractInit, ContractNext, Invariance, PTL
    DEF Spec, KeepsContract, Contract!Spec

=============================================================================
