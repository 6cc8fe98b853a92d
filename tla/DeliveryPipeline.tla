-------------------------- MODULE DeliveryPipeline --------------------------
(***************************************************************************)
(* The outbound path: the outbox and the quotas together with the workers  *)
(* that drain the one and are paced by the other.  A worker is             *)
(*   - a channel process (runtime/channel_qq.py, runtime/outbound.py) that *)
(*     claims and completes through the broker in                          *)
(*     adapters/web/internal_channel.py, or                                *)
(*   - a DeliveryWorker (delivery/worker.py) inside one process.           *)
(* Both claim a row, reserve quota for it, hand it to the channel provider *)
(* and report the outcome, each of these in a transaction of its own, so   *)
(* workers interleave between them, leases lapse between them, and a       *)
(* worker may disappear between them.                                      *)
(*                                                                         *)
(* The provider is external: it either takes a message or does not, and    *)
(* the caller learns which only when an answer arrives.                    *)
(***************************************************************************)
EXTENDS Outbox, Quota

CONSTANTS
  Worker,      \* the concurrent users of the outbox
  InProcess,   \* the workers that are a DeliveryWorker
  Serves,      \* the channel accounts a worker claims for
  NoDelivery,  \* the job of an idle worker
  MaxLate,     \* bound: how old a DeliveryWorker's clock reading gets
  MaxFaults,   \* bound: abandoned claims, leases outrun by their holder and
               \* windows that end between a claim and its reservation
  MaxReopens   \* bound: retry_dead calls

ASSUME WorkerAssumption ==
  /\ InProcess \subseteq Worker
  /\ Serves \in [Worker -> SUBSET Account]
  /\ NoDelivery \notin Delivery
  /\ Delivery \subseteq Message
ASSUME BoundAssumption ==
  MaxLate \in Nat /\ MaxFaults \in Nat /\ MaxReopens \in Nat

VARIABLES
  pc,        \* where a worker stands
  job,       \* the delivery it has claimed
  token,     \* the lease token it was given
  outcome,   \* the provider's answer it has yet to report
  ended,     \* the windows that ended since it read the clock for its claim
  until,     \* time left until next_available_at of a denied reservation
  accepted,  \* how often the provider took the message
  excuse,    \* why the provider may have been asked for a delivery again
  faults, reopens  \* how much of the bounds is used up

workerVars == <<pc, job, token, outcome, ended, until>>
ghostVars  == <<accepted, excuse, faults, reopens>>
vars == <<outboxVars, quotaVars, workerVars, ghostVars>>

Step   == {"idle", "claimed", "denied", "reserved", "answered"}
Excuse == {"lapsed", "ambiguous", "reopened"}

TypeOK ==
  /\ OutboxTypeOK /\ LeaseHeld
  /\ QuotaTypeOK
  /\ pc \in [Worker -> Step]
  /\ job \in [Worker -> Delivery \cup {NoDelivery}]
  /\ token \in [Worker -> Token \cup {NoToken}]
  /\ outcome \in [Worker -> Outcome \cup {"none"}]
  /\ ended \in [Worker -> SUBSET Rule]
  /\ until \in [Worker -> Nat]
  /\ accepted \in [Delivery -> Nat]
  /\ excuse \in [Delivery -> SUBSET Excuse]
  /\ faults \in Nat /\ reopens \in Nat

Init ==
  /\ OutboxInit
  /\ QuotaInit
  /\ pc = [w \in Worker |-> "idle"]
  /\ job = [w \in Worker |-> NoDelivery]
  /\ token = [w \in Worker |-> NoToken]
  /\ outcome = [w \in Worker |-> "none"]
  /\ ended = [w \in Worker |-> {}]
  /\ until = [w \in Worker |-> 0]
  /\ accepted = [d \in Delivery |-> 0]
  /\ excuse = [d \in Delivery |-> {}]
  /\ faults = 0 /\ reopens = 0

-----------------------------------------------------------------------------
(* Producers: replies, reminders and briefings enter through enqueue.      *)

Produce(d) ==
  /\ Enqueue(d)
  /\ UNCHANGED <<quotaVars, workerVars, ghostVars>>

-----------------------------------------------------------------------------
(* Workers.                                                                *)

\* A fresh lease token.  Tokens are 24 random bytes; one that no row and no
\* worker remembers any more is as good as new.
TokensInUse ==
  {leaseToken[d] : d \in Delivery} \cup {token[w] : w \in Worker}

FreshToken == CHOOSE k \in Token : k \notin TokensInUse

\* The worker is done with its claim, or has forgotten it.
Release(w) ==
  /\ pc' = [pc EXCEPT ![w] = "idle"]
  /\ job' = [job EXCEPT ![w] = NoDelivery]
  /\ token' = [token EXCEPT ![w] = NoToken]
  /\ outcome' = [outcome EXCEPT ![w] = "none"]
  /\ ended' = [ended EXCEPT ![w] = {}]
  /\ until' = [until EXCEPT ![w] = 0]

\* Claiming a row whose lease has run out means that an earlier holder may
\* have sent it already.
WorkerClaim(w) ==
  /\ pc[w] = "idle"
  /\ \E d \in Delivery, k \in Token :
       /\ k = FreshToken /\ k \notin TokensInUse
       /\ Claim(Serves[w], d, k)
       /\ pc' = [pc EXCEPT ![w] = "claimed"]
       /\ job' = [job EXCEPT ![w] = d]
       /\ token' = [token EXCEPT ![w] = k]
       /\ excuse' = [excuse EXCEPT ![d] =
                       IF status[d] = "sending" THEN @ \cup {"lapsed"} ELSE @]
  /\ UNCHANGED <<quotaVars, outcome, ended, until, accepted, faults, reopens>>

\* The clock was read for the claim, and the reservation goes by that reading.
WorkerReserve(w) ==
  /\ pc[w] = "claimed"
  /\ \/ /\ ReserveAllowed(job[w], ended[w])
        /\ pc' = [pc EXCEPT ![w] = "reserved"]
        /\ UNCHANGED until
     \/ \E t \in {0} \cup {windowLeft[r] : r \in Rule} :
        /\ ReserveDenied(job[w], ended[w], t)
        /\ pc' = [pc EXCEPT ![w] = "denied"]
        /\ until' = [until EXCEPT ![w] = t]
  /\ ended' = [ended EXCEPT ![w] = {}]
  /\ UNCHANGED <<outboxVars, job, token, outcome, ghostVars>>

\* A denied worker gives its claim back; if the lease is no longer its own the
\* store raises ConflictError and nothing happens to the row.
WorkerDefer(w) ==
  /\ pc[w] = "denied"
  /\ \/ DeferForQuota(job[w], token[w], until[w])
     \/ ~Owns(job[w], token[w]) /\ UNCHANGED outboxVars
  /\ Release(w)
  /\ UNCHANGED <<quotaVars, ghostVars>>

\* adapter.send: what the provider does, and what the caller learns of it.
\* An answer that is lost, or comes as an exception, is reported as a failure
\* although the message was taken.
WorkerSend(w) ==
  /\ pc[w] = "reserved"
  /\ \E o \in Outcome, taken \in {0, 1} :
       /\ o = "ok" => taken = 1
       /\ outcome' = [outcome EXCEPT ![w] = o]
       /\ accepted' = [accepted EXCEPT ![job[w]] = @ + taken]
       /\ excuse' = [excuse EXCEPT ![job[w]] =
            IF taken = 1 /\ o # "ok" THEN @ \cup {"ambiguous"} ELSE @]
  /\ pc' = [pc EXCEPT ![w] = "answered"]
  /\ UNCHANGED <<outboxVars, quotaVars, job, token, ended, until, faults, reopens>>

\* The broker reads the clock when a completion arrives; a DeliveryWorker
\* passes on the reading its tick began with.
Lateness(w) == IF w \in InProcess THEN 0 .. MaxLate ELSE {0}

WorkerComplete(w) ==
  /\ pc[w] = "answered"
  /\ \/ \E late \in Lateness(w) : Complete(job[w], token[w], outcome[w], late)
     \/ ~Owns(job[w], token[w]) /\ UNCHANGED outboxVars
  /\ Release(w)
  /\ UNCHANGED <<quotaVars, ghostVars>>

\* The worker crashes, its request or the answer to it is lost, or an
\* exception between claim and completion is only logged: the row stays leased
\* and nobody knows the token.
WorkerAbandon(w) ==
  /\ pc[w] # "idle" /\ faults < MaxFaults
  /\ faults' = faults + 1
  /\ Release(w)
  /\ UNCHANGED <<outboxVars, quotaVars, accepted, excuse, reopens>>

-----------------------------------------------------------------------------
(* The operator and the clock.                                             *)

Reopen(d) ==
  /\ reopens < MaxReopens
  /\ RetryDead(d)
  /\ reopens' = reopens + 1
  /\ excuse' = [excuse EXCEPT ![d] = @ \cup {"reopened"}]
  /\ UNCHANGED <<quotaVars, workerVars, accepted, faults>>

\* Worker w holds the lease that row d is under.
Holds(w, d) == pc[w] # "idle" /\ job[w] = d /\ Owns(d, token[w])

\* The leases that the next unit of time takes from a worker still using them.
Outrun == {d \in Delivery : leaseLeft[d] = 1 /\ \E w \in Worker : Holds(w, d)}

\* The claims whose reservation will find that a window has ended.
Delayed == {w \in Worker : pc[w] = "claimed" /\ Ending # {}}

Tick ==
  /\ Outrun # {} \/ Delayed # {} => faults < MaxFaults
  /\ faults' = IF Outrun = {} /\ Delayed = {} THEN faults ELSE faults + 1
  /\ OutboxTick
  /\ QuotaTick
  /\ ended' = [w \in Worker |->
                 IF w \in Delayed THEN ended[w] \cup Ending ELSE ended[w]]
  /\ until' = [w \in Worker |-> TimeLeft(until[w])]
  /\ UNCHANGED <<pc, job, token, outcome, accepted, excuse, reopens>>

WorkerStep(w) ==
  \/ WorkerClaim(w)
  \/ WorkerReserve(w)
  \/ WorkerDefer(w)
  \/ WorkerSend(w)
  \/ WorkerComplete(w)

Next ==
  \/ \E d \in Delivery : Produce(d) \/ Reopen(d)
  \/ \E w \in Worker : WorkerStep(w) \/ WorkerAbandon(w)
  \/ Tick

Spec == Init /\ [][Next]_vars

\* Time passes and every worker loop keeps turning; that leases are outrun,
\* claims abandoned and reservations delayed only finitely often is the bound
\* MaxFaults.
Fairness == WF_vars(Tick) /\ \A w \in Worker : WF_vars(WorkerStep(w))

FairSpec == Spec /\ Fairness

-----------------------------------------------------------------------------
(* The contract, and how the state of the pipeline maps to it.             *)

PhaseOf(s) ==
  CASE s = "absent"  -> "absent"
    [] s \in Waiting -> "queued"
    [] s = "sending" -> "leased"
    [] s = "sent"    -> "sent"
    [] s = "dead"    -> "dead"

phaseNow  == [d \in Delivery |-> PhaseOf(status[d])]
lapsedNow == {d \in Delivery : status[d] = "sending" /\ leaseLeft[d] = 0}
takenNow  == {d \in Delivery : accepted[d] > 0}

Contract == INSTANCE DeliveryContract WITH
  phase <- phaseNow, holder <- leaseToken, lapsed <- lapsedNow, taken <- takenNow

\* The pipeline keeps its contract: leases are exclusive until they lapse, a
\* delivery is settled only under one, and "sent" means that the provider took
\* the message, for everything the outbox, the quotas and the workers do.
KeepsContract == Contract!Spec

-----------------------------------------------------------------------------
(* Properties.                                                             *)

\* The provider takes a message at most once, unless a lease had to be taken
\* over, the provider's answer was lost, or an operator reopened the delivery:
\* claim, defer_for_quota and complete never cause a duplicate by themselves,
\* however workers interleave.
AtMostOnce == \A d \in Delivery : excuse[d] = {} => accepted[d] <= 1

\* A row that says "sent" was taken by the provider: no worker can complete a
\* delivery with another delivery's answer, or with an answer of its own that
\* was overtaken.
SentWasAccepted ==
  \A d \in Delivery : status[d] = "sent" => accepted[d] >= 1

\* The dead letters the operator sees (retried_at IS NULL) are exactly the dead
\* deliveries, also after a retry that failed again.
DeadLettersMatch ==
  \A d \in Delivery : status[d] = "dead" <=> deadLetter[d] = "open"

\* Only takeovers of lapsed leases can push a delivery beyond max_attempts;
\* quota denials refund the attempt they cost.
RetriesBounded ==
  \A d \in Delivery : "lapsed" \notin excuse[d] => attempts[d] <= MaxAttempts

\* A delivery that was sent or is dead stays so until retry_dead reopens it: a
\* worker that comes late, with a lease that was lost, changes nothing.
SettledIsFinal ==
  [][\A d \in Delivery :
       status[d] \in Settled => status'[d] = status[d] \/ Reopen(d)]_vars

\* Every delivery that was accepted for sending is settled in the end.
EventuallySettled ==
  \A d \in Delivery : status[d] # "absent" ~> status[d] \in Settled

-----------------------------------------------------------------------------
(* The inductive invariant behind the properties above.                    *)

\* A row is leased exactly while it is being sent, a busy worker has a real
\* claim, and no two workers ever share a token.
LeaseInv ==
  /\ LeaseHeld
  /\ \A w \in Worker :
       /\ pc[w] = "idle" <=> job[w] = NoDelivery
       /\ pc[w] = "idle" <=> token[w] = NoToken
       /\ pc[w] # "idle" => status[job[w]] # "absent"
  /\ \A v, w \in Worker :
       token[v] = token[w] /\ token[v] # NoToken => v = w

\* As long as nothing has happened that excuses a duplicate, whoever works on a
\* delivery holds its lease, and once the provider has taken the message the
\* row is sent or stays leased with nobody about to send it.
DuplicateInv ==
  \A d \in Delivery : excuse[d] = {} =>
    /\ \A w \in Worker : job[w] = d => Owns(d, token[w])
    /\ accepted[d] > 0 =>
         \/ status[d] = "sent"
         \/ /\ status[d] = "sending"
            /\ \A w \in Worker :
                 job[w] = d => pc[w] = "answered" /\ outcome[w] = "ok"
    /\ accepted[d] <= 1

\* A favourable answer, and the status it leads to, come from the provider.
AcceptInv ==
  /\ SentWasAccepted
  /\ \A w \in Worker :
       /\ pc[w] = "answered" <=> outcome[w] # "none"
       /\ outcome[w] = "ok" => accepted[job[w]] >= 1
  /\ \A d \in Delivery : accepted[d] > 0 => status[d] # "absent"

\* Without a takeover a waiting row has an attempt left.
RetryInv ==
  \A d \in Delivery : "lapsed" \notin excuse[d] =>
    /\ status[d] = "absent" => attempts[d] = 0
    /\ status[d] \in Waiting => attempts[d] < MaxAttempts
    /\ attempts[d] <= MaxAttempts

\* Only a delivery that exists can have a dead letter.
DeadInv ==
  /\ DeadLettersMatch
  /\ \A d \in Delivery : status[d] = "absent" => deadLetter[d] = "none"

IndInv ==
  /\ TypeOK /\ LeaseInv /\ DuplicateInv /\ AcceptInv /\ RetryInv /\ DeadInv
  /\ WithinLimits

=============================================================================
