------------------------------- MODULE Outbox -------------------------------
(***************************************************************************)
(* The persistent outbox of zhixu/delivery/outbox.py: the rows of          *)
(* outbox_deliveries and dead_letters, and the OutboxStore operations.     *)
(* Every operation runs in one BEGIN IMMEDIATE transaction, so each is one *)
(* atomic action.                                                          *)
(*                                                                         *)
(* Time.  Rows hold absolute instants which the code only ever compares    *)
(* with the present.  The model keeps the time that is left until each of  *)
(* them instead: dueIn is next_attempt_at - now and leaseLeft is           *)
(* lease_expires_at - now, both stopping at 0, so the clock needs no bound.*)
(*                                                                         *)
(* Order.  A row's (priority, created_at, id) never changes after the      *)
(* insert, so a delivery is the number of its place in that order: d < e   *)
(* means that claim prefers d.                                             *)
(***************************************************************************)
EXTENDS Naturals, FiniteSets

CONSTANTS
  Delivery,      \* the idempotency keys, numbered in claim order
  Account,       \* the channel accounts
  AccountOf,     \* the (channel, channel_account) a delivery is addressed to
  Token,         \* lease tokens
  NoToken,       \* the empty lease_token of a row that is not leased
  MaxAttempts,   \* max_attempts of a row
  Backoff,       \* backoff_seconds, as a function on 1 .. BackoffSteps
  BackoffSteps,  \* len(backoff_seconds)
  LeaseFor       \* lease_for, the length of a lease

ASSUME DeliveryAssumption == Delivery \subseteq Nat
ASSUME AccountAssumption == AccountOf \in [Delivery -> Account]
ASSUME TokenAssumption == NoToken \notin Token
ASSUME AttemptsAssumption == MaxAttempts \in Nat \ {0}
ASSUME BackoffAssumption ==
  /\ BackoffSteps \in Nat \ {0}
  /\ Backoff \in [1 .. BackoffSteps -> Nat]
ASSUME LeaseAssumption == LeaseFor \in Nat \ {0}

VARIABLES
  status,      \* outbox_deliveries.status, "absent" before the insert
  attempts,    \* outbox_deliveries.attempts
  dueIn,       \* time left until next_attempt_at
  leaseToken,  \* outbox_deliveries.lease_token
  leaseLeft,   \* time left until lease_expires_at
  deadLetter   \* the dead_letters row: none, open (retried_at NULL) or retried

outboxVars == <<status, attempts, dueIn, leaseToken, leaseLeft, deadLetter>>

Waiting == {"pending", "retry_wait", "quota_wait"}
Settled == {"sent", "dead"}
Status  == {"absent", "sending"} \cup Waiting \cup Settled
Letter  == {"none", "open", "retried"}

\* What a channel adapter reports of one attempt to send.
Outcome == {"ok", "retryable", "permanent"}

OutboxTypeOK ==
  /\ status \in [Delivery -> Status]
  /\ attempts \in [Delivery -> Nat]
  /\ dueIn \in [Delivery -> Nat]
  /\ leaseToken \in [Delivery -> Token \cup {NoToken}]
  /\ leaseLeft \in [Delivery -> Nat]
  /\ deadLetter \in [Delivery -> Letter]

\* A row has a lease exactly while it is being sent: claim asks of a row in
\* "sending" for a lease that has expired, so without one it would stay there.
LeaseHeld ==
  \A d \in Delivery : status[d] = "sending" <=> leaseToken[d] # NoToken

OutboxInit ==
  /\ status = [d \in Delivery |-> "absent"]
  /\ attempts = [d \in Delivery |-> 0]
  /\ dueIn = [d \in Delivery |-> 0]
  /\ leaseToken = [d \in Delivery |-> NoToken]
  /\ leaseLeft = [d \in Delivery |-> 0]
  /\ deadLetter = [d \in Delivery |-> "none"]

-----------------------------------------------------------------------------
(* The operations.                                                         *)

\* enqueue: INSERT OR IGNORE of a row that is due at once.  A key that is
\* already present leaves everything as it is, which is no step at all.
Enqueue(d) ==
  /\ status[d] = "absent"
  /\ status' = [status EXCEPT ![d] = "pending"]
  /\ UNCHANGED <<attempts, dueIn, leaseToken, leaseLeft, deadLetter>>

\* Mutant of Due: a leased row is claimed again without a look at its expiry.
MutDueIgnoresExpiry(d) ==
  \/ status[d] \in Waiting /\ dueIn[d] = 0
  \/ status[d] = "sending"

\* Mutant of Due: rows whose lease expired are never claimed again.
MutDueForgetsLeases(d) == status[d] \in Waiting /\ dueIn[d] = 0

\* The WHERE clause of claim.
Due(d) ==
  \/ status[d] \in Waiting /\ dueIn[d] = 0
  \/ status[d] = "sending" /\ leaseLeft[d] = 0

DueFor(accounts) == {d \in Delivery : Due(d) /\ AccountOf[d] \in accounts}

\* Mutant of Claim: the row is leased but its status is left as it was.
MutClaim(accounts, d, k) ==
  /\ d \in DueFor(accounts)
  /\ \A e \in DueFor(accounts) : d <= e
  /\ attempts' = [attempts EXCEPT ![d] = @ + 1]
  /\ leaseToken' = [leaseToken EXCEPT ![d] = k]
  /\ leaseLeft' = [leaseLeft EXCEPT ![d] = LeaseFor]
  /\ UNCHANGED <<status, dueIn, deadLetter>>

\* claim: lease the first due row of the caller's accounts under a fresh token
\* k.  The attempt is counted here, and max_attempts is not looked at.
Claim(accounts, d, k) ==
  /\ d \in DueFor(accounts)
  /\ \A e \in DueFor(accounts) : d <= e
  /\ status' = [status EXCEPT ![d] = "sending"]
  /\ attempts' = [attempts EXCEPT ![d] = @ + 1]
  /\ leaseToken' = [leaseToken EXCEPT ![d] = k]
  /\ leaseLeft' = [leaseLeft EXCEPT ![d] = LeaseFor]
  /\ UNCHANGED <<dueIn, deadLetter>>

\* Mutant of Owns: the row is looked up by its id alone.
MutOwns(d, k) == TRUE

\* The guard shared by defer_for_quota, complete and complete_lease: the row is
\* still leased under the caller's token.  Expiry is not part of it.
Owns(d, k) == status[d] = "sending" /\ leaseToken[d] = k

\* lease_owner='', lease_token='', lease_expires_at=NULL.
ClearLease(d) ==
  /\ leaseToken' = [leaseToken EXCEPT ![d] = NoToken]
  /\ leaseLeft' = [leaseLeft EXCEPT ![d] = 0]

\* Mutant of DeferForQuota: the lease is given back, the status stays "sending".
MutDeferForQuota(d, k, until) ==
  /\ Owns(d, k)
  /\ attempts' = [attempts EXCEPT ![d] = IF @ = 0 THEN 0 ELSE @ - 1]
  /\ dueIn' = [dueIn EXCEPT ![d] = until]
  /\ ClearLease(d)
  /\ UNCHANGED <<status, deadLetter>>

\* defer_for_quota: give the claim and its attempt back and wait until the
\* quota decision says that there is room again.
DeferForQuota(d, k, until) ==
  /\ Owns(d, k)
  /\ status' = [status EXCEPT ![d] = "quota_wait"]
  /\ attempts' = [attempts EXCEPT ![d] = IF @ = 0 THEN 0 ELSE @ - 1]
  /\ dueIn' = [dueIn EXCEPT ![d] = until]
  /\ ClearLease(d)
  /\ UNCHANGED deadLetter

\* backoff_seconds[min(max(attempts - 1, 0), len - 1)], with Backoff counted
\* from 1.
Delay(n) ==
  Backoff[IF n = 0 THEN 1 ELSE IF n > BackoffSteps THEN BackoffSteps ELSE n]

\* complete with result.ok.
CompleteSent(d) ==
  /\ status' = [status EXCEPT ![d] = "sent"]
  /\ UNCHANGED <<dueIn, deadLetter>>

\* complete with a retryable failure and attempts left.  The caller's clock
\* reading may be `late` units old by the time the row is written.
CompleteRetry(d, late) ==
  LET delay == Delay(attempts[d])
  IN  /\ status' = [status EXCEPT ![d] = "retry_wait"]
      /\ dueIn' = [dueIn EXCEPT ![d] = IF delay > late THEN delay - late ELSE 0]
      /\ UNCHANGED deadLetter

\* Mutant of CompleteDead: INSERT OR IGNORE in place of INSERT OR REPLACE.
MutCompleteDead(d) ==
  /\ status' = [status EXCEPT ![d] = "dead"]
  /\ deadLetter' = [deadLetter EXCEPT ![d] = IF @ = "none" THEN "open" ELSE @]
  /\ UNCHANGED dueIn

\* complete with a failure that is final: the row is dead and its dead letter
\* is inserted, or replaced by a fresh one.
CompleteDead(d) ==
  /\ status' = [status EXCEPT ![d] = "dead"]
  /\ deadLetter' = [deadLetter EXCEPT ![d] = "open"]
  /\ UNCHANGED dueIn

\* Mutant of RetryAllowed: off by one at the last attempt.
MutRetryAllowed(d, outcome) ==
  outcome = "retryable" /\ attempts[d] <= MaxAttempts

RetryAllowed(d, outcome) == outcome = "retryable" /\ attempts[d] < MaxAttempts

\* Mutant of Complete: an exhausted delivery is closed as if it had been sent.
MutComplete(d, k, outcome, late) ==
  /\ Owns(d, k)
  /\ \/ outcome = "ok" /\ CompleteSent(d)
     \/ RetryAllowed(d, outcome) /\ CompleteRetry(d, late)
     \/ outcome = "retryable" /\ ~RetryAllowed(d, outcome) /\ CompleteSent(d)
     \/ outcome = "permanent" /\ CompleteDead(d)
  /\ ClearLease(d)
  /\ UNCHANGED attempts

\* complete and complete_lease.
Complete(d, k, outcome, late) ==
  /\ Owns(d, k)
  /\ \/ outcome = "ok" /\ CompleteSent(d)
     \/ RetryAllowed(d, outcome) /\ CompleteRetry(d, late)
     \/ outcome # "ok" /\ ~RetryAllowed(d, outcome) /\ CompleteDead(d)
  /\ ClearLease(d)
  /\ UNCHANGED attempts

\* retry_dead: any delivery that ever had a dead letter starts over, whatever
\* its row holds now.
RetryDead(d) ==
  /\ deadLetter[d] # "none"
  /\ status' = [status EXCEPT ![d] = "pending"]
  /\ attempts' = [attempts EXCEPT ![d] = 0]
  /\ dueIn' = [dueIn EXCEPT ![d] = 0]
  /\ ClearLease(d)
  /\ deadLetter' = [deadLetter EXCEPT ![d] = "retried"]

\* What is left of a time after one unit of it.
TimeLeft(n) == IF n = 0 THEN 0 ELSE n - 1

\* One unit of time: every instant in the rows is one unit nearer.
OutboxTick ==
  /\ dueIn' = [d \in Delivery |-> TimeLeft(dueIn[d])]
  /\ leaseLeft' = [d \in Delivery |-> TimeLeft(leaseLeft[d])]
  /\ UNCHANGED <<status, attempts, leaseToken, deadLetter>>

=============================================================================
