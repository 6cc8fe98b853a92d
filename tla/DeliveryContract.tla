-------------------------- MODULE DeliveryContract --------------------------
(***************************************************************************)
(* What the outbound path promises to those who hand messages to it, and   *)
(* to the operator, with all of its machinery (attempts, backoff, quotas,  *)
(* timers, workers) left out:                                              *)
(*   - a delivery is in one phase at a time and under one lease at a time; *)
(*   - a lease is given away only after it has lapsed;                     *)
(*   - a delivery is settled only under a lease, and as sent only when the *)
(*     provider has taken the message;                                     *)
(*   - a settled delivery is final unless the operator reopens it.         *)
(***************************************************************************)
EXTENDS FiniteSets

CONSTANTS Delivery, Token, NoToken

VARIABLES
  phase,   \* where a delivery stands
  holder,  \* the lease it is under, NoToken when it is not leased
  lapsed,  \* the leased deliveries whose lease has run out
  taken    \* the deliveries whose message the provider has taken

contractVars == <<phase, holder, lapsed, taken>>

Phase == {"absent", "queued", "leased", "sent", "dead"}

Init ==
  /\ phase = [d \in Delivery |-> "absent"]
  /\ holder = [d \in Delivery |-> NoToken]
  /\ lapsed = {}
  /\ taken = {}

Submit(d) ==
  /\ phase[d] = "absent"
  /\ phase' = [phase EXCEPT ![d] = "queued"]
  /\ UNCHANGED <<holder, lapsed, taken>>

\* No lease is granted while another one that has not lapsed is in force.
Grant(d, k) ==
  /\ phase[d] = "queued" \/ d \in lapsed
  /\ k # holder[d]
  /\ phase' = [phase EXCEPT ![d] = "leased"]
  /\ holder' = [holder EXCEPT ![d] = k]
  /\ lapsed' = lapsed \ {d}
  /\ UNCHANGED taken

\* The holder's report ends the lease.
Report(d, p) ==
  /\ phase[d] = "leased"
  /\ p = "sent" => d \in taken
  /\ phase' = [phase EXCEPT ![d] = p]
  /\ holder' = [holder EXCEPT ![d] = NoToken]
  /\ lapsed' = lapsed \ {d}
  /\ UNCHANGED taken

Take(d) ==
  /\ phase[d] # "absent"
  /\ taken' = taken \cup {d}
  /\ UNCHANGED <<phase, holder, lapsed>>

Lapse(D) ==
  /\ \A d \in D : phase[d] = "leased"
  /\ lapsed' = lapsed \cup D
  /\ UNCHANGED <<phase, holder, taken>>

Reopen(d) ==
  /\ phase[d] # "absent"
  /\ phase' = [phase EXCEPT ![d] = "queued"]
  /\ holder' = [holder EXCEPT ![d] = NoToken]
  /\ lapsed' = lapsed \ {d}
  /\ UNCHANGED taken

Next ==
  \/ \E d \in Delivery :
       \/ Submit(d) \/ Take(d) \/ Reopen(d)
       \/ \E k \in Token : Grant(d, k)
       \/ \E p \in {"queued", "sent", "dead"} : Report(d, p)
  \/ \E D \in SUBSET Delivery : Lapse(D)

Spec == Init /\ [][Next]_contractVars

=============================================================================
