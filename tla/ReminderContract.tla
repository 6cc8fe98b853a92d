-------------------------- MODULE ReminderContract --------------------------
(***************************************************************************)
(* What a reminder promises to the user who set it, with versions, commands*)
(* in several transactions and the scheduler's readings left out:          *)
(*   - it is announced once for each time it is set to, never before that  *)
(*     time, and under a key that no earlier announcement has used;        *)
(*   - only a reminder whose policy allows it is passed over, and only when*)
(*     it is later than the grace;                                         *)
(*   - only an announced reminder is set again, and to a later time;       *)
(*   - a cancelled, acknowledged or missed one is over for good.           *)
(***************************************************************************)
EXTENDS Naturals

CONSTANTS
  Reminder,
  Instant,  \* the times a reminder can be set to
  MayMiss,  \* the reminders that may be passed over
  Grace     \* how late those are announced at most

VARIABLES
  time,
  stage,    \* where a reminder stands
  due,      \* the time it is set to
  sent      \* the announcements: reminder and time

contractVars == <<time, stage, due, sent>>

Init ==
  /\ time = 0
  /\ stage = [r \in Reminder |-> "absent"]
  /\ due = [r \in Reminder |-> 0]
  /\ sent = {}

Pass ==
  /\ time' = time + 1
  /\ UNCHANGED <<stage, due, sent>>

\* A reminder is set, or set again after it was announced.
Set(r, t) ==
  /\ stage[r] \in {"absent", "fired"}
  /\ stage[r] = "fired" => t > due[r]
  /\ stage' = [stage EXCEPT ![r] = "pending"]
  /\ due' = [due EXCEPT ![r] = t]
  /\ UNCHANGED <<time, sent>>

\* Some of the reminders whose time has come are announced and others missed.
Announce(announced, missed) ==
  /\ announced \cap missed = {} /\ missed \subseteq MayMiss
  /\ \A r \in announced \cup missed : stage[r] = "pending" /\ due[r] <= time
  /\ \A r \in missed : due[r] + Grace < time
  /\ \A r \in announced : <<r, due[r]>> \notin sent
  /\ sent' = sent \cup {<<r, due[r]>> : r \in announced}
  /\ stage' = [r \in Reminder |-> IF r \in announced THEN "fired"
                                  ELSE IF r \in missed THEN "cancelled"
                                  ELSE stage[r]]
  /\ UNCHANGED <<time, due>>

Close(r) ==
  /\ stage[r] \in {"pending", "fired"}
  /\ stage' = [stage EXCEPT ![r] = "cancelled"]
  /\ UNCHANGED <<time, due, sent>>

Next ==
  \/ Pass
  \/ \E r \in Reminder : Close(r) \/ \E t \in Instant : Set(r, t)
  \/ \E announced, missed \in SUBSET Reminder : Announce(announced, missed)

Spec == Init /\ [][Next]_contractVars

=============================================================================
