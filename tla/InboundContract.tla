--------------------------- MODULE InboundContract ---------------------------
(***************************************************************************)
(* What the inbound path promises for every event, however often the       *)
(* gateway forwards it and however many request threads work on it: the    *)
(* event is refused or taken, once and for all; only a taken event is      *)
(* executed or answered, it is executed at most once, and a command is     *)
(* answered only after it was executed.                                    *)
(***************************************************************************)
EXTENDS Naturals

CONSTANTS Event, CodeRequest

VARIABLES
  phase,   \* what was decided about an event
  runs,    \* how often it was executed
  replies  \* the events that were answered

contractVars == <<phase, runs, replies>>

Init ==
  /\ phase = [e \in Event |-> "new"]
  /\ runs = [e \in Event |-> 0]
  /\ replies = {}

Decide(e) ==
  /\ phase[e] = "new"
  /\ \E p \in {"taken", "refused"} : phase' = [phase EXCEPT ![e] = p]
  /\ UNCHANGED <<runs, replies>>

Run(e) ==
  /\ phase[e] = "taken" /\ runs[e] = 0
  /\ runs' = [runs EXCEPT ![e] = 1]
  /\ UNCHANGED <<phase, replies>>

Answer(e) ==
  /\ phase[e] = "taken"
  /\ e \in CodeRequest \/ runs[e] = 1
  /\ e \notin replies
  /\ replies' = replies \cup {e}
  /\ UNCHANGED <<phase, runs>>

Next == \E e \in Event : Decide(e) \/ Run(e) \/ Answer(e)

Spec == Init /\ [][Next]_contractVars

=============================================================================
