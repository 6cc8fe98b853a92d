----------------------------- MODULE MCBriefings -----------------------------
(* Briefings on a small instance.                                           *)
EXTENDS Briefings

CONSTANTS utc, east, r1

MCOffset == [z \in Zone |-> IF z = utc THEN 0 ELSE 1]
\* The important day of briefing 2 comes on the last day of the instance.
MCAnchor == [b \in Briefing |-> IF b = 2 THEN 1 ELSE 0]
\* That of briefing 1 comes after it.
MCLateAnchor == [b \in Briefing |-> IF b = 1 THEN 2 ELSE 0]
MCRuleAt == [r \in Rule |-> 1]

=============================================================================
