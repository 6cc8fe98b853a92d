--------------------------- MODULE AdmissionProofs ---------------------------
(***************************************************************************)
(* Proofs about module Admission: nobody is answered as somebody they      *)
(* never were, and a group keeps its workspace to itself, for any number   *)
(* of groups, senders, codes and handlers.                                 *)
(***************************************************************************)
EXTENDS Admission, TLAPS

-----------------------------------------------------------------------------
(* Events and the states of a handler.                                     *)

LEMMA EventType ==
  ASSUME NEW ev \in Event
  PROVE  /\ ev.ref \in Ref /\ ev.ref \in User
         /\ ev.group \in Group \/ ev.group = None
         /\ ev.group = None => ev.ref \in PrivateRef
PROOF
BY AdmissionAssumption DEF Event, Ref, User

\* The tables, without the handlers.
Tables == TypeOK /\ BoundInv /\ RouteInv

\* What is on record stays on record.
Keeps ==
  /\ users \subseteq users' /\ ever \subseteq ever'
  /\ \A g \in Group : route[g].shared # 0 => route'[g].shared = route[g].shared

LEMMA HoldsStill ==
  ASSUME TypeOK, NEW s \in HandlerType, Holds(s), Keeps
  PROVE  Holds(s)'
PROOF
<1>1. route \in [Group -> RouteType]
  BY DEF TypeOK
<1>2. s.pc \in GroupPc => s.route.shared \in {0, route'[s.ev.group].shared}
  BY <1>1 DEF Holds, Keeps
<1>3. ASSUME s.pc = "done", s.dec.accepted, s.ev.group # None
      PROVE  s.dec.readable \subseteq {route'[s.ev.group].shared} \ {0}
  <2>1. s.ev.group \in Group
    BY <1>3, EventType DEF Holds
  <2>2. s.dec.readable \subseteq {route[s.ev.group].shared} \ {0}
    BY <1>3 DEF Holds
  <2>3. QED
    BY <2>1, <2>2 DEF Keeps
<1>4. QED
  BY <1>2, <1>3 DEF Holds, Keeps

\* A step of one handler that leaves the tables right and knows what it needs.
LEMMA HandlerMoves ==
  ASSUME IndInv, NEW h \in Handler, NEW s \in HandlerType,
         handler' = [handler EXCEPT ![h] = s], Keeps, Holds(s)',
         handler' \in [Handler -> HandlerType] => Tables'
  PROVE  IndInv'
PROOF
<1>1. handler \in [Handler -> HandlerType]
  BY DEF IndInv, TypeOK
<1>2. /\ handler' \in [Handler -> HandlerType] /\ handler'[h] = s
      /\ \A d \in Handler \ {h} : handler'[d] = handler[d] /\ handler[d] \in HandlerType
  BY <1>1
<1>3. ASSUME NEW d \in Handler
      PROVE  Holds(handler[d])'
  <2>1. CASE d = h
    <3>1. handler'[d] = s
      BY <1>2, <2>1
    <3>2. QED
      BY <3>1 DEF Holds
  <2>2. CASE d # h
    <3>1. PICK t \in HandlerType : t = handler[d] /\ t = handler'[d]
      BY <1>2, <2>2
    <3>2. Holds(t)'
      BY <3>1, HoldsStill DEF IndInv
    <3>3. QED
      BY <3>1, <3>2 DEF Holds
  <2>3. QED
    BY <2>1, <2>2
<1>4. QED
  BY <1>2, <1>3 DEF IndInv, Tables

\* A step that leaves the tables of users and routes alone.
LEMMA TablesStay ==
  ASSUME IndInv, UNCHANGED <<userVars, routeVars>>,
         activation' \in [ActivationCode -> User \cup {None, "used"}],
         link' \in [LinkCode -> Ref \cup {None, "used"}],
         denied' \in [User -> 0 .. AttemptLimit],
         challenge' \in Challenge \cup {None},
         challenge' # None => challenge'.user \in users,
         unbound' \subseteq Ref, handler' \in [Handler -> HandlerType]
  PROVE  Tables' /\ Keeps
PROOF
<1>1. UNCHANGED <<users, admins, identity, ever, route, members, owners, observed>>
  BY DEF userVars, routeVars
<1>2. TypeOK'
  BY <1>1 DEF IndInv, TypeOK
<1>3. BoundInv' /\ RouteInv' /\ Keeps
  BY <1>1 DEF IndInv, BoundInv, RouteInv, Keeps
<1>4. QED
  BY <1>2, <1>3 DEF Tables

\* A step of one handler that only moves it on.
LEMMA OnlyMoves ==
  ASSUME IndInv, NEW h \in Handler, NEW s \in HandlerType,
         handler' = [handler EXCEPT ![h] = s], Holds(s),
         UNCHANGED <<userVars, routeVars, codeVars, unbound>>
  PROVE  IndInv'
PROOF
<1>1. UNCHANGED <<userVars, routeVars, activation, link, denied, challenge, unbound>>
  BY DEF codeVars
<1>2. Keeps
  BY <1>1 DEF userVars, routeVars, Keeps
<1>3. handler' \in [Handler -> HandlerType] => Tables'
  BY <1>1, TablesStay DEF IndInv, TypeOK, BoundInv, userVars
<1>4. Holds(s)'
  BY <1>2, HoldsStill DEF IndInv
<1>5. QED
  BY <1>2, <1>3, <1>4, HandlerMoves

\* The steps of a handler, as the states they lead to.
LEMMA GotoState ==
  ASSUME IndInv, NEW h \in Handler,
         NEW pc \in GroupPc \cup PrivatePc \cup {"idle", "done"}, Goto(h, pc)
  PROVE  \E s \in HandlerType :
           /\ handler' = [handler EXCEPT ![h] = s]
           /\ s.pc = pc /\ s.ev = handler[h].ev /\ s.route = handler[h].route
           /\ s.user = handler[h].user /\ s.target = handler[h].target
PROOF
<1>1. PICK s : s = [handler[h] EXCEPT !.pc = pc]
  OBVIOUS
<1>2. handler[h] \in HandlerType
  BY DEF IndInv, TypeOK
<1>3. s \in HandlerType
  BY <1>1, <1>2 DEF HandlerType
<1>4. handler' = [handler EXCEPT ![h] = s]
  BY <1>1 DEF Goto
<1>5. QED
  BY <1>1, <1>2, <1>3, <1>4 DEF HandlerType

LEMMA DecideState ==
  ASSUME IndInv, NEW h \in Handler, NEW dec \in DecisionType, Decide(h, dec)
  PROVE  \E s \in HandlerType :
           /\ handler' = [handler EXCEPT ![h] = s]
           /\ s.pc = "done" /\ s.ev = handler[h].ev /\ s.dec = dec
PROOF
<1>1. PICK old \in HandlerType : old = handler[h]
  BY DEF IndInv, TypeOK
<1>2. PICK s : s = [pc |-> "done", ev |-> old.ev, route |-> None, user |-> old.user,
                    target |-> None, dec |-> dec]
  OBVIOUS
<1>3. s \in HandlerType
  BY <1>2 DEF HandlerType
<1>4. handler' = [handler EXCEPT ![h] = s]
  <2>1. handler \in [Handler -> HandlerType]
    BY DEF IndInv, TypeOK
  <2>2. DOMAIN handler' = Handler /\ \A d \in Handler \ {h} : handler'[d] = handler[d]
    BY <2>1 DEF Decide
  <2>3. handler'[h] = s
    BY <1>1, <1>2, <2>1 DEF Decide, HandlerType
  <2>4. handler' = [d \in Handler |-> handler'[d]]
    BY <2>1 DEF Decide
  <2>5. QED
    BY <2>1, <2>2, <2>3, <2>4
<1>5. QED
  BY <1>1, <1>2, <1>3, <1>4

LEMMA RaiseInv ==
  ASSUME IndInv, NEW h \in Handler, Raise(h),
         UNCHANGED <<userVars, routeVars, codeVars, unbound>>
  PROVE  IndInv'
PROOF
<1>1. Idle \in HandlerType /\ Holds(Idle)
  BY DEF Idle, HandlerType, Holds, GroupPc, PrivatePc
<1>2. QED
  BY <1>1, OnlyMoves DEF Raise

LEMMA KnownState ==
  ASSUME IndInv, NEW h \in Handler
  PROVE  handler[h] \in HandlerType /\ Holds(handler[h])
PROOF
BY DEF IndInv, TypeOK

Untouched == UNCHANGED <<userVars, routeVars, codeVars, unbound>>

LEMMA GotoInv ==
  ASSUME IndInv, NEW h \in Handler, Untouched,
         NEW pc \in GroupPc \cup PrivatePc, Goto(h, pc),
         \/ handler[h].pc \in GroupPc /\ pc \in GroupPc
         \/ handler[h].pc \in PrivatePc /\ pc \in PrivatePc,
         pc \in {"bindActivator", "enable", "member", "join", "granted", "link",
                 "linkCheck", "linkBind"} => handler[h].user \in users,
         pc \in {"enable", "member", "join", "granted", "link", "linkCheck", "linkBind",
                 "issueActivation"} => <<handler[h].ev.ref, handler[h].user>> \in ever,
         pc \in {"provisionIdentity", "provisionMember"} => handler[h].ev.ref \in users,
         pc \in {"link", "linkCheck", "linkBind"} => handler[h].route.shared # 0,
         pc \in {"linkCheck", "linkBind"} => handler[h].target \in Ref
  PROVE  IndInv'
PROOF
<1>1. PICK s \in HandlerType :
           /\ handler' = [handler EXCEPT ![h] = s]
           /\ s.pc = pc /\ s.ev = handler[h].ev /\ s.route = handler[h].route
           /\ s.user = handler[h].user /\ s.target = handler[h].target
  BY GotoState
<1>2. Holds(handler[h]) /\ pc # "idle" /\ pc # "done"
  BY KnownState DEF GroupPc, PrivatePc
<1>3. /\ s.ev \in Event
      /\ s.pc \in GroupPc => /\ s.ev.group \in Group /\ s.route \in RouteType
                             /\ s.route.shared \in {0, route[s.ev.group].shared}
      /\ s.pc \in PrivatePc => s.ev.group = None
  BY <1>1, <1>2 DEF Holds, GroupPc, PrivatePc
<1>4. Holds(s)
  BY <1>1, <1>2, <1>3 DEF Holds
<1>5. QED
  BY <1>1, <1>4, OnlyMoves DEF Untouched

\* What a decision has to keep to.
Decent(ev, dec) ==
  /\ dec \in DecisionType
  /\ dec.accepted /\ dec.role \in {"member", "private"} => <<ev.ref, dec.user>> \in ever
  /\ dec.accepted /\ ev.group # None
       => dec.readable \subseteq {route[ev.group].shared} \ {0}

LEMMA DecidedHolds ==
  ASSUME NEW s \in HandlerType, s.pc = "done", s.ev \in Event, Decent(s.ev, s.dec)
  PROVE  Holds(s)
PROOF
BY DEF Holds, Decent, GroupPc, PrivatePc

LEMMA DecideInv ==
  ASSUME IndInv, NEW h \in Handler, Untouched, handler[h].pc # "idle",
         NEW dec, Decent(handler[h].ev, dec), Decide(h, dec)
  PROVE  IndInv'
PROOF
<1>1. PICK s \in HandlerType : /\ handler' = [handler EXCEPT ![h] = s]
                               /\ s.pc = "done" /\ s.ev = handler[h].ev /\ s.dec = dec
  BY DecideState DEF Decent
<1>2. s.ev \in Event
  BY <1>1, KnownState DEF Holds
<1>3. Holds(s)
  BY <1>1, <1>2, DecidedHolds
<1>4. QED
  BY <1>1, <1>3, OnlyMoves DEF Untouched

LEMMA Refusal ==
  ASSUME NEW ev, NEW user \in User \cup {None}, NEW role \in {"denied", "unbound"}
  PROVE  Decent(ev, Decision(FALSE, user, role, {}))
PROOF
BY DEF Decent, Decision, DecisionType

LEMMA DenyInv ==
  ASSUME IndInv, NEW h \in Handler, Untouched, handler[h].pc # "idle",
         NEW user \in User \cup {None}, Deny(h, user)
  PROVE  IndInv'
PROOF
BY Refusal, DecideInv DEF Deny

\* A member is answered with the workspace of the group.
LEMMA GroupAnswer ==
  ASSUME IndInv, NEW ev \in Event, NEW user \in User, <<ev.ref, user>> \in ever,
         ev.group \in Group, NEW shared \in Nat \ {0}, shared = route[ev.group].shared
  PROVE  Decent(ev, Decision(TRUE, user, "member", {shared}))
PROOF
<1>1. PICK dec : dec = Decision(TRUE, user, "member", {shared})
  OBVIOUS
<1>2. dec \in DecisionType /\ dec.user = user /\ dec.readable = {shared}
  BY <1>1 DEF Decision, DecisionType
<1>3. QED
  BY <1>1, <1>2 DEF Decent

LEMMA AcceptInGroupInv ==
  ASSUME IndInv, NEW h \in Handler, Untouched,
         handler[h].pc \in {"granted", "link", "linkCheck", "linkBind"},
         handler[h].route.shared # 0,
         AcceptInGroup(h, handler[h].user, handler[h].route.shared)
  PROVE  IndInv'
PROOF
<1>1. /\ handler[h].ev \in Event /\ handler[h].user \in users
      /\ <<handler[h].ev.ref, handler[h].user>> \in ever
      /\ handler[h].ev.group \in Group /\ handler[h].route \in RouteType
      /\ handler[h].route.shared \in {0, route[handler[h].ev.group].shared}
  BY KnownState DEF Holds, GroupPc
<1>2. handler[h].user \in User /\ handler[h].route.shared \in Nat \ {0}
  BY <1>1 DEF IndInv, TypeOK, RouteType
<1>3. Decent(handler[h].ev,
             Decision(TRUE, handler[h].user, "member", {handler[h].route.shared}))
  BY <1>1, <1>2, GroupAnswer
<1>4. QED
  BY <1>3, DecideInv DEF AcceptInGroup

\* A step further for the user that the handler already acts for, ...
LEMMA GotoKnown ==
  ASSUME IndInv, NEW h \in Handler, Untouched, handler[h].pc \in GroupPc,
         NEW pc \in {"bindActivator", "enable", "join", "granted", "link", "linkBind"},
         Goto(h, pc), handler[h].user \in users,
         pc # "bindActivator" => <<handler[h].ev.ref, handler[h].user>> \in ever,
         pc \in {"link", "linkBind"} => handler[h].route.shared # 0,
         pc = "linkBind" => handler[h].target \in Ref
  PROVE  IndInv'
PROOF
<1>1. pc \in GroupPc \cup PrivatePc /\ handler[h].pc \in GroupPc /\ pc \in GroupPc
  BY DEF GroupPc
<1>2. /\ pc \in {"bindActivator", "enable", "member", "join", "granted", "link",
                  "linkCheck", "linkBind"} => handler[h].user \in users
      /\ pc \in {"enable", "member", "join", "granted", "link", "linkCheck", "linkBind",
                  "issueActivation"} => <<handler[h].ev.ref, handler[h].user>> \in ever
      /\ pc \in {"provisionIdentity", "provisionMember"} => handler[h].ev.ref \in users
      /\ pc \in {"link", "linkCheck", "linkBind"} => handler[h].route.shared # 0
      /\ pc \in {"linkCheck", "linkBind"} => handler[h].target \in Ref
  OBVIOUS
<1>3. QED
  BY <1>1, <1>2, GotoInv

\* ... and one that supposes nothing.
LEMMA GotoAnyway ==
  ASSUME IndInv, NEW h \in Handler, Untouched, NEW pc, Goto(h, pc),
         \/ handler[h].pc \in GroupPc /\ pc \in {"activate", "admit", "provision"}
         \/ handler[h].pc \in PrivatePc /\ pc = "issueLink"
  PROVE  IndInv'
PROOF
<1>1. /\ pc \in GroupPc \cup PrivatePc
      /\ \/ handler[h].pc \in GroupPc /\ pc \in GroupPc
         \/ handler[h].pc \in PrivatePc /\ pc \in PrivatePc
  BY DEF GroupPc, PrivatePc
<1>2. /\ pc \in {"bindActivator", "enable", "member", "join", "granted", "link",
                  "linkCheck", "linkBind"} => handler[h].user \in users
      /\ pc \in {"enable", "member", "join", "granted", "link", "linkCheck", "linkBind",
                  "issueActivation"} => <<handler[h].ev.ref, handler[h].user>> \in ever
      /\ pc \in {"provisionIdentity", "provisionMember"} => handler[h].ev.ref \in users
      /\ pc \in {"link", "linkCheck", "linkBind"} => handler[h].route.shared # 0
      /\ pc \in {"linkCheck", "linkBind"} => handler[h].target \in Ref
  OBVIOUS
<1>3. QED
  BY <1>1, <1>2, GotoInv

-----------------------------------------------------------------------------
(* Steps that only decide where to go.                                     *)

LEMMA AddressedInv ==
  ASSUME IndInv, NEW h \in Handler, Addressed(h)
  PROVE  IndInv'
PROOF
<1>1. Untouched /\ handler[h].pc = "group"
  BY DEF Addressed, At, Untouched
<1>2. \/ Goto(h, "activate") \/ Goto(h, "admit") \/ Deny(h, None)
  BY DEF Addressed
<1>3. handler[h].pc \in GroupPc
  BY <1>1 DEF GroupPc
<1>4. QED
  BY <1>1, <1>2, <1>3, GotoAnyway, DenyInv

LEMMA CheckActivatorInv ==
  ASSUME IndInv, NEW h \in Handler, CheckActivator(h)
  PROVE  IndInv'
PROOF
<1>1. PICK u, bound : /\ u = handler[h].user /\ bound = identity[handler[h].ev.ref]
                      /\ Goto(h, IF u \notin users \cap admins \/ bound \notin {None, u}
                                 THEN "admit"
                                 ELSE IF bound = None THEN "bindActivator" ELSE "enable")
  BY DEF CheckActivator
<1>2. Untouched /\ handler[h].pc = "activator"
  BY DEF CheckActivator, At, Untouched
<1>3. handler[h].pc \in GroupPc
  BY <1>2 DEF GroupPc
<1>4. CASE u \notin users \cap admins \/ bound \notin {None, u}
  <2>1. Goto(h, "admit")
    BY <1>1, <1>4
  <2>2. QED
    BY <1>2, <1>3, <2>1, GotoAnyway
<1>5. CASE u \in users \cap admins /\ bound = None
  <2>1. Goto(h, "bindActivator") /\ handler[h].user \in users
    BY <1>1, <1>5
  <2>2. QED
    BY <1>2, <1>3, <2>1, GotoKnown
<1>6. CASE u \in users \cap admins /\ bound = u /\ bound # None
  <2>1. Goto(h, "enable") /\ handler[h].user \in users
    BY <1>1, <1>6
  <2>2. handler[h].ev.ref \in Ref
    BY <1>2, KnownState, EventType DEF Holds
  <2>3. <<handler[h].ev.ref, handler[h].user>> \in ever
    BY <1>1, <1>6, <2>2 DEF IndInv, BoundInv
  <2>4. QED
    BY <1>2, <1>3, <2>1, <2>3, GotoKnown
<1>7. QED
  BY <1>4, <1>5, <1>6

\* A handler that has found the user of the sender.
LEMMA FoundInv ==
  ASSUME IndInv, NEW h \in Handler, Untouched, NEW pc, NEW u,
         \/ pc = "member" /\ handler[h].pc \in GroupPc
         \/ pc = "issueActivation" /\ handler[h].pc \in PrivatePc,
         u = identity[handler[h].ev.ref], u # None,
         handler' = [handler EXCEPT ![h].pc = pc, ![h].user = u]
  PROVE  IndInv'
PROOF
<1>1. PICK old \in HandlerType : old = handler[h] /\ Holds(old)
  BY KnownState
<1>2. old.pc # "idle"
  BY <1>1 DEF GroupPc, PrivatePc
<1>3. old.ev \in Event /\ old.ev.ref \in Ref
  BY <1>1, <1>2, EventType DEF Holds
<1>4. u \in users /\ u \in User /\ <<old.ev.ref, u>> \in ever
  BY <1>1, <1>3 DEF IndInv, TypeOK, BoundInv
<1>5. PICK s : s = [pc |-> pc, ev |-> old.ev, route |-> old.route, user |-> u,
                    target |-> old.target, dec |-> old.dec]
  OBVIOUS
<1>6. s \in HandlerType
  BY <1>4, <1>5 DEF HandlerType, GroupPc, PrivatePc
<1>7. handler' = [handler EXCEPT ![h] = s]
  <2>1. handler \in [Handler -> HandlerType]
    BY DEF IndInv, TypeOK
  <2>2. \A d \in Handler \ {h} : handler'[d] = handler[d]
    BY <2>1
  <2>3. handler'[h] = s
    BY <1>1, <1>5, <2>1 DEF HandlerType
  <2>4. handler' = [d \in Handler |-> handler'[d]]
    BY <2>1
  <2>5. QED
    BY <2>1, <2>2, <2>3, <2>4
<1>8. Holds(s)
  <2>1. pc \in GroupPc => /\ old.ev.group \in Group /\ old.route \in RouteType
                          /\ old.route.shared \in {0, route[old.ev.group].shared}
    BY <1>1 DEF Holds, GroupPc, PrivatePc
  <2>2. pc \in PrivatePc => old.ev.group = None
    BY <1>1 DEF Holds, GroupPc, PrivatePc
  <2>3. pc \in {"member", "issueActivation"}
    OBVIOUS
  <2>4. QED
    BY <1>3, <1>4, <1>5, <2>1, <2>2, <2>3 DEF Holds
<1>9. QED
  BY <1>6, <1>7, <1>8, OnlyMoves DEF Untouched

LEMMA AdmitInGroupInv ==
  ASSUME IndInv, NEW h \in Handler, AdmitInGroup(h)
  PROVE  IndInv'
PROOF
<1>1. Untouched /\ handler[h].pc = "admit"
  BY DEF AdmitInGroup, At, Untouched
<1>2. /\ handler[h].ev \in Event /\ handler[h].route \in RouteType
      /\ handler[h].route.owner \in User \cup {None}
  BY <1>1, KnownState DEF Holds, GroupPc, RouteType
<1>3. \/ Deny(h, None) \/ Deny(h, handler[h].route.owner)
      \/ /\ handler[h].route.owner \in users
         /\ Decide(h, Decision(TRUE, handler[h].route.owner, "guest", {}))
      \/ Decide(h, Decision(FALSE, None, "unbound", {}))
      \/ Goto(h, "provision")
      \/ /\ identity[handler[h].ev.ref] # None
         /\ handler' = [handler EXCEPT ![h].pc = "member",
                                       ![h].user = identity[handler[h].ev.ref]]
  BY DEF AdmitInGroup
<1>4. CASE \/ Deny(h, None) \/ Deny(h, handler[h].route.owner)
           \/ Decide(h, Decision(FALSE, None, "unbound", {}))
  BY <1>1, <1>2, <1>4, DenyInv, DecideInv, Refusal
<1>5. CASE /\ handler[h].route.owner \in users
           /\ Decide(h, Decision(TRUE, handler[h].route.owner, "guest", {}))
  <2>1. Decent(handler[h].ev, Decision(TRUE, handler[h].route.owner, "guest", {}))
    BY <1>2 DEF Decent, Decision, DecisionType
  <2>2. QED
    BY <1>1, <1>5, <2>1, DecideInv
<1>6. CASE Goto(h, "provision")
  <2>1. handler[h].pc \in GroupPc
    BY <1>1 DEF GroupPc
  <2>2. QED
    BY <1>1, <1>6, <2>1, GotoAnyway
<1>7. CASE /\ identity[handler[h].ev.ref] # None
           /\ handler' = [handler EXCEPT ![h].pc = "member",
                                         ![h].user = identity[handler[h].ev.ref]]
  <2>1. PICK u : u = identity[handler[h].ev.ref]
    OBVIOUS
  <2>2. QED
    BY <1>1, <1>7, <2>1, FoundInv DEF GroupPc
<1>8. QED
  BY <1>3, <1>4, <1>5, <1>6, <1>7

LEMMA ProvisionedInv ==
  ASSUME IndInv, NEW h \in Handler, Provisioned(h)
  PROVE  IndInv'
PROOF
<1>1. Untouched /\ handler[h].pc = "provisioned"
  BY DEF Provisioned, At, Untouched
<1>2. PICK u : /\ u = identity[handler[h].ev.ref]
               /\ IF u = None THEN Decide(h, Decision(FALSE, None, "unbound", {}))
                  ELSE handler' = [handler EXCEPT ![h].pc = "member", ![h].user = u]
  BY DEF Provisioned
<1>3. CASE u = None
  BY <1>1, <1>2, <1>3, Refusal, DecideInv
<1>4. CASE u # None
  BY <1>1, <1>2, <1>4, FoundInv DEF GroupPc
<1>5. QED
  BY <1>3, <1>4

LEMMA CheckMemberInv ==
  ASSUME IndInv, NEW h \in Handler, CheckMember(h)
  PROVE  IndInv'
PROOF
<1>1. Untouched /\ handler[h].pc = "member"
  BY DEF CheckMember, At, Untouched
<1>2. /\ handler[h].user \in users /\ handler[h].user \in User
      /\ <<handler[h].ev.ref, handler[h].user>> \in ever
  BY <1>1, KnownState DEF Holds, IndInv, TypeOK
<1>3. Goto(h, "granted") \/ Goto(h, "join") \/ Deny(h, handler[h].user)
  BY DEF CheckMember
<1>4. handler[h].pc \in GroupPc
  BY <1>1 DEF GroupPc
<1>5. QED
  BY <1>1, <1>2, <1>3, <1>4, GotoKnown, DenyInv

LEMMA GrantedInv ==
  ASSUME IndInv, NEW h \in Handler, Granted(h)
  PROVE  IndInv'
PROOF
<1>1. Untouched /\ handler[h].pc = "granted"
  BY DEF Granted, At, Untouched
<1>2. /\ handler[h].user \in users /\ handler[h].user \in User
      /\ <<handler[h].ev.ref, handler[h].user>> \in ever
  BY <1>1, KnownState DEF Holds, IndInv, TypeOK
<1>3. CASE handler[h].route.shared = 0
  BY <1>1, <1>2, <1>3, DenyInv DEF Granted
<1>4. CASE handler[h].route.shared # 0 /\ Goto(h, "link")
  <2>1. handler[h].pc \in GroupPc
    BY <1>1 DEF GroupPc
  <2>2. QED
    BY <1>1, <1>2, <1>4, <2>1, GotoKnown
<1>5. CASE /\ handler[h].route.shared # 0
           /\ AcceptInGroup(h, handler[h].user, handler[h].route.shared)
  BY <1>1, <1>5, AcceptInGroupInv
<1>6. QED
  BY <1>3, <1>4, <1>5 DEF Granted

LEMMA CheckPrivateIdentityInv ==
  ASSUME IndInv, NEW h \in Handler, CheckPrivateIdentity(h)
  PROVE  IndInv'
PROOF
<1>1. Untouched /\ handler[h].pc = "linkCheck"
  BY DEF CheckPrivateIdentity, At, Untouched
<1>2. /\ handler[h].user \in users /\ <<handler[h].ev.ref, handler[h].user>> \in ever
      /\ handler[h].route.shared # 0 /\ handler[h].target \in Ref
  BY <1>1, KnownState DEF Holds
<1>3. \/ Goto(h, "linkBind")
      \/ AcceptInGroup(h, handler[h].user, handler[h].route.shared)
  BY DEF CheckPrivateIdentity
<1>4. handler[h].pc \in GroupPc
  BY <1>1 DEF GroupPc
<1>5. QED
  BY <1>1, <1>2, <1>3, <1>4, GotoKnown, AcceptInGroupInv

\* A decision for a private conversation names no group.
LEMMA PrivateAnswer ==
  ASSUME NEW ev, ev.group = None, NEW user \in User \cup {None},
         NEW role \in {"private", "pending"}, NEW readable \in SUBSET Nat,
         role = "private" => <<ev.ref, user>> \in ever
  PROVE  Decent(ev, Decision(TRUE, user, role, readable))
PROOF
BY DEF Decent, Decision, DecisionType

LEMMA AdmitPrivateInv ==
  ASSUME IndInv, NEW h \in Handler, AdmitPrivate(h)
  PROVE  IndInv'
PROOF
<1>1. Untouched /\ handler[h].pc = "private"
  BY DEF AdmitPrivate, At, Untouched
<1>2. /\ handler[h].ev \in Event /\ handler[h].ev.ref \in Ref
      /\ handler[h].ev.group = None
  BY <1>1, KnownState, EventType DEF Holds, PrivatePc
<1>3. PICK u : u = identity[handler[h].ev.ref]
  OBVIOUS
<1>4. u # None => u \in User /\ <<handler[h].ev.ref, u>> \in ever
  BY <1>2, <1>3 DEF IndInv, TypeOK, BoundInv
<1>5. \/ Goto(h, "issueLink")
      \/ Decide(h, Decision(TRUE, None, "pending", {}))
      \/ u # None /\ handler' = [handler EXCEPT ![h].pc = "issueActivation",
                                                ![h].user = u]
      \/ u # None /\ Deny(h, u)
      \/ u # None /\ Decide(h, Decision(TRUE, u, "private", SharedOwnersForMember(u)))
  BY <1>3 DEF AdmitPrivate
<1>6. CASE Goto(h, "issueLink")
  <2>1. handler[h].pc \in PrivatePc
    BY <1>1 DEF PrivatePc
  <2>2. QED
    BY <1>1, <1>6, <2>1, GotoAnyway
<1>7. CASE Decide(h, Decision(TRUE, None, "pending", {}))
  BY <1>1, <1>2, <1>7, PrivateAnswer, DecideInv
<1>8. CASE u # None /\ handler' = [handler EXCEPT ![h].pc = "issueActivation",
                                                  ![h].user = u]
  BY <1>1, <1>3, <1>8, FoundInv DEF PrivatePc
<1>9. CASE u # None /\ Deny(h, u)
  BY <1>1, <1>4, <1>9, DenyInv
<1>10. CASE u # None /\ Decide(h, Decision(TRUE, u, "private", SharedOwnersForMember(u)))
  <2>1. SharedOwnersForMember(u) \subseteq Nat
    BY DEF SharedOwnersForMember, IndInv, TypeOK, RouteType
  <2>2. QED
    BY <1>1, <1>2, <1>4, <1>10, <2>1, PrivateAnswer, DecideInv
<1>11. QED
  BY <1>5, <1>6, <1>7, <1>8, <1>9, <1>10

-----------------------------------------------------------------------------
(* Steps that write receipts and codes.                                    *)

\* The tables of users and routes stay; codes, receipts and the handler change.
LEMMA CodesMove ==
  ASSUME IndInv, NEW h \in Handler, NEW s \in HandlerType,
         handler' = [handler EXCEPT ![h] = s], Holds(s),
         UNCHANGED <<userVars, routeVars, challenge>>,
         activation' \in [ActivationCode -> User \cup {None, "used"}],
         link' \in [LinkCode -> Ref \cup {None, "used"}],
         denied' \in [User -> 0 .. AttemptLimit], unbound' \subseteq Ref
  PROVE  IndInv'
PROOF
<1>1. Keeps
  BY DEF userVars, routeVars, Keeps
<1>2. handler' \in [Handler -> HandlerType] => Tables'
  BY TablesStay DEF IndInv, TypeOK, BoundInv, userVars
<1>3. Holds(s)'
  BY <1>1, HoldsStill DEF IndInv
<1>4. QED
  BY <1>1, <1>2, <1>3, HandlerMoves

LEMMA CodeTypes ==
  ASSUME IndInv
  PROVE  /\ activation \in [ActivationCode -> User \cup {None, "used"}]
         /\ link \in [LinkCode -> Ref \cup {None, "used"}]
         /\ denied \in [User -> 0 .. AttemptLimit] /\ unbound \subseteq Ref
PROOF
BY DEF IndInv, TypeOK

LEMMA ConsumeActivationInv ==
  ASSUME IndInv, NEW h \in Handler, ConsumeActivation(h)
  PROVE  IndInv'
PROOF
<1>1. PICK old \in HandlerType : old = handler[h] /\ Holds(old) /\ old.pc = "activate"
  BY KnownState DEF ConsumeActivation, At
<1>2. PICK c : c = old.ev.code
  OBVIOUS
<1>3. CASE activation[c] \in User
  <2>1. PICK u \in User : u = activation[c]
    BY <1>3
  <2>2. /\ activation' = [activation EXCEPT ![c] = "used"]
        /\ handler' = [handler EXCEPT ![h].pc = "activator", ![h].user = u]
        /\ UNCHANGED <<userVars, routeVars, link, denied, challenge, unbound>>
    BY <1>1, <1>2, <1>3, <2>1 DEF ConsumeActivation
  <2>3. PICK s : s = [pc |-> "activator", ev |-> old.ev, route |-> old.route,
                      user |-> u, target |-> old.target, dec |-> old.dec]
    OBVIOUS
  <2>4. s \in HandlerType
    BY <2>3 DEF HandlerType, GroupPc
  <2>5. handler' = [handler EXCEPT ![h] = s]
    <3>1. handler \in [Handler -> HandlerType]
      BY DEF IndInv, TypeOK
    <3>2. \A d \in Handler \ {h} : handler'[d] = handler[d]
      BY <2>2, <3>1
    <3>3. handler'[h] = s
      BY <1>1, <2>2, <2>3, <3>1 DEF HandlerType
    <3>4. handler' = [d \in Handler |-> handler'[d]]
      BY <2>2, <3>1
    <3>5. QED
      BY <3>1, <3>2, <3>3, <3>4
  <2>6. Holds(s)
    BY <1>1, <2>3 DEF Holds, GroupPc, PrivatePc
  <2>7. activation' \in [ActivationCode -> User \cup {None, "used"}]
    BY <2>2, CodeTypes
  <2>8. QED
    BY <2>2, <2>4, <2>5, <2>6, <2>7, CodesMove, CodeTypes
<1>4. CASE activation[c] \notin User
  <2>1. Goto(h, "admit") /\ Untouched
    BY <1>1, <1>2, <1>4 DEF ConsumeActivation, Untouched, codeVars
  <2>2. handler[h].pc \in GroupPc
    BY <1>1 DEF GroupPc
  <2>3. QED
    BY <2>1, <2>2, GotoAnyway
<1>5. QED
  BY <1>3, <1>4

LEMMA ConsumePrivateLinkInv ==
  ASSUME IndInv, NEW h \in Handler, ConsumePrivateLink(h)
  PROVE  IndInv'
PROOF
<1>1. PICK old \in HandlerType : old = handler[h] /\ Holds(old) /\ old.pc = "link"
  BY KnownState DEF ConsumePrivateLink, At
<1>2. PICK c, u : c = old.ev.code /\ u = old.user
  OBVIOUS
<1>3. /\ old.ev \in Event /\ u \in users /\ u \in User /\ <<old.ev.ref, u>> \in ever
      /\ old.ev.group \in Group /\ old.route \in RouteType /\ old.route.shared # 0
      /\ old.route.shared = route[old.ev.group].shared
  BY <1>1, <1>2 DEF Holds, GroupPc, IndInv, TypeOK
<1>4. UNCHANGED <<userVars, routeVars, activation, challenge, unbound>>
  BY DEF ConsumePrivateLink
<1>5. CASE denied[u] < AttemptLimit /\ link[c] \in Ref
  <2>1. PICK r \in Ref : r = link[c]
    BY <1>5
  <2>2. /\ link' = [link EXCEPT ![c] = "used"] /\ denied' = denied
        /\ handler' = [handler EXCEPT ![h].pc = "linkCheck", ![h].target = r]
    BY <1>1, <1>2, <1>5, <2>1 DEF ConsumePrivateLink
  <2>3. PICK s : s = [pc |-> "linkCheck", ev |-> old.ev, route |-> old.route,
                      user |-> u, target |-> r, dec |-> old.dec]
    OBVIOUS
  <2>4. s \in HandlerType
    BY <1>3, <2>3 DEF HandlerType, GroupPc
  <2>5. handler' = [handler EXCEPT ![h] = s]
    <3>1. handler \in [Handler -> HandlerType]
      BY DEF IndInv, TypeOK
    <3>2. \A d \in Handler \ {h} : handler'[d] = handler[d]
      BY <2>2, <3>1
    <3>3. handler'[h] = s
      BY <1>1, <1>2, <2>2, <2>3, <3>1 DEF HandlerType
    <3>4. handler' = [d \in Handler |-> handler'[d]]
      BY <2>2, <3>1
    <3>5. QED
      BY <3>1, <3>2, <3>3, <3>4
  <2>6. Holds(s)
    BY <1>3, <2>3 DEF Holds, PrivatePc
  <2>7. link' \in [LinkCode -> Ref \cup {None, "used"}]
    BY <2>2, CodeTypes
  <2>8. QED
    BY <1>4, <2>2, <2>4, <2>5, <2>6, <2>7, CodesMove, CodeTypes
<1>6. CASE ~ (denied[u] < AttemptLimit /\ link[c] \in Ref)
  <2>1. /\ denied' = IF denied[u] >= AttemptLimit THEN denied
                     ELSE [denied EXCEPT ![u] = @ + 1]
        /\ AcceptInGroup(h, u, old.route.shared) /\ link' = link
    BY <1>1, <1>2, <1>6 DEF ConsumePrivateLink
  <2>2. PICK dec : dec = Decision(TRUE, u, "member", {old.route.shared})
    OBVIOUS
  <2>3. Decent(old.ev, dec)
    BY <1>3, <2>2, GroupAnswer DEF RouteType
  <2>4. PICK s \in HandlerType : /\ handler' = [handler EXCEPT ![h] = s]
                                 /\ s.pc = "done" /\ s.ev = old.ev /\ s.dec = dec
    <3>1. Decide(h, dec)
      BY <2>1, <2>2 DEF AcceptInGroup
    <3>2. dec \in DecisionType
      BY <2>3 DEF Decent
    <3>3. QED
      BY <1>1, <3>1, <3>2, DecideState
  <2>5. Holds(s)
    BY <1>3, <2>3, <2>4, DecidedHolds
  <2>6. denied' \in [User -> 0 .. AttemptLimit]
    <3>1. denied[u] \in 0 .. AttemptLimit /\ AttemptLimit \in Nat
      BY <1>3, CodeTypes, AdmissionAssumption
    <3>2. CASE denied[u] >= AttemptLimit
      BY <2>1, <3>2, CodeTypes
    <3>3. CASE ~ (denied[u] >= AttemptLimit)
      <4>1. denied[u] + 1 \in 0 .. AttemptLimit
        BY <3>1, <3>3
      <4>2. QED
        BY <2>1, <3>3, <4>1, CodeTypes
    <3>4. QED
      BY <3>2, <3>3
  <2>7. QED
    BY <1>4, <2>1, <2>4, <2>5, <2>6, CodesMove, CodeTypes
<1>7. QED
  BY <1>5, <1>6

LEMMA IssuePrivateLinkInv ==
  ASSUME IndInv, NEW h \in Handler, IssuePrivateLink(h)
  PROVE  IndInv'
PROOF
<1>1. /\ UNCHANGED <<userVars, routeVars, activation, denied, challenge, unbound>>
      /\ Decide(h, Decision(TRUE, None, "pending", {}))
  BY DEF IssuePrivateLink
<1>2. /\ handler[h].ev \in Event /\ handler[h].ev.ref \in Ref
      /\ handler[h].ev.group = None
  BY KnownState, EventType DEF IssuePrivateLink, At, Holds, PrivatePc
<1>3. PICK dec : dec = Decision(TRUE, None, "pending", {})
  OBVIOUS
<1>4. Decent(handler[h].ev, dec)
  BY <1>2, <1>3, PrivateAnswer
<1>5. PICK s \in HandlerType : /\ handler' = [handler EXCEPT ![h] = s] /\ s.pc = "done"
                               /\ s.ev = handler[h].ev /\ s.dec = dec
  <2>1. Decide(h, dec) /\ dec \in DecisionType
    BY <1>1, <1>3, <1>4 DEF Decent
  <2>2. QED
    BY <2>1, DecideState
<1>6. Holds(s)
  BY <1>2, <1>4, <1>5, DecidedHolds
<1>7. link' \in [LinkCode -> Ref \cup {None, "used"}]
  BY <1>2, CodeTypes DEF IssuePrivateLink, Issue
<1>8. QED
  BY <1>1, <1>5, <1>6, <1>7, CodesMove, CodeTypes

LEMMA IssueActivationInv ==
  ASSUME IndInv, NEW h \in Handler, IssueActivation(h)
  PROVE  IndInv'
PROOF
<1>1. PICK u : u = handler[h].user
  OBVIOUS
<1>2. /\ UNCHANGED <<userVars, routeVars, link, denied, challenge, unbound>>
      /\ Decide(h, Decision(TRUE, u, "private", {}))
  BY <1>1 DEF IssueActivation
<1>3. /\ handler[h].ev \in Event /\ handler[h].ev.group = None
      /\ <<handler[h].ev.ref, u>> \in ever /\ u \in User \cup {None}
  BY <1>1, KnownState DEF IssueActivation, At, Holds, PrivatePc, HandlerType
<1>4. PICK dec : dec = Decision(TRUE, u, "private", {})
  OBVIOUS
<1>5. Decent(handler[h].ev, dec)
  BY <1>3, <1>4, PrivateAnswer
<1>6. PICK s \in HandlerType : /\ handler' = [handler EXCEPT ![h] = s] /\ s.pc = "done"
                               /\ s.ev = handler[h].ev /\ s.dec = dec
  <2>1. Decide(h, dec) /\ dec \in DecisionType
    BY <1>2, <1>4, <1>5 DEF Decent
  <2>2. QED
    BY <2>1, DecideState
<1>7. Holds(s)
  BY <1>3, <1>5, <1>6, DecidedHolds
<1>8. activation' \in [ActivationCode -> User \cup {None, "used"}]
  BY <1>1, <1>3, CodeTypes DEF IssueActivation, Issue
<1>9. QED
  BY <1>2, <1>6, <1>7, <1>8, CodesMove, CodeTypes

LEMMA IdleHolds == Idle \in HandlerType /\ Holds(Idle)
PROOF
BY DEF Idle, HandlerType, Holds, GroupPc, PrivatePc

LEMMA FinishInv ==
  ASSUME IndInv, NEW h \in Handler, Finish(h)
  PROVE  IndInv'
PROOF
<1>1. handler[h].ev.ref \in Ref
  BY KnownState, EventType DEF Finish, At, Holds
<1>2. unbound' \subseteq Ref
  BY <1>1, CodeTypes DEF Finish
<1>3. /\ UNCHANGED <<userVars, routeVars, activation, link, denied, challenge>>
      /\ handler' = [handler EXCEPT ![h] = Idle]
  BY DEF Finish, codeVars
<1>4. QED
  BY <1>2, <1>3, IdleHolds, CodesMove, CodeTypes

-----------------------------------------------------------------------------
(* Steps that write users, identities and routes.                          *)

LEMMA BindTables ==
  ASSUME IndInv, NEW r \in Ref, NEW u, u \in users', BindIdentity(r, u),
         users \subseteq users', users' \subseteq User, admins' \subseteq users',
         UNCHANGED <<routeVars, activation, link, denied, unbound>>,
         challenge' \in {challenge, None}, handler' \in [Handler -> HandlerType]
  PROVE  Tables' /\ Keeps /\ <<r, u>> \in ever'
PROOF
<1>1. UNCHANGED <<route, members, owners, observed>>
  BY DEF routeVars
<1>2. identity' = [identity EXCEPT ![r] = u] /\ ever' = ever \cup {<<r, u>>}
  BY DEF BindIdentity
<1>3. identity \in [Ref -> users \cup {None}] /\ members \in [Group -> SUBSET users]
  BY DEF IndInv, TypeOK
<1>4. identity' \in [Ref -> users' \cup {None}] /\ members' \in [Group -> SUBSET users']
  BY <1>1, <1>2, <1>3
<1>5. TypeOK'
  BY <1>1, <1>4 DEF IndInv, TypeOK
<1>6. BoundInv'
  BY <1>2, <1>3 DEF IndInv, BoundInv
<1>7. RouteInv' /\ Keeps
  BY <1>1, <1>2 DEF IndInv, RouteInv, Keeps
<1>8. QED
  BY <1>2, <1>5, <1>6, <1>7 DEF Tables

\* A new row in users.
LEMMA NewUser ==
  ASSUME IndInv, NEW u \in User, users' = users \cup {u}, admins' \subseteq users',
         UNCHANGED <<identity, ever, routeVars, codeVars, unbound>>,
         handler' \in [Handler -> HandlerType]
  PROVE  Tables' /\ Keeps
PROOF
<1>1. UNCHANGED <<route, members, owners, observed, activation, link, denied, challenge>>
  BY DEF routeVars, codeVars
<1>2. identity \in [Ref -> users \cup {None}] /\ members \in [Group -> SUBSET users]
  BY DEF IndInv, TypeOK
<1>3. identity' \in [Ref -> users' \cup {None}] /\ members' \in [Group -> SUBSET users']
  BY <1>1, <1>2
<1>4. TypeOK'
  BY <1>1, <1>3 DEF IndInv, TypeOK
<1>5. BoundInv' /\ RouteInv' /\ Keeps
  BY <1>1 DEF IndInv, BoundInv, RouteInv, Keeps
<1>6. QED
  BY <1>4, <1>5 DEF Tables

\* A new member of a group.
LEMMA NewMember ==
  ASSUME IndInv, NEW g, NEW u \in users, members' = [members EXCEPT ![g] = @ \cup {u}],
         UNCHANGED <<userVars, route, owners, observed, codeVars, unbound>>,
         handler' \in [Handler -> HandlerType]
  PROVE  Tables' /\ Keeps
PROOF
<1>1. UNCHANGED <<users, admins, identity, ever, activation, link, denied, challenge>>
  BY DEF userVars, codeVars
<1>2. members' \in [Group -> SUBSET users']
  BY <1>1 DEF IndInv, TypeOK
<1>3. TypeOK'
  BY <1>1, <1>2 DEF IndInv, TypeOK
<1>4. BoundInv' /\ RouteInv' /\ Keeps
  BY <1>1 DEF IndInv, BoundInv, RouteInv, Keeps
<1>5. QED
  BY <1>3, <1>4 DEF Tables

\* A workspace is made once for a group and under a number of its own.
LEMMA SetCommandsTables ==
  ASSUME IndInv, NEW g \in Group, NEW u \in users, NEW enabled \in BOOLEAN,
         NEW mode \in Mode, NEW ids, SetCommandsEnabled(g, u, enabled, mode, ids),
         UNCHANGED <<userVars, codeVars, unbound>>, handler' \in [Handler -> HandlerType]
  PROVE  /\ Tables' /\ Keeps
         /\ enabled /\ mode = "internal" => route'[g].shared # 0
         /\ route'[g].shared \in Nat
PROOF
<1>1. UNCHANGED <<users, admins, identity, ever, observed, activation, link, denied,
                  challenge>>
  BY DEF userVars, codeVars, SetCommandsEnabled
<1>2. PICK m \in Mode : m = IF enabled THEN mode ELSE "disabled"
  BY DEF Mode
<1>3. PICK old \in RouteType : old = route[g]
  BY DEF IndInv, TypeOK
<1>4. old.shared \in Nat /\ owners \in Nat /\ old.shared \in 0 .. owners
      /\ old.owner \in User \cup {None} /\ u \in User
  BY <1>3 DEF RouteType, IndInv, RouteInv, TypeOK
<1>5. PICK n : n = IF m = "internal" /\ old.shared = 0 THEN owners + 1 ELSE owners
  OBVIOUS
<1>6. owners' = n /\ n \in Nat /\ n >= owners
  BY <1>2, <1>3, <1>4, <1>5 DEF SetCommandsEnabled
<1>7. PICK new : new = [seen |-> TRUE, enabled |-> enabled,
                        owner |-> IF enabled THEN u ELSE old.owner, mode |-> m,
                        shared |-> IF old.shared = 0 /\ m = "internal" THEN n
                                   ELSE old.shared]
  OBVIOUS
<1>8. /\ new \in RouteType /\ new.mode = m
      /\ new.shared = IF old.shared = 0 /\ m = "internal" THEN n ELSE old.shared
  BY <1>4, <1>6, <1>7 DEF RouteType
<1>9. route' = [route EXCEPT ![g] = new]
  BY <1>2, <1>3, <1>6, <1>7 DEF SetCommandsEnabled
<1>10. /\ route' \in [Group -> RouteType] /\ route'[g] = new
       /\ \A k \in Group \ {g} : route'[k] = route[k]
  BY <1>8, <1>9 DEF IndInv, TypeOK
<1>11. \A k \in Group : route[k].shared \in 0 .. owners
  BY DEF IndInv, TypeOK
<1>12. /\ old.shared # 0 => new.shared = old.shared
       /\ m = "internal" => new.shared # 0
       /\ old.shared = 0 /\ new.shared # 0 => new.shared = owners + 1
       /\ new.shared \in 0 .. n
  BY <1>4, <1>5, <1>6, <1>8
<1>13. Keeps
  BY <1>1, <1>3, <1>10, <1>12 DEF Keeps
<1>14. members' \in [Group -> SUBSET users']
  <2>1. PICK ms : ms = IF m # "internal" THEN {}
                       ELSE (IF ids = None THEN members[g] ELSE ids) \cup {u}
    OBVIOUS
  <2>2. ms \subseteq users
    BY <2>1 DEF SetCommandsEnabled, IndInv, TypeOK
  <2>3. members' = [members EXCEPT ![g] = ms]
    BY <1>2, <2>1 DEF SetCommandsEnabled
  <2>4. QED
    BY <1>1, <2>2, <2>3 DEF IndInv, TypeOK
<1>15. \A k \in Group : route'[k].shared \in 0 .. owners'
  BY <1>4, <1>6, <1>10, <1>11, <1>12
<1>16. TypeOK'
  BY <1>1, <1>10, <1>14, <1>15 DEF IndInv, TypeOK
<1>17. BoundInv'
  BY <1>1 DEF IndInv, BoundInv
<1>18. RouteInv'
  <2>1. \A j, k \in Group : j # k /\ route'[j].shared # 0 => route'[j].shared # route'[k].shared
    <3>1. \A k \in Group \ {g} : new.shared # 0 => new.shared # route[k].shared
      BY <1>3, <1>4, <1>11, <1>12 DEF IndInv, RouteInv
    <3>2. QED
      BY <1>10, <3>1 DEF IndInv, RouteInv
  <2>2. \A k \in Group : route'[k].mode = "internal" => route'[k].shared # 0
    BY <1>8, <1>10, <1>12 DEF IndInv, RouteInv
  <2>3. QED
    BY <1>6, <2>1, <2>2 DEF RouteInv
<1>19. /\ enabled /\ mode = "internal" => route'[g].shared # 0
       /\ route'[g].shared \in Nat
  BY <1>2, <1>8, <1>10, <1>12 DEF RouteType
<1>20. QED
  BY <1>13, <1>16, <1>17, <1>18, <1>19 DEF Tables

LEMMA HandlerTyped ==
  ASSUME IndInv, NEW h \in Handler, NEW s \in HandlerType,
         handler' = [handler EXCEPT ![h] = s]
  PROVE  handler' \in [Handler -> HandlerType]
PROOF
BY DEF IndInv, TypeOK

\* A handler that holds on to what it knows while the tables move on.
LEMMA HoldsNext ==
  ASSUME IndInv, NEW h \in Handler, Keeps, NEW s \in HandlerType,
         s.ev = handler[h].ev, s.route = handler[h].route,
         handler[h].pc \in GroupPc, s.pc \in GroupPc,
         s.pc \in {"bindActivator", "enable", "member", "join", "granted", "link",
                   "linkCheck", "linkBind"} => s.user \in users',
         s.pc \in {"enable", "member", "join", "granted", "link", "linkCheck",
                   "linkBind"} => <<s.ev.ref, s.user>> \in ever',
         s.pc \in {"provisionIdentity", "provisionMember"} => s.ev.ref \in users',
         s.pc \notin {"link", "linkCheck", "linkBind"}
  PROVE  Holds(s)'
PROOF
<1>1. /\ handler[h].ev \in Event /\ handler[h].ev.group \in Group
      /\ handler[h].route \in RouteType
      /\ handler[h].route.shared \in {0, route[handler[h].ev.group].shared}
  BY KnownState DEF Holds, GroupPc
<1>2. s.route.shared \in {0, route'[s.ev.group].shared}
  BY <1>1 DEF Keeps
<1>3. s.pc \notin PrivatePc /\ s.pc # "done" /\ s.pc # "issueActivation"
  BY DEF GroupPc, PrivatePc
<1>4. QED
  BY <1>1, <1>2, <1>3 DEF Holds

LEMMA ReceiveInv ==
  ASSUME IndInv, NEW h \in Handler, Receive(h)
  PROVE  IndInv'
PROOF
<1>1. PICK ev, g :
        /\ ev \in Event
        /\ g = ev.group
        /\ route' = IF g = None THEN route ELSE [route EXCEPT ![g].seen = TRUE]
        /\ observed' = IF g = None THEN observed \cup {ev.ref} ELSE observed
        /\ handler' = [handler EXCEPT ![h] =
                         [Idle EXCEPT !.pc = IF g = None THEN "private" ELSE "group",
                                      !.ev = ev,
                                      !.route = IF g = None THEN None ELSE route'[g]]]
  BY DEF Receive
<1>2. UNCHANGED <<users, admins, identity, ever, members, owners, activation, link,
                  denied, challenge, unbound>>
  BY DEF Receive, userVars, codeVars
<1>3. /\ g \in Group \/ g = None
      /\ g = None => ev.ref \in PrivateRef
      /\ g \in Group => g # None
  BY <1>1, EventType, AdmissionAssumption
<1>4. route \in [Group -> RouteType]
  BY DEF IndInv, TypeOK
<1>5. /\ route' \in [Group -> RouteType]
      /\ \A k \in Group : route'[k].shared = route[k].shared
                          /\ route'[k].mode = route[k].mode
  <2>1. CASE g = None
    BY <1>1, <1>4, <2>1
  <2>2. CASE g \in Group
    <3>1. PICK new : new = [route[g] EXCEPT !.seen = TRUE]
      OBVIOUS
    <3>2. /\ new \in RouteType /\ new.shared = route[g].shared
          /\ new.mode = route[g].mode
      BY <1>4, <2>2, <3>1 DEF RouteType
    <3>3. route' = [route EXCEPT ![g] = new]
      BY <1>1, <1>3, <1>4, <2>2, <3>1
    <3>4. QED
      BY <1>4, <2>2, <3>2, <3>3
  <2>3. QED
    BY <1>3, <2>1, <2>2
<1>6. PICK s : s = [pc |-> IF g = None THEN "private" ELSE "group", ev |-> ev,
                    route |-> IF g = None THEN None ELSE route'[g], user |-> None,
                    target |-> None, dec |-> None]
  OBVIOUS
<1>7. s \in HandlerType
  BY <1>1, <1>3, <1>5, <1>6 DEF HandlerType, GroupPc, PrivatePc
<1>8. handler' = [handler EXCEPT ![h] = s]
  <2>1. PICK pc, rt : /\ pc = IF g = None THEN "private" ELSE "group"
                      /\ rt = IF g = None THEN None ELSE route'[g]
    OBVIOUS
  <2>2. PICK i, t : /\ i = [pc |-> "idle", ev |-> None, route |-> None, user |-> None,
                            target |-> None, dec |-> None]
                    /\ t = [i EXCEPT !.pc = pc, !.ev = ev, !.route = rt]
    OBVIOUS
  <2>3. handler' = [handler EXCEPT ![h] = t]
    BY <1>1, <2>1, <2>2 DEF Idle
  <2>4. t = [pc |-> pc, ev |-> ev, route |-> rt, user |-> None, target |-> None,
             dec |-> None]
    BY <2>2
  <2>5. QED
    BY <1>6, <2>1, <2>3, <2>4
<1>9. handler' \in [Handler -> HandlerType]
  BY <1>7, <1>8, HandlerTyped
<1>10. observed' \subseteq PrivateRef
  BY <1>1, <1>3 DEF IndInv, TypeOK
<1>11. TypeOK'
  BY <1>2, <1>5, <1>9, <1>10 DEF IndInv, TypeOK
<1>12. BoundInv' /\ RouteInv' /\ Keeps
  BY <1>2, <1>5 DEF IndInv, BoundInv, RouteInv, Keeps
<1>13. Holds(s)'
  <2>1. CASE g = None
    BY <1>1, <1>6, <2>1 DEF Holds, GroupPc, PrivatePc
  <2>2. CASE g \in Group
    <3>1. s.pc = "group" /\ s.ev = ev /\ s.route = route'[g] /\ s.route \in RouteType
      BY <1>3, <1>5, <1>6, <2>2
    <3>2. QED
      BY <1>1, <2>2, <3>1 DEF Holds, PrivatePc
  <2>3. QED
    BY <1>3, <2>1, <2>2
<1>14. QED
  BY <1>7, <1>8, <1>11, <1>12, <1>13, HandlerMoves DEF Tables

LEMMA BindActivatorInv ==
  ASSUME IndInv, NEW h \in Handler, BindActivator(h)
  PROVE  IndInv'
PROOF
<1>1. PICK r, u : r = handler[h].ev.ref /\ u = handler[h].user
  OBVIOUS
<1>2. handler[h].pc = "bindActivator" /\ r \in Ref /\ u \in users
  BY <1>1, KnownState, EventType DEF BindActivator, At, Holds
<1>3. UNCHANGED <<users, admins, routeVars, codeVars, unbound>>
  BY DEF BindActivator
<1>4. CASE BindIdentity(r, u) /\ Goto(h, "enable")
  <2>1. PICK s \in HandlerType :
           /\ handler' = [handler EXCEPT ![h] = s]
           /\ s.pc = "enable" /\ s.ev = handler[h].ev /\ s.route = handler[h].route
           /\ s.user = handler[h].user /\ s.target = handler[h].target
    BY <1>4, GotoState DEF GroupPc
  <2>2. Tables' /\ Keeps /\ <<r, u>> \in ever'
    BY <1>2, <1>3, <1>4, <2>1, HandlerTyped, BindTables DEF IndInv, TypeOK, codeVars
  <2>3. handler[h].pc \in GroupPc /\ s.pc \in GroupPc
    BY <1>2, <2>1 DEF GroupPc
  <2>4. Holds(s)'
    BY <1>1, <1>2, <1>3, <2>1, <2>2, <2>3, HoldsNext
  <2>5. QED
    BY <2>1, <2>2, <2>4, HandlerMoves
<1>5. CASE Raise(h) /\ UNCHANGED <<identity, ever>>
  BY <1>3, <1>5, RaiseInv DEF userVars
<1>6. QED
  BY <1>1, <1>4, <1>5 DEF BindActivator

LEMMA EnableGroupInv ==
  ASSUME IndInv, NEW h \in Handler, EnableGroup(h)
  PROVE  IndInv'
PROOF
<1>1. PICK g, u : g = handler[h].ev.group /\ u = handler[h].user
  OBVIOUS
<1>2. /\ g \in Group /\ u \in users /\ handler[h].ev \in Event
      /\ <<handler[h].ev.ref, u>> \in ever /\ u \in User
  BY <1>1, KnownState DEF EnableGroup, At, Holds, GroupPc, IndInv, TypeOK
<1>3. UNCHANGED <<userVars, codeVars, unbound>>
  BY DEF EnableGroup
<1>4. CASE /\ SetCommandsEnabled(g, u, TRUE, "internal", {u})
           /\ AcceptInGroup(h, u, route'[g].shared)
  <2>1. PICK n : n = route'[g].shared
    OBVIOUS
  <2>2. PICK dec : dec = Decision(TRUE, u, "member", {n})
    OBVIOUS
  <2>3. Decide(h, dec)
    BY <1>4, <2>1, <2>2 DEF AcceptInGroup
  \* The handler is a handler before the workspace is known to be a number.
  <2>4. n \in Nat
    <3>1. owners \in Nat /\ route[g] \in RouteType /\ route[g].shared \in Nat
      BY <1>2 DEF IndInv, RouteInv, TypeOK, RouteType
    <3>2. owners' \in Nat
      BY <1>4, <3>1 DEF SetCommandsEnabled
    <3>3. PICK k \in Nat : k = owners'
      BY <3>2
    <3>4. PICK new : new = [seen |-> TRUE, enabled |-> TRUE, owner |-> u,
                            mode |-> "internal",
                            shared |-> IF route[g].shared = 0 THEN k
                                       ELSE route[g].shared]
      OBVIOUS
    <3>5. route' = [route EXCEPT ![g] = new]
      BY <1>2, <1>4, <3>3, <3>4 DEF SetCommandsEnabled, IndInv, TypeOK
    <3>6. route'[g] = new
      BY <1>2, <3>5 DEF IndInv, TypeOK
    <3>7. QED
      BY <2>1, <3>1, <3>3, <3>4, <3>6
  <2>5. dec \in DecisionType /\ dec.user = u /\ dec.readable = {n}
    BY <1>2, <2>2, <2>4 DEF Decision, DecisionType
  <2>6. PICK s \in HandlerType : /\ handler' = [handler EXCEPT ![h] = s] /\ s.pc = "done"
                                 /\ s.ev = handler[h].ev /\ s.dec = dec
    BY <2>3, <2>5, DecideState
  <2>7. Tables' /\ Keeps /\ n # 0
    BY <1>2, <1>3, <1>4, <2>1, <2>6, HandlerTyped, SetCommandsTables DEF Mode
  <2>8. ever' = ever
    BY <1>3 DEF userVars
  <2>9. Holds(s)'
    BY <1>1, <1>2, <2>1, <2>5, <2>6, <2>7, <2>8 DEF Holds, GroupPc, PrivatePc
  <2>10. QED
    BY <2>6, <2>7, <2>9, HandlerMoves
<1>5. CASE Raise(h) /\ UNCHANGED routeVars
  BY <1>3, <1>5, RaiseInv
<1>6. QED
  BY <1>1, <1>4, <1>5 DEF EnableGroup

LEMMA ProvisionUserInv ==
  ASSUME IndInv, NEW h \in Handler, ProvisionUser(h)
  PROVE  IndInv'
PROOF
<1>1. handler[h].pc = "provision" /\ handler[h].ev.ref \in User
  BY KnownState, EventType DEF ProvisionUser, At, Holds
<1>2. PICK s \in HandlerType :
           /\ handler' = [handler EXCEPT ![h] = s] /\ s.pc = "provisionIdentity"
           /\ s.ev = handler[h].ev /\ s.route = handler[h].route
           /\ s.user = handler[h].user /\ s.target = handler[h].target
  BY GotoState DEF ProvisionUser, GroupPc
<1>3. /\ users' = users \cup {handler[h].ev.ref} /\ admins' \subseteq users'
      /\ UNCHANGED <<identity, ever, routeVars, codeVars, unbound>>
  BY DEF ProvisionUser, IndInv, TypeOK
<1>4. Tables' /\ Keeps
  BY <1>1, <1>2, <1>3, HandlerTyped, NewUser
<1>5. handler[h].pc \in GroupPc /\ s.pc \in GroupPc
  BY <1>1, <1>2 DEF GroupPc
<1>6. Holds(s)'
  BY <1>2, <1>3, <1>4, <1>5, HoldsNext
<1>7. QED
  BY <1>2, <1>4, <1>6, HandlerMoves

LEMMA ProvisionIdentityInv ==
  ASSUME IndInv, NEW h \in Handler, ProvisionIdentity(h)
  PROVE  IndInv'
PROOF
<1>1. PICK r : r = handler[h].ev.ref
  OBVIOUS
<1>2. handler[h].pc = "provisionIdentity" /\ r \in Ref /\ r \in users
  BY <1>1, KnownState, EventType DEF ProvisionIdentity, At, Holds
<1>3. UNCHANGED <<users, admins, routeVars, codeVars, unbound>>
  BY DEF ProvisionIdentity
<1>4. handler[h].pc \in GroupPc /\ "provisionMember" \in GroupPc
  BY <1>2 DEF GroupPc
<1>5. CASE BindIdentity(r, r) /\ Goto(h, "provisionMember")
  <2>1. PICK s \in HandlerType :
           /\ handler' = [handler EXCEPT ![h] = s]
           /\ s.pc = "provisionMember" /\ s.ev = handler[h].ev
           /\ s.route = handler[h].route
           /\ s.user = handler[h].user /\ s.target = handler[h].target
    BY <1>4, <1>5, GotoState
  <2>2. Tables' /\ Keeps
    BY <1>2, <1>3, <1>5, <2>1, HandlerTyped, BindTables DEF IndInv, TypeOK, codeVars
  <2>3. Holds(s)'
    BY <1>1, <1>2, <1>3, <1>4, <2>1, <2>2, HoldsNext
  <2>4. QED
    BY <2>1, <2>2, <2>3, HandlerMoves
<1>6. CASE /\ UNCHANGED <<identity, ever>>
           /\ \/ Goto(h, "provisionMember")
              \/ Decide(h, Decision(FALSE, None, "unbound", {}))
  <2>1. Untouched
    BY <1>3, <1>6 DEF Untouched, userVars
  <2>2. CASE Goto(h, "provisionMember")
    <3>1. PICK s \in HandlerType :
             /\ handler' = [handler EXCEPT ![h] = s]
             /\ s.pc = "provisionMember" /\ s.ev = handler[h].ev
             /\ s.route = handler[h].route
             /\ s.user = handler[h].user /\ s.target = handler[h].target
      BY <1>4, <2>2, GotoState
    <3>2. Holds(handler[h])
      BY KnownState
    <3>3. Holds(s)
      BY <1>1, <1>2, <1>4, <3>1, <3>2 DEF Holds, PrivatePc
    <3>4. QED
      BY <2>1, <3>1, <3>3, OnlyMoves DEF Untouched
  <2>3. CASE Decide(h, Decision(FALSE, None, "unbound", {}))
    BY <1>2, <2>1, <2>3, Refusal, DecideInv
  <2>4. QED
    BY <1>6, <2>2, <2>3
<1>7. QED
  BY <1>1, <1>5, <1>6 DEF ProvisionIdentity

LEMMA ProvisionMemberInv ==
  ASSUME IndInv, NEW h \in Handler, ProvisionMember(h)
  PROVE  IndInv'
PROOF
<1>1. handler[h].pc = "provisionMember" /\ handler[h].ev.ref \in users
  BY KnownState DEF ProvisionMember, At, Holds
<1>2. PICK s \in HandlerType :
           /\ handler' = [handler EXCEPT ![h] = s] /\ s.pc = "provisioned"
           /\ s.ev = handler[h].ev /\ s.route = handler[h].route
           /\ s.user = handler[h].user /\ s.target = handler[h].target
  BY GotoState DEF ProvisionMember, GroupPc
<1>3. /\ members' = [members EXCEPT ![handler[h].ev.group] = @ \cup {handler[h].ev.ref}]
      /\ UNCHANGED <<userVars, route, owners, observed, codeVars, unbound>>
  BY DEF ProvisionMember
<1>4. Tables' /\ Keeps
  BY <1>1, <1>2, <1>3, HandlerTyped, NewMember
<1>5. handler[h].pc \in GroupPc /\ s.pc \in GroupPc
  BY <1>1, <1>2 DEF GroupPc
<1>6. Holds(s)'
  BY <1>2, <1>4, <1>5, HoldsNext
<1>7. QED
  BY <1>2, <1>4, <1>6, HandlerMoves

LEMMA AddMemberInv ==
  ASSUME IndInv, NEW h \in Handler, AddMember(h)
  PROVE  IndInv'
PROOF
<1>1. /\ handler[h].pc = "join" /\ handler[h].user \in users
      /\ <<handler[h].ev.ref, handler[h].user>> \in ever
  BY KnownState DEF AddMember, At, Holds
<1>2. PICK s \in HandlerType :
           /\ handler' = [handler EXCEPT ![h] = s] /\ s.pc = "granted"
           /\ s.ev = handler[h].ev /\ s.route = handler[h].route
           /\ s.user = handler[h].user /\ s.target = handler[h].target
  BY GotoState DEF AddMember, GroupPc
<1>3. /\ members' = [members EXCEPT ![handler[h].ev.group] = @ \cup {handler[h].user}]
      /\ UNCHANGED <<userVars, route, owners, observed, codeVars, unbound>>
  BY DEF AddMember
<1>4. Tables' /\ Keeps
  BY <1>1, <1>2, <1>3, HandlerTyped, NewMember
<1>5. handler[h].pc \in GroupPc /\ s.pc \in GroupPc
  BY <1>1, <1>2 DEF GroupPc
<1>6. users' = users /\ ever' = ever
  BY <1>3 DEF userVars
<1>7. Holds(s)'
  BY <1>1, <1>2, <1>4, <1>5, <1>6, HoldsNext
<1>8. QED
  BY <1>2, <1>4, <1>7, HandlerMoves

LEMMA BindPrivateIdentityInv ==
  ASSUME IndInv, NEW h \in Handler, BindPrivateIdentity(h)
  PROVE  IndInv'
PROOF
<1>1. PICK r, u, n : /\ r = handler[h].target /\ u = handler[h].user
                     /\ n = handler[h].route.shared
  OBVIOUS
<1>2. /\ handler[h].pc = "linkBind" /\ r \in Ref /\ u \in users /\ u \in User
      /\ <<handler[h].ev.ref, u>> \in ever /\ handler[h].ev \in Event
      /\ handler[h].ev.group \in Group /\ n \in Nat \ {0}
      /\ n = route[handler[h].ev.group].shared
  BY <1>1, KnownState
    DEF BindPrivateIdentity, At, Holds, GroupPc, RouteType, IndInv, TypeOK
<1>3. UNCHANGED <<users, admins, routeVars, codeVars, unbound>>
  BY DEF BindPrivateIdentity
<1>4. CASE BindIdentity(r, u) /\ AcceptInGroup(h, u, n)
  <2>1. PICK dec : dec = Decision(TRUE, u, "member", {n})
    OBVIOUS
  <2>2. Decent(handler[h].ev, dec)
    BY <1>2, <2>1, GroupAnswer
  <2>3. Decide(h, dec) /\ dec \in DecisionType
    BY <1>4, <2>1, <2>2 DEF AcceptInGroup, Decent
  <2>4. PICK s \in HandlerType : /\ handler' = [handler EXCEPT ![h] = s] /\ s.pc = "done"
                                 /\ s.ev = handler[h].ev /\ s.dec = dec
    BY <2>3, DecideState
  <2>5. Tables' /\ Keeps
    BY <1>2, <1>3, <1>4, <2>4, HandlerTyped, BindTables DEF IndInv, TypeOK, codeVars
  <2>6. Holds(s)
    BY <1>2, <2>2, <2>4, DecidedHolds
  <2>7. Holds(s)'
    BY <2>5, <2>6, HoldsStill DEF IndInv
  <2>8. QED
    BY <2>4, <2>5, <2>7, HandlerMoves
<1>5. CASE Raise(h) /\ UNCHANGED <<identity, ever>>
  BY <1>3, <1>5, RaiseInv DEF userVars
<1>6. QED
  BY <1>1, <1>4, <1>5 DEF BindPrivateIdentity

-----------------------------------------------------------------------------
(* The administration page and the command line.                           *)

LEMMA HandlersWait ==
  ASSUME IndInv, UNCHANGED handler, Tables', Keeps
  PROVE  IndInv'
PROOF
<1>1. ASSUME NEW d \in Handler
      PROVE  Holds(handler[d])'
  <2>1. PICK s \in HandlerType : s = handler[d] /\ s = handler'[d] /\ Holds(s)
    BY KnownState
  <2>2. Holds(s)'
    BY <2>1, HoldsStill DEF IndInv
  <2>3. QED
    BY <2>1, <2>2 DEF Holds
<1>2. QED
  BY <1>1 DEF IndInv, Tables

LEMMA HandlersTyped ==
  ASSUME IndInv, UNCHANGED handler
  PROVE  handler' \in [Handler -> HandlerType]
PROOF
BY DEF IndInv, TypeOK

LEMMA UpdateChannelRouteInv ==
  ASSUME IndInv, NEW u \in User, UpdateChannelRoute(u)
  PROVE  IndInv'
PROOF
<1>1. PICK g, enabled, mode, ids :
        /\ g \in Group /\ enabled \in BOOLEAN /\ mode \in Mode \ {"disabled"}
        /\ SetCommandsEnabled(g, u, enabled, mode, ids)
  BY DEF UpdateChannelRoute
<1>2. u \in users /\ UNCHANGED <<userVars, codeVars, unbound, handler>>
  BY DEF UpdateChannelRoute, IndInv, TypeOK
<1>3. Tables' /\ Keeps
  BY <1>1, <1>2, HandlersTyped, SetCommandsTables
<1>4. QED
  BY <1>2, <1>3, HandlersWait

LEMMA UnbindIdentityInv ==
  ASSUME IndInv, NEW r \in Ref, UnbindIdentity(r)
  PROVE  IndInv'
PROOF
<1>1. /\ identity' = [identity EXCEPT ![r] = None]
      /\ UNCHANGED <<users, admins, ever, route, members, owners, observed, activation,
                     link, denied, challenge, unbound, handler>>
  BY DEF UnbindIdentity, routeVars, codeVars
<1>2. identity \in [Ref -> users \cup {None}]
  BY DEF IndInv, TypeOK
<1>3. identity' \in [Ref -> users' \cup {None}]
  BY <1>1, <1>2
<1>4. TypeOK'
  BY <1>1, <1>3 DEF IndInv, TypeOK
<1>5. BoundInv'
  BY <1>1, <1>2 DEF IndInv, BoundInv
<1>6. RouteInv' /\ Keeps
  BY <1>1 DEF IndInv, RouteInv, Keeps
<1>7. QED
  BY <1>1, <1>4, <1>5, <1>6, HandlersWait DEF Tables

LEMMA IssueIdentityChallengeInv ==
  ASSUME IndInv, NEW u \in User, IssueIdentityChallenge(u)
  PROVE  IndInv'
PROOF
<1>1. PICK r, ch :
        /\ r \in observed
        /\ ch = [user |-> u, ref |-> r, attempts |-> 0]
        /\ challenge' = ch
  BY DEF IssueIdentityChallenge
<1>2. r \in Ref /\ u \in users /\ 0 \in 0 .. AttemptLimit
  BY <1>1, AdmissionAssumption DEF IssueIdentityChallenge, IndInv, TypeOK, Ref
<1>3. ch \in Challenge /\ ch.user = u
  BY <1>1, <1>2 DEF Challenge
<1>4. UNCHANGED <<userVars, routeVars, activation, link, denied, unbound, handler>>
  BY DEF IssueIdentityChallenge
<1>5. Tables' /\ Keeps
  BY <1>1, <1>2, <1>3, <1>4, CodeTypes, HandlersTyped, TablesStay
<1>6. QED
  BY <1>4, <1>5, HandlersWait

LEMMA ConsumeIdentityChallengeInv ==
  ASSUME IndInv, ConsumeIdentityChallenge
  PROVE  IndInv'
PROOF
<1>1. /\ UNCHANGED <<users, admins, routeVars, activation, link, denied, unbound, handler>>
      /\ challenge # None /\ challenge.attempts < AttemptLimit
  BY DEF ConsumeIdentityChallenge
<1>2. PICK ch \in Challenge : ch = challenge /\ ch.user \in users
  BY <1>1 DEF IndInv, TypeOK, BoundInv
<1>3. CASE /\ challenge' = [challenge EXCEPT !.attempts = @ + 1]
           /\ UNCHANGED <<identity, ever>>
  <2>1. PICK new : new = [ch EXCEPT !.attempts = @ + 1]
    OBVIOUS
  <2>2. ch.attempts + 1 \in 0 .. AttemptLimit
    BY <1>1, <1>2, AdmissionAssumption DEF Challenge
  <2>3. new \in Challenge /\ new.user = ch.user
    BY <2>1, <2>2 DEF Challenge
  <2>4. UNCHANGED userVars
    BY <1>1, <1>3 DEF userVars
  <2>5. Tables' /\ Keeps
    BY <1>1, <1>2, <1>3, <2>1, <2>3, <2>4, CodeTypes, HandlersTyped, TablesStay
  <2>6. QED
    BY <1>1, <2>5, HandlersWait
<1>4. CASE BindIdentity(challenge.ref, challenge.user) /\ challenge' = None
  <2>1. ch.ref \in Ref /\ ch.user \in users' /\ BindIdentity(ch.ref, ch.user)
    BY <1>1, <1>2, <1>4 DEF Challenge
  <2>2. users \subseteq users' /\ users' \subseteq User /\ admins' \subseteq users'
    BY <1>1 DEF IndInv, TypeOK
  <2>3. Tables' /\ Keeps
    BY <1>1, <1>4, <2>1, <2>2, HandlersTyped, BindTables
  <2>4. QED
    BY <1>1, <2>3, HandlersWait
<1>5. QED
  BY <1>3, <1>4 DEF ConsumeIdentityChallenge

LEMMA BootstrapInv ==
  ASSUME IndInv, BootstrapAdmin \/ BootstrapQQOwner
  PROVE  IndInv'
PROOF
<1>1. Admin \in User
  BY DEF User
<1>2. CASE BootstrapAdmin
  <2>1. /\ users' = users \cup {Admin} /\ admins' \subseteq users'
        /\ UNCHANGED <<identity, ever, routeVars, codeVars, unbound, handler>>
    BY <1>2 DEF BootstrapAdmin
  <2>2. Tables' /\ Keeps
    BY <1>1, <2>1, HandlersTyped, NewUser
  <2>3. QED
    BY <2>1, <2>2, HandlersWait
<1>3. CASE BootstrapQQOwner /\ UNCHANGED userVars
  <2>1. UNCHANGED <<userVars, routeVars, activation, link, denied, challenge, unbound,
                    handler>>
    BY <1>3 DEF BootstrapQQOwner, codeVars
  <2>2. challenge' \in Challenge \cup {None} /\ (challenge' # None => challenge'.user \in users)
    BY <2>1 DEF IndInv, TypeOK, BoundInv
  <2>3. Tables' /\ Keeps
    BY <2>1, <2>2, CodeTypes, HandlersTyped, TablesStay
  <2>4. QED
    BY <2>1, <2>3, HandlersWait
<1>4. CASE /\ BootstrapQQOwner /\ NobodyYet /\ users' = {Admin} /\ admins' = {Admin}
           /\ \E r \in Candidates : BindIdentity(r, Admin)
  <2>1. PICK r \in Candidates : BindIdentity(r, Admin)
    BY <1>4
  <2>2. r \in Ref /\ Admin \in users' /\ users \subseteq users' /\ users' \subseteq User
        /\ admins' \subseteq users'
    BY <1>1, <1>4, <2>1 DEF Candidates, NobodyYet, IndInv, TypeOK, Ref
  <2>3. UNCHANGED <<routeVars, activation, link, denied, challenge, unbound, handler>>
    BY <1>4 DEF BootstrapQQOwner, codeVars
  <2>4. Tables' /\ Keeps
    BY <2>1, <2>2, <2>3, HandlersTyped, BindTables
  <2>5. QED
    BY <2>3, <2>4, HandlersWait
<1>5. QED
  BY <1>2, <1>3, <1>4 DEF BootstrapQQOwner

LEMMA LapseInv ==
  ASSUME IndInv, Lapse
  PROVE  IndInv'
PROOF
<1>1. UNCHANGED <<userVars, routeVars, unbound, handler>>
  BY DEF Lapse
<1>2. /\ activation' \in [ActivationCode -> User \cup {None, "used"}]
      /\ link' \in [LinkCode -> Ref \cup {None, "used"}]
  BY CodeTypes DEF Lapse
<1>3. denied' \in [User -> 0 .. AttemptLimit]
  <2>1. CASE UNCHANGED denied
    BY <2>1, CodeTypes
  <2>2. CASE \E u \in User : denied[u] > 0 /\ denied' = [denied EXCEPT ![u] = @ - 1]
    <3>1. PICK u \in User : denied[u] > 0 /\ denied' = [denied EXCEPT ![u] = @ - 1]
      BY <2>2
    <3>2. denied[u] - 1 \in 0 .. AttemptLimit
      BY <3>1, CodeTypes, AdmissionAssumption
    <3>3. QED
      BY <3>1, <3>2, CodeTypes
  <2>3. QED
    BY <2>1, <2>2 DEF Lapse
<1>4. challenge' \in Challenge \cup {None} /\ (challenge' # None => challenge'.user \in users)
  BY DEF Lapse, IndInv, TypeOK, BoundInv
<1>5. Tables' /\ Keeps
  BY <1>1, <1>2, <1>3, <1>4, CodeTypes, HandlersTyped, TablesStay
<1>6. QED
  BY <1>1, <1>5, HandlersWait

-----------------------------------------------------------------------------
(* The invariant and what follows from it.                                 *)

LEMMA InitInv ==
  ASSUME Init
  PROVE  IndInv
PROOF
<1>1. /\ users \subseteq User /\ admins = users /\ AttemptLimit \in Nat /\ None \notin User
  BY AdmissionAssumption DEF Init, User
<1>2. PICK p \in PrivateRef, g \in Group :
       /\ identity = [r \in Ref |-> IF ~ Fresh /\ r = p THEN Admin ELSE None]
       /\ observed = IF Fresh THEN {} ELSE {p}
       /\ route = [x \in Group |->
                     IF ~ Fresh /\ x = g
                     THEN [seen |-> TRUE, enabled |-> TRUE, owner |-> Admin,
                           mode |-> "internal", shared |-> 1]
                     ELSE Unseen]
       /\ members = [x \in Group |-> IF ~ Fresh /\ x = g THEN {Admin} ELSE {}]
  BY DEF Init
<1>3. ~ Fresh => Admin \in users
  BY DEF Init
<1>4. PICK first : first = [seen |-> TRUE, enabled |-> TRUE, owner |-> Admin,
                            mode |-> "internal", shared |-> 1]
  OBVIOUS
<1>5. PICK none : none = Unseen
  OBVIOUS
<1>6. /\ first \in RouteType /\ first.shared = 1
      /\ none \in RouteType /\ none.shared = 0 /\ none.mode = "disabled"
  BY <1>4, <1>5 DEF RouteType, Mode, Unseen, User
<1>7. /\ route \in [Group -> RouteType]
      /\ \A k \in Group : route[k] = IF ~ Fresh /\ k = g THEN first ELSE none
  BY <1>2, <1>4, <1>5, <1>6
<1>8. owners \in Nat /\ owners = (IF Fresh THEN 0 ELSE 1)
  BY DEF Init
<1>9. \A k \in Group : route[k].shared \in 0 .. owners
  BY <1>6, <1>7, <1>8
<1>10. /\ activation \in [ActivationCode -> User \cup {None, "used"}]
       /\ link \in [LinkCode -> Ref \cup {None, "used"}]
       /\ denied \in [User -> 0 .. AttemptLimit] /\ challenge = None /\ unbound = {}
  BY <1>1 DEF Init
<1>11. handler \in [Handler -> HandlerType] /\ \A h \in Handler : handler[h] = Idle
  BY IdleHolds DEF Init
<1>12. /\ identity \in [Ref -> users \cup {None}] /\ members \in [Group -> SUBSET users]
       /\ observed \subseteq PrivateRef
  BY <1>2, <1>3
<1>13. TypeOK
  BY <1>1, <1>7, <1>9, <1>10, <1>11, <1>12 DEF TypeOK
<1>14. BoundInv
  BY <1>10 DEF Init, BoundInv
<1>15. RouteInv
  BY <1>6, <1>7, <1>8 DEF RouteInv
<1>16. \A h \in Handler : Holds(handler[h])
  BY <1>11, IdleHolds
<1>17. QED
  BY <1>13, <1>14, <1>15, <1>16 DEF IndInv

LEMMA NextInv ==
  ASSUME IndInv, [Next]_vars
  PROVE  IndInv'
PROOF
<1>1. ASSUME NEW h \in Handler, HandlerStep(h)
      PROVE  IndInv'
  BY <1>1, ReceiveInv, AddressedInv, ConsumeActivationInv, CheckActivatorInv,
     BindActivatorInv, EnableGroupInv, AdmitInGroupInv, ProvisionUserInv,
     ProvisionIdentityInv, ProvisionMemberInv, ProvisionedInv, CheckMemberInv,
     AddMemberInv, GrantedInv, ConsumePrivateLinkInv, CheckPrivateIdentityInv,
     BindPrivateIdentityInv, AdmitPrivateInv, IssuePrivateLinkInv, IssueActivationInv,
     FinishInv
    DEF HandlerStep
<1>2. CASE \/ \E u \in User : UpdateChannelRoute(u) \/ IssueIdentityChallenge(u)
           \/ \E r \in Ref : UnbindIdentity(r)
           \/ ConsumeIdentityChallenge \/ BootstrapAdmin \/ BootstrapQQOwner \/ Lapse
  BY <1>2, UpdateChannelRouteInv, IssueIdentityChallengeInv, UnbindIdentityInv,
     ConsumeIdentityChallengeInv, BootstrapInv, LapseInv
<1>3. CASE UNCHANGED vars
  <2>1. UNCHANGED <<userVars, routeVars, codeVars, unbound, handler>>
    BY <1>3 DEF vars
  <2>2. UNCHANGED <<userVars, routeVars, activation, link, denied, challenge, unbound,
                    handler>>
    BY <2>1 DEF codeVars
  <2>3. challenge' \in Challenge \cup {None} /\ (challenge' # None => challenge'.user \in users)
    BY <2>2 DEF IndInv, TypeOK, BoundInv
  <2>4. Tables' /\ Keeps
    BY <2>2, <2>3, CodeTypes, HandlersTyped, TablesStay
  <2>5. QED
    BY <2>2, <2>4, HandlersWait
<1>4. QED
  BY <1>1, <1>2, <1>3 DEF Next

\* The inductive invariant of admission: what a handler of the broker has read in
\* earlier transactions is still true enough to act on, whatever other handlers,
\* the administration page and the command line do between its steps.
THEOREM Invariance == Spec => []IndInv
PROOF
<1>1. Init => IndInv
  BY InitInv
<1>2. IndInv /\ [Next]_vars => IndInv'
  BY NextInv
<1>3. QED
  BY <1>1, <1>2, PTL DEF Spec

\* Users, identities, routes, members and codes keep their types: an identity is
\* always of a user there is, and so is a member of a group.
THEOREM TypeCorrect == Spec => []TypeOK
PROOF
<1>1. IndInv => TypeOK
  BY DEF IndInv
<1>2. QED
  BY <1>1, Invariance, PTL

\* _admit never answers a message as coming from a user its sender was never bound
\* to, although identities are bound and unbound between the steps of a handler.
THEOREM NobodyIsMistaken == Spec => []AnsweredAsBound
PROOF
<1>1. IndInv => AnsweredAsBound
  BY DEF IndInv, Holds, AnsweredAsBound, At
<1>2. QED
  BY <1>1, Invariance, PTL

\* set_commands_enabled makes one workspace for a group, which no other group gets,
\* and an accepted message of the group reads that workspace and no other.
THEOREM WorkspacesStay == Spec => []WorkspaceStays
PROOF
<1>1. ASSUME IndInv
      PROVE  WorkspaceStays
  <2>1. ASSUME NEW h \in Handler, At(h, "done"), handler[h].dec.accepted,
               handler[h].ev.group # None
        PROVE  handler[h].dec.readable \subseteq {route[handler[h].ev.group].shared}
    BY <1>1, <2>1 DEF IndInv, Holds, At
  <2>2. QED
    BY <1>1, <2>1 DEF IndInv, RouteInv, WorkspaceStays
<1>2. QED
  BY <1>1, Invariance, PTL
=============================================================================
