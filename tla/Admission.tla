------------------------------ MODULE Admission ------------------------------
(***************************************************************************)
(* Who may talk to the assistant, and as whom:                             *)
(*   - ChannelRouteStore (adapters/storage/sqlite/channel_routes.py): the  *)
(*     observed groups, their mode, members and shared workspace, and the  *)
(*     one-time codes,                                                     *)
(*   - UserRepository (repositories.py): users, external identities, the   *)
(*     role project_admin,                                                 *)
(*   - InternalChannelAPI._admit and what it calls (internal_channel.py),  *)
(*   - what the administration page does to routes and identities          *)
(*     (adapters/web/admin.py, IdentityLinkStore in admin_store.py),       *)
(*   - the two bootstrap commands of cli.py.                               *)
(* The broker is a threading server, so handlers of several events run at  *)
(* the same time; every step below is one transaction of one handler.      *)
(*                                                                         *)
(* The codes are the values of two small sets, and their ten minutes end   *)
(* whenever Lapse is taken.  The user that _provision_group_member makes   *)
(* has an id computed from the reference of the sender, here the reference *)
(* itself.  Nothing in the program disables a user.                        *)
(***************************************************************************)
EXTENDS Naturals, FiniteSets

CONSTANTS
  Group, GroupRef, PrivateRef, \* opaque references: groups, senders in groups,
                               \* senders in private conversations
  Admin,         \* the user that a bootstrap command makes
  ActivationCode, LinkCode, \* the codes there are to be issued, each once
  Handler,
  None,
  AttemptLimit,  \* five denied codes in ten minutes
  Fresh,         \* whether the installation is new
  MaxEvents, MaxCommands \* bounds: events, and commands of the administrator

Ref  == GroupRef \cup PrivateRef
User == Ref \cup {Admin}

ASSUME AdmissionAssumption ==
  /\ GroupRef \cap PrivateRef = {} /\ Admin \notin Ref
  /\ None \notin User \cup Group /\ None \notin ActivationCode \cup LinkCode
  /\ AttemptLimit \in Nat \ {0} /\ Fresh \in BOOLEAN
  /\ MaxEvents \in Nat /\ MaxCommands \in Nat

VARIABLES
  users, admins,  \* the tables users and role_bindings
  identity,       \* the table external_identities
  route, members, \* the tables channel_routes and channel_route_members
  owners,         \* how many shared workspaces were made
  observed,       \* private references with a route
  activation,     \* the user a code was issued to, None, or "used"
  link,           \* the reference a code was issued to, None, or "used"
  denied,         \* denied codes of a user in the last ten minutes
  challenge,      \* IdentityLinkStore: the challenge that is open
  unbound,        \* references with a receipt that says identity_unbound
  handler,        \* what the handlers know
  ever,           \* which user each reference was ever bound to
  events, commands, refused \* counts, and refusals of bootstrap-qq-owner

userVars  == <<users, admins, identity, ever>>
routeVars == <<route, members, owners, observed>>
codeVars  == <<activation, link, denied, challenge>>
vars == <<userVars, routeVars, codeVars, unbound, handler, events, commands, refused>>

Mode == {"disabled", "public", "internal"}
RouteType == [seen : BOOLEAN, enabled : BOOLEAN, owner : User \cup {None},
              mode : Mode, shared : Nat]   \* shared = 0: no workspace yet
Unseen == [seen |-> FALSE, enabled |-> FALSE, owner |-> None,
           mode |-> "disabled", shared |-> 0]

Event ==
  [group : Group, ref : GroupRef, mentioned : BOOLEAN, text : {"other", "ask"},
   code : {None}]
  \cup [group : Group, ref : GroupRef, mentioned : {TRUE}, text : {"activate"},
        code : ActivationCode]
  \cup [group : Group, ref : GroupRef, mentioned : {TRUE}, text : {"bind"},
        code : LinkCode]
  \cup [group : {None}, ref : PrivateRef, mentioned : {TRUE},
        text : {"other", "apply", "register"}, code : {None}]

\* A handler without an event, and the answer of _admit.
Idle == [pc |-> "idle", ev |-> None, route |-> None, user |-> None, target |-> None,
         dec |-> None]
Decision(accepted, user, role, readable) ==
  [accepted |-> accepted, user |-> user, role |-> role, readable |-> readable]

Init ==
  /\ users = IF Fresh THEN {} ELSE {Admin}
  /\ admins = users
  /\ \E p \in PrivateRef, g \in Group :
       /\ identity = [r \in Ref |-> IF ~ Fresh /\ r = p THEN Admin ELSE None]
       /\ observed = IF Fresh THEN {} ELSE {p}
       /\ route = [x \in Group |->
                     IF ~ Fresh /\ x = g
                     THEN [seen |-> TRUE, enabled |-> TRUE, owner |-> Admin,
                           mode |-> "internal", shared |-> 1]
                     ELSE Unseen]
       /\ members = [x \in Group |-> IF ~ Fresh /\ x = g THEN {Admin} ELSE {}]
  /\ owners = IF Fresh THEN 0 ELSE 1
  /\ activation = [c \in ActivationCode |-> None]
  /\ link = [c \in LinkCode |-> None]
  /\ denied = [u \in User |-> 0]
  /\ challenge = None
  /\ unbound = {}
  /\ handler = [h \in Handler |-> Idle]
  /\ ever = {<<r, identity[r]>> : r \in {x \in Ref : identity[x] # None}}
  /\ events = 0 /\ commands = 0 /\ refused = 0

-----------------------------------------------------------------------------
(* Transactions.                                                           *)

\* A second identity for a reference breaks UNIQUE and is a conflict.
BindIdentity(r, u) ==
  /\ identity[r] = None
  /\ identity' = [identity EXCEPT ![r] = u]
  /\ ever' = ever \cup {<<r, u>>}

\* Mutant of SetCommandsEnabled: a group that is switched away from internal
\* mode loses its workspace.
MutForgetWorkspace(g, u, enabled, mode, ids) ==
  LET m == IF enabled THEN mode ELSE "disabled" IN
  /\ route[g].seen /\ route[g].owner \in {None, u}
  /\ ids # None => m = "internal" /\ ids \subseteq users
  /\ owners' = IF m = "internal" /\ route[g].shared = 0 THEN owners + 1 ELSE owners
  /\ route' = [route EXCEPT ![g] =
                 [seen |-> TRUE, enabled |-> enabled,
                  owner |-> IF enabled THEN u ELSE @.owner, mode |-> m,
                  shared |-> IF m # "internal" THEN 0
                             ELSE IF @.shared = 0 THEN owners' ELSE @.shared]]
  /\ members' = [members EXCEPT ![g] =
                   IF m # "internal" THEN {}
                   ELSE (IF ids = None THEN @ ELSE ids) \cup {u}]
  /\ UNCHANGED observed

\* Only the owner changes a route; the first time a group becomes internal a
\* workspace is made for it.  ids = None: no members are given, and those there
\* are stay.
SetCommandsEnabled(g, u, enabled, mode, ids) ==
  LET m == IF enabled THEN mode ELSE "disabled" IN
  /\ route[g].seen /\ route[g].owner \in {None, u}
  /\ ids # None => m = "internal" /\ ids \subseteq users
  /\ owners' = IF m = "internal" /\ route[g].shared = 0 THEN owners + 1 ELSE owners
  /\ route' = [route EXCEPT ![g] =
                 [seen |-> TRUE, enabled |-> enabled,
                  owner |-> IF enabled THEN u ELSE @.owner, mode |-> m,
                  shared |-> IF @.shared = 0 /\ m = "internal" THEN owners'
                             ELSE @.shared]]
  /\ members' = [members EXCEPT ![g] =
                   IF m # "internal" THEN {}
                   ELSE (IF ids = None THEN @ ELSE ids) \cup {u}]
  /\ UNCHANGED observed

\* The groups' workspaces that a member reads from a private conversation.
SharedOwnersForMember(u) ==
  {route[g].shared : g \in {x \in Group : /\ u \in members[x] /\ route[x].enabled
                                          /\ route[x].mode = "internal"}}

\* A new code takes the place of the unused ones of the same user or reference.
Issue(table, code, for) ==
  [c \in DOMAIN table |->
     IF c = code THEN for ELSE IF table[c] = for THEN None ELSE table[c]]

-----------------------------------------------------------------------------
(* Handlers.                                                               *)

At(h, pc) == handler[h].pc = pc
Goto(h, pc) == handler' = [handler EXCEPT ![h].pc = pc]
Decide(h, dec) ==
  handler' = [handler EXCEPT ![h].pc = "done", ![h].dec = dec, ![h].route = None,
                             ![h].target = None]
\* An exception: the caller is told of an error, and there is no receipt.
Raise(h) == handler' = [handler EXCEPT ![h] = Idle]
Deny(h, user) == Decide(h, Decision(FALSE, user, "denied", {}))
AcceptInGroup(h, user, shared) == Decide(h, Decision(TRUE, user, "member", {shared}))

\* The conversation and the sender are observed, and the route is read.
Receive(h) ==
  /\ At(h, "idle") /\ events < MaxEvents
  /\ \E ev \in Event :
       LET g == ev.group IN
       /\ route' = IF g = None THEN route ELSE [route EXCEPT ![g].seen = TRUE]
       /\ observed' = IF g = None THEN observed \cup {ev.ref} ELSE observed
       /\ handler' = [handler EXCEPT ![h] =
                        [Idle EXCEPT !.pc = IF g = None THEN "private" ELSE "group",
                                     !.ev = ev,
                                     !.route = IF g = None THEN None ELSE route'[g]]]
  /\ events' = events + 1
  /\ UNCHANGED <<userVars, members, owners, codeVars, unbound, commands, refused>>

\* A message that does not address the assistant is taken only as the answer to
\* a pending plan of a known sender; whether there is one is left open.
Addressed(h) ==
  /\ At(h, "group")
  /\ LET ev == handler[h].ev
         rt == handler[h].route IN
     IF ev.mentioned
     THEN Goto(h, IF ev.text = "activate" THEN "activate" ELSE "admit")
     ELSE \/ Deny(h, None)
          \/ /\ rt.enabled /\ rt.mode = "internal" /\ identity[ev.ref] # None
             /\ Goto(h, "admit")
  /\ UNCHANGED <<userVars, routeVars, codeVars, unbound, events, commands, refused>>

\* _activate_group.  A code that is not valid leaves the message to be treated
\* like any other.
ConsumeActivation(h) ==
  /\ At(h, "activate")
  /\ LET c == handler[h].ev.code IN
     IF activation[c] \in User
     THEN /\ activation' = [activation EXCEPT ![c] = "used"]
          /\ handler' = [handler EXCEPT ![h].pc = "activator",
                                        ![h].user = activation[c]]
     ELSE /\ Goto(h, "admit")
          /\ UNCHANGED activation
  /\ UNCHANGED <<userVars, routeVars, link, denied, challenge, unbound, events,
                 commands, refused>>

\* Mutant of CheckActivator: the sender may be known as somebody else.
MutAnyActivator(h) ==
  /\ At(h, "activator")
  /\ LET u == handler[h].user
         bound == identity[handler[h].ev.ref] IN
     Goto(h, IF u \notin users \cap admins THEN "admit"
             ELSE IF bound = None THEN "bindActivator" ELSE "enable")
  /\ UNCHANGED <<userVars, routeVars, codeVars, unbound, events, commands, refused>>

CheckActivator(h) ==
  /\ At(h, "activator")
  /\ LET u == handler[h].user
         bound == identity[handler[h].ev.ref] IN
     Goto(h, IF u \notin users \cap admins \/ bound \notin {None, u} THEN "admit"
             ELSE IF bound = None THEN "bindActivator" ELSE "enable")
  /\ UNCHANGED <<userVars, routeVars, codeVars, unbound, events, commands, refused>>

BindActivator(h) ==
  /\ At(h, "bindActivator")
  /\ LET r == handler[h].ev.ref IN
     \/ BindIdentity(r, handler[h].user) /\ Goto(h, "enable")
     \/ identity[r] # None /\ Raise(h) /\ UNCHANGED <<identity, ever>>
  /\ UNCHANGED <<users, admins, routeVars, codeVars, unbound, events, commands,
                 refused>>

EnableGroup(h) ==
  /\ At(h, "enable")
  /\ LET g == handler[h].ev.group
         u == handler[h].user IN
     \/ /\ SetCommandsEnabled(g, u, TRUE, "internal", {u})
        /\ AcceptInGroup(h, u, route'[g].shared)
     \/ /\ route[g].owner \notin {None, u} /\ Raise(h)
        /\ UNCHANGED routeVars
  /\ UNCHANGED <<userVars, codeVars, unbound, events, commands, refused>>

\* The mode, as the route said when it was read.
AdmitInGroup(h) ==
  /\ At(h, "admit")
  /\ LET ev == handler[h].ev
         rt == handler[h].route IN
     \/ /\ ~ rt.enabled \/ rt.mode = "disabled"
        /\ Deny(h, None)
     \/ /\ rt.enabled /\ rt.mode = "public"
        /\ IF rt.owner \in users /\ ev.text = "ask"
           THEN Decide(h, Decision(TRUE, rt.owner, "guest", {}))
           ELSE Deny(h, rt.owner)
     \/ /\ rt.enabled /\ rt.mode = "internal"
        /\ IF identity[ev.ref] = None
           THEN IF rt.owner = None
                THEN Decide(h, Decision(FALSE, None, "unbound", {}))
                ELSE Goto(h, "provision")
           ELSE handler' = [handler EXCEPT ![h].pc = "member",
                                           ![h].user = identity[ev.ref]]
  /\ UNCHANGED <<userVars, routeVars, codeVars, unbound, events, commands, refused>>

\* Mutant of ProvisionUser: the identity comes without its user.
MutNoUser(h) ==
  /\ At(h, "provision")
  /\ Goto(h, "provisionIdentity")
  /\ UNCHANGED <<userVars, routeVars, codeVars, unbound, events, commands, refused>>

\* _provision_group_member: a user for an unknown sender, unless another
\* handler has made it, ...
ProvisionUser(h) ==
  /\ At(h, "provision")
  /\ users' = users \cup {handler[h].ev.ref}
  /\ Goto(h, "provisionIdentity")
  /\ UNCHANGED <<admins, identity, ever, routeVars, codeVars, unbound, events,
                 commands, refused>>

\* ... its identity, unless the sender has become somebody else meanwhile, ...
ProvisionIdentity(h) ==
  /\ At(h, "provisionIdentity")
  /\ LET r == handler[h].ev.ref IN
     \/ BindIdentity(r, r) /\ Goto(h, "provisionMember")
     \/ /\ identity[r] # None
        /\ IF identity[r] = r THEN Goto(h, "provisionMember")
           ELSE Decide(h, Decision(FALSE, None, "unbound", {}))
        /\ UNCHANGED <<identity, ever>>
  /\ UNCHANGED <<users, admins, routeVars, codeVars, unbound, events, commands,
                 refused>>

\* ... and its membership, by the route as it was read.
ProvisionMember(h) ==
  /\ At(h, "provisionMember")
  /\ members' = [members EXCEPT ![handler[h].ev.group] = @ \cup {handler[h].ev.ref}]
  /\ Goto(h, "provisioned")
  /\ UNCHANGED <<userVars, route, owners, observed, codeVars, unbound, events,
                 commands, refused>>

Provisioned(h) ==
  /\ At(h, "provisioned")
  /\ LET u == identity[handler[h].ev.ref] IN
     IF u = None THEN Decide(h, Decision(FALSE, None, "unbound", {}))
     ELSE handler' = [handler EXCEPT ![h].pc = "member", ![h].user = u]
  /\ UNCHANGED <<userVars, routeVars, codeVars, unbound, events, commands, refused>>

\* A known sender who is not a member becomes one.
CheckMember(h) ==
  /\ At(h, "member")
  /\ IF handler[h].user \in members[handler[h].ev.group] THEN Goto(h, "granted")
     ELSE IF handler[h].route.owner = None THEN Deny(h, handler[h].user)
     ELSE Goto(h, "join")
  /\ UNCHANGED <<userVars, routeVars, codeVars, unbound, events, commands, refused>>

AddMember(h) ==
  /\ At(h, "join")
  /\ members' = [members EXCEPT ![handler[h].ev.group] = @ \cup {handler[h].user}]
  /\ Goto(h, "granted")
  /\ UNCHANGED <<userVars, route, owners, observed, codeVars, unbound, events,
                 commands, refused>>

Granted(h) ==
  /\ At(h, "granted")
  /\ IF handler[h].route.shared = 0 THEN Deny(h, handler[h].user)
     ELSE IF handler[h].ev.text = "bind" THEN Goto(h, "link")
     ELSE AcceptInGroup(h, handler[h].user, handler[h].route.shared)
  /\ UNCHANGED <<userVars, routeVars, codeVars, unbound, events, commands, refused>>

\* _bind_private_identity: the code is used up, or counted as denied.
ConsumePrivateLink(h) ==
  /\ At(h, "link")
  /\ LET c == handler[h].ev.code
         u == handler[h].user IN
     IF denied[u] < AttemptLimit /\ link[c] \in Ref
     THEN /\ link' = [link EXCEPT ![c] = "used"]
          /\ handler' = [handler EXCEPT ![h].pc = "linkCheck",
                                        ![h].target = link[c]]
          /\ UNCHANGED denied
     ELSE /\ denied' = IF denied[u] >= AttemptLimit THEN denied
                       ELSE [denied EXCEPT ![u] = @ + 1]
          /\ AcceptInGroup(h, u, handler[h].route.shared)
          /\ UNCHANGED link
  /\ UNCHANGED <<userVars, routeVars, activation, challenge, unbound, events,
                 commands, refused>>

CheckPrivateIdentity(h) ==
  /\ At(h, "linkCheck")
  /\ IF identity[handler[h].target] = None THEN Goto(h, "linkBind")
     ELSE AcceptInGroup(h, handler[h].user, handler[h].route.shared)
  /\ UNCHANGED <<userVars, routeVars, codeVars, unbound, events, commands, refused>>

BindPrivateIdentity(h) ==
  /\ At(h, "linkBind")
  /\ LET r == handler[h].target IN
     \/ /\ BindIdentity(r, handler[h].user)
        /\ AcceptInGroup(h, handler[h].user, handler[h].route.shared)
     \/ identity[r] # None /\ Raise(h) /\ UNCHANGED <<identity, ever>>
  /\ UNCHANGED <<users, admins, routeVars, codeVars, unbound, events, commands,
                 refused>>

\* A private message.  A sender that is not bound is told how to become so.
AdmitPrivate(h) ==
  /\ At(h, "private")
  /\ LET ev == handler[h].ev
         u == identity[ev.ref] IN
     IF u = None
     THEN IF ev.text = "apply" THEN Goto(h, "issueLink")
          ELSE Decide(h, Decision(TRUE, None, "pending", {}))
     ELSE IF ev.text = "register"
     THEN IF u \in admins
          THEN handler' = [handler EXCEPT ![h].pc = "issueActivation", ![h].user = u]
          ELSE Deny(h, u)
     ELSE Decide(h, Decision(TRUE, u, "private", SharedOwnersForMember(u)))
  /\ UNCHANGED <<userVars, routeVars, codeVars, unbound, events, commands, refused>>

IssuePrivateLink(h) ==
  /\ At(h, "issueLink")
  /\ \E c \in {x \in LinkCode : link[x] = None} :
       link' = Issue(link, c, handler[h].ev.ref)
  /\ Decide(h, Decision(TRUE, None, "pending", {}))
  /\ UNCHANGED <<userVars, routeVars, activation, denied, challenge, unbound, events,
                 commands, refused>>

IssueActivation(h) ==
  /\ At(h, "issueActivation")
  /\ \E c \in {x \in ActivationCode : activation[x] = None} :
       activation' = Issue(activation, c, handler[h].user)
  /\ Decide(h, Decision(TRUE, handler[h].user, "private", {}))
  /\ UNCHANGED <<userVars, routeVars, link, denied, challenge, unbound, events,
                 commands, refused>>

\* The receipt is written and the event answered.
Finish(h) ==
  /\ At(h, "done")
  /\ unbound' = IF handler[h].dec.role = "unbound"
                THEN unbound \cup {handler[h].ev.ref} ELSE unbound
  /\ handler' = [handler EXCEPT ![h] = Idle]
  /\ UNCHANGED <<userVars, routeVars, codeVars, events, commands, refused>>

HandlerStep(h) ==
  \/ Receive(h) \/ Addressed(h)
  \/ ConsumeActivation(h) \/ CheckActivator(h) \/ BindActivator(h) \/ EnableGroup(h)
  \/ AdmitInGroup(h)
  \/ ProvisionUser(h) \/ ProvisionIdentity(h) \/ ProvisionMember(h) \/ Provisioned(h)
  \/ CheckMember(h) \/ AddMember(h) \/ Granted(h)
  \/ ConsumePrivateLink(h) \/ CheckPrivateIdentity(h) \/ BindPrivateIdentity(h)
  \/ AdmitPrivate(h) \/ IssuePrivateLink(h) \/ IssueActivation(h)
  \/ Finish(h)

-----------------------------------------------------------------------------
(* The administration page and the command line.                           *)

Command == commands < MaxCommands /\ commands' = commands + 1

UpdateChannelRoute(u) ==
  /\ Command /\ u \in admins
  /\ \E g \in Group, enabled \in BOOLEAN, mode \in Mode \ {"disabled"},
        ids \in {None} \cup SUBSET users :
       SetCommandsEnabled(g, u, enabled, mode, ids)
  /\ UNCHANGED <<userVars, codeVars, unbound, handler, events, refused>>

\* A user removes an identity of their own.
UnbindIdentity(r) ==
  /\ Command /\ identity[r] \in admins
  /\ identity' = [identity EXCEPT ![r] = None]
  /\ UNCHANGED <<users, admins, ever, routeVars, codeVars, unbound, handler, events,
                 refused>>

\* A code is sent to an observed private conversation ...
IssueIdentityChallenge(u) ==
  /\ Command /\ u \in admins
  /\ \E r \in observed : challenge' = [user |-> u, ref |-> r, attempts |-> 0]
  /\ UNCHANGED <<userVars, routeVars, activation, link, denied, unbound, handler,
                 events, refused>>

\* ... and typed in: wrong, or right.  When the reference is bound meanwhile the
\* whole transaction is undone.
ConsumeIdentityChallenge ==
  /\ challenge # None /\ challenge.attempts < AttemptLimit
  /\ \/ /\ challenge' = [challenge EXCEPT !.attempts = @ + 1]
        /\ UNCHANGED <<identity, ever>>
     \/ /\ BindIdentity(challenge.ref, challenge.user)
        /\ challenge' = None
  /\ UNCHANGED <<users, admins, routeVars, activation, link, denied, unbound, handler,
                 events, commands, refused>>

\* bootstrap-admin
BootstrapAdmin ==
  /\ Command
  /\ users' = users \cup {Admin}
  /\ admins \subseteq {Admin} /\ admins' = {Admin}
  /\ UNCHANGED <<identity, ever, routeVars, codeVars, unbound, handler, events,
                 refused>>

\* bootstrap-qq-owner: for the only private reference that has a route, is not
\* bound, and has a receipt that says so.  Otherwise it is refused.
Candidates == {r \in observed : identity[r] = None /\ r \in unbound}
NobodyYet == users = {} /\ \A r \in Ref : identity[r] = None
BootstrapQQOwner ==
  /\ Command
  /\ \/ /\ NobodyYet
        /\ \E r \in Candidates :
             Candidates = {r} /\ BindIdentity(r, Admin)
        /\ users' = {Admin} /\ admins' = {Admin}
        /\ UNCHANGED refused
     \/ /\ ~ NobodyYet \/ Cardinality(Candidates) # 1
        /\ refused' = refused + 1
        /\ UNCHANGED userVars
  /\ UNCHANGED <<routeVars, codeVars, unbound, handler, events>>

\* The ten minutes of a code, or of a denied one, end.
Lapse ==
  /\ \/ /\ \E c \in ActivationCode :
             /\ activation[c] \in User
             /\ activation' = [activation EXCEPT ![c] = "used"]
        /\ UNCHANGED <<link, denied, challenge>>
     \/ /\ \E c \in LinkCode :
             link[c] \in Ref /\ link' = [link EXCEPT ![c] = "used"]
        /\ UNCHANGED <<activation, denied, challenge>>
     \/ /\ \E u \in User :
             denied[u] > 0 /\ denied' = [denied EXCEPT ![u] = @ - 1]
        /\ UNCHANGED <<activation, link, challenge>>
     \/ /\ challenge # None /\ challenge' = None
        /\ UNCHANGED <<activation, link, denied>>
  /\ UNCHANGED <<userVars, routeVars, unbound, handler, events, commands, refused>>

Next ==
  \/ \E h \in Handler : HandlerStep(h)
  \/ \E u \in User : UpdateChannelRoute(u) \/ IssueIdentityChallenge(u)
  \/ \E r \in Ref : UnbindIdentity(r)
  \/ ConsumeIdentityChallenge
  \/ BootstrapAdmin \/ BootstrapQQOwner
  \/ Lapse

Spec == Init /\ [][Next]_vars

-----------------------------------------------------------------------------
(* Properties.                                                             *)

DecisionType == [accepted : BOOLEAN, user : User \cup {None}, readable : SUBSET Nat,
                 role : {"denied", "guest", "member", "pending", "private", "unbound"}]
\* The steps of a handler in a group, up to its decision.
GroupPc == {"group", "activate", "activator", "bindActivator", "enable", "admit",
            "provision", "provisionIdentity", "provisionMember", "provisioned",
            "member", "join", "granted", "link", "linkCheck", "linkBind"}
PrivatePc == {"private", "issueLink", "issueActivation"}
HandlerType == [pc : GroupPc \cup PrivatePc \cup {"idle", "done"},
                ev : Event \cup {None}, route : RouteType \cup {None},
                user : User \cup {None}, target : Ref \cup {None},
                dec : DecisionType \cup {None}]
Challenge == [user : User, ref : Ref, attempts : 0 .. AttemptLimit]

TypeOK ==
  /\ users \subseteq User /\ admins \subseteq users
  /\ identity \in [Ref -> users \cup {None}]
  /\ route \in [Group -> RouteType] /\ members \in [Group -> SUBSET users]
  /\ observed \subseteq PrivateRef /\ unbound \subseteq Ref
  /\ \A g \in Group : route[g].shared \in 0 .. owners
  /\ activation \in [ActivationCode -> User \cup {None, "used"}]
  /\ link \in [LinkCode -> Ref \cup {None, "used"}]
  /\ denied \in [User -> 0 .. AttemptLimit]
  /\ challenge \in Challenge \cup {None}
  /\ handler \in [Handler -> HandlerType]

\* Whoever an event is answered as, was bound to its sender: a message is never
\* taken as coming from somebody its sender never was.  (Handlers of the same
\* sender bind identities at the same time, and the activation of a group binds
\* the sender to the user of the code.)
AnsweredAsBound ==
  \A h \in Handler :
    At(h, "done") /\ handler[h].dec.accepted /\ handler[h].dec.role \in {"member", "private"}
      => <<handler[h].ev.ref, handler[h].dec.user>> \in ever

\* A group keeps its workspace, whatever happens to its mode, and has it for
\* itself; an event of a group that is accepted reads the workspace of that
\* group and of no other, though the route was read long ago.
WorkspaceStays ==
  /\ \A g, k \in Group : g # k /\ route[g].shared # 0 => route[g].shared # route[k].shared
  /\ \A g \in Group : route[g].mode = "internal" => route[g].shared # 0
  /\ \A h \in Handler :
       At(h, "done") /\ handler[h].dec.accepted /\ handler[h].ev.group # None
         => handler[h].dec.readable \subseteq {route[handler[h].ev.group].shared}

\* docs/deployment.md: on a new installation, after one private message, the
\* command bootstrap-qq-owner is not refused.
BootstrapAccepts ==
  [][NobodyYet /\ Cardinality(observed) = 1 /\ (\A h \in Handler : At(h, "idle"))
       => refused' = refused]_vars

-----------------------------------------------------------------------------
(* What makes them inductive.                                              *)

\* Whoever a reference is bound to is on record, and so is the user who has
\* asked to be bound.
BoundInv ==
  /\ \A r \in Ref : identity[r] # None => <<r, identity[r]>> \in ever
  /\ challenge # None => challenge.user \in users

\* The workspaces of groups are numbered as they are made.
RouteInv ==
  /\ owners \in Nat
  /\ \A g, k \in Group : g # k /\ route[g].shared # 0 => route[g].shared # route[k].shared
  /\ \A g \in Group : route[g].mode = "internal" => route[g].shared # 0

\* What a handler knows is still so, though it was read in earlier transactions:
\* the user it acts for was bound to the sender, the users it writes down exist,
\* and the workspace it read is that of the group or was not made yet.
Holds(s) ==
  /\ s.pc # "idle" => s.ev \in Event
  /\ s.pc \in GroupPc => /\ s.ev.group \in Group
                         /\ s.route \in RouteType
                         /\ s.route.shared \in {0, route[s.ev.group].shared}
  /\ s.pc \in PrivatePc => s.ev.group = None
  /\ s.pc \in {"bindActivator", "enable", "member", "join", "granted", "link",
               "linkCheck", "linkBind"} => s.user \in users
  /\ s.pc \in {"enable", "member", "join", "granted", "link", "linkCheck", "linkBind",
               "issueActivation"} => <<s.ev.ref, s.user>> \in ever
  /\ s.pc \in {"provisionIdentity", "provisionMember"} => s.ev.ref \in users
  /\ s.pc \in {"link", "linkCheck", "linkBind"} => s.route.shared # 0
  /\ s.pc \in {"linkCheck", "linkBind"} => s.target \in Ref
  /\ s.pc = "done" =>
       /\ s.dec \in DecisionType
       /\ s.dec.accepted /\ s.dec.role \in {"member", "private"}
            => <<s.ev.ref, s.dec.user>> \in ever
       /\ s.dec.accepted /\ s.ev.group # None
            => s.dec.readable \subseteq {route[s.ev.group].shared} \ {0}

IndInv == TypeOK /\ BoundInv /\ RouteInv /\ \A h \in Handler : Holds(handler[h])

=============================================================================
