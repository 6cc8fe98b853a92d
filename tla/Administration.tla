--------------------------- MODULE Administration ---------------------------
(***************************************************************************)
(* Who may administer: logins with a password, admin sessions, passkeys    *)
(* and the calls of the vault that need one.                               *)
(*   - AdminCredentialStore and AdminSessionStore (admin_store.py),        *)
(*   - AdminAPI (adapters/web/admin.py): _login, _authenticate, the        *)
(*     passkey routes and the vault routes,                                *)
(*   - PasskeyManager (src/zhixu_vault/webauthn_auth.py),                  *)
(*   - CapabilityGrantIssuer (vault_client/grants.py).                     *)
(* The API serves every request in a thread of its own.  Two reads without *)
(* a transaction, a read and the write that depends on it, and a call of   *)
(* the vault and the session it leads to are steps of their own; other     *)
(* requests run between them.  The vault handles one call at a time.       *)
(*                                                                         *)
(* A hash is the password that it was made of, and None a guess that is no *)
(* password of a user or no hash at all.  A session and a challenge        *)
(* are the numbers of their rows.  What a passkey signs is named by the    *)
(* challenge that it answers.  The audit table is left out.                *)
(***************************************************************************)
EXTENDS Naturals, Sequences, FiniteSets, Functions

CONSTANTS
  User, Password, Handler,
  MaxAttempts, Window, Lockout, \* AdminCredentialStore
  SessionLife,                  \* of a session that a password opened
  ChallengeLife, StepUpLife,
  None,
  MaxTime, MaxRows \* bounds: the clock; failed logins, sessions and
                   \* challenges together

ASSUME AdministrationAssumption ==
  /\ {MaxAttempts, Window, Lockout, SessionLife, ChallengeLife, StepUpLife}
       \subseteq Nat \ {0}
  /\ {MaxTime, MaxRows} \subseteq Nat
  /\ None \notin Nat \cup Password

VARIABLES
  now,
  password,  \* the table admin_credentials
  login,     \* the table admin_login_state
  session,   \* the table admin_sessions, in the order of creation
  challenge, \* the table webauthn_challenges
  passkey,   \* the table webauthn_credentials: the users that have one
  handler,   \* what each thread of the API does
  failed     \* at what time each failed login of a user was recorded

credentialVars == <<password, login, failed>>
passkeyVars == <<challenge, passkey>>
vars == <<now, credentialVars, session, passkeyVars, handler>>

Time == 0 .. MaxTime
Purpose == {"registration", "authentication"}

LoginRow == [start : Time, attempts : Nat \ {0}, locked : Nat \cup {None}]

\* A session: by is the challenge that a step-up answered.
SessionRow == [user : User, auth : {"password", "step_up"}, expires : Nat,
               revoked : BOOLEAN, by : Nat]
ChallengeRow == [user : User, purpose : Purpose, expires : Nat,
                 consumed : Time \cup {None}]

Idle == [pc |-> "idle"]

Init ==
  /\ now = 0
  /\ password = [u \in User |-> None]
  /\ login = [u \in User |-> None]
  /\ session = << >> /\ challenge = << >> /\ passkey \in SUBSET User
  /\ handler = [h \in Handler |-> Idle]
  /\ failed = [u \in User |-> << >>]

Rows == Len(session) + Len(challenge) + SumFunction([u \in User |-> Len(failed[u])])
At(h, pc) == handler[h].pc = pc
Answer(h) == handler' = [handler EXCEPT ![h] = Idle]

-----------------------------------------------------------------------------
(* Logging in.  verify works with the time at which the request came.      *)

BeginLogin(h, u, guess) ==
  /\ At(h, "idle")
  /\ handler' = [handler EXCEPT ![h] =
                   [pc |-> "credential", user |-> u, guess |-> guess, at |-> now]]
  /\ UNCHANGED <<now, credentialVars, session, passkeyVars>>

ReadCredential(h) ==
  /\ At(h, "credential")
  /\ handler' = [handler EXCEPT ![h] =
                   [pc |-> "state", user |-> @.user, guess |-> @.guess, at |-> @.at,
                    hash |-> password[@.user]]]
  /\ UNCHANGED <<now, credentialVars, session, passkeyVars>>

Locked(row, at) == row # None /\ row.locked # None /\ row.locked > at
Valid(r) == r.hash # None /\ r.guess = r.hash

ReadState(h) ==
  LET r == handler[h]
      row == login[r.user]
  IN
  /\ At(h, "state")
  /\ IF Locked(row, r.at)
     THEN Answer(h)
     ELSE handler' = [handler EXCEPT ![h] =
            IF Valid(r) THEN [pc |-> "success", user |-> r.user, hash |-> r.hash]
                        ELSE [pc |-> "failure", user |-> r.user, at |-> r.at,
                              state |-> row]]
  /\ UNCHANGED <<now, credentialVars, session, passkeyVars>>

\* Mutant of Counts: the window never ends.
MutNoWindow(row, at) == row # None

Counts(row, at) == row # None /\ (at < row.start \/ at - row.start < Window)

\* The row is written from the state that was read before.
AfterFailure(row, at) ==
  LET n == IF Counts(row, at) THEN row.attempts + 1 ELSE 1 IN
  [start    |-> IF Counts(row, at) THEN row.start ELSE at,
   attempts |-> n,
   locked   |-> IF n >= MaxAttempts THEN at + Lockout ELSE None]

RecordFailure(h) ==
  LET r == handler[h] IN
  /\ At(h, "failure") /\ Rows < MaxRows
  /\ login' = [login EXCEPT ![r.user] = AfterFailure(r.state, r.at)]
  /\ failed' = [failed EXCEPT ![r.user] = Append(@, now)]
  /\ Answer(h)
  /\ UNCHANGED <<now, password, session, passkeyVars>>

\* The password is hashed again where the hash that was read has parameters the
\* hasher no longer uses, and replaces one that was set in between.
ClearState(h) ==
  /\ At(h, "success")
  /\ login' = [login EXCEPT ![handler[h].user] = None]
  /\ \/ password' = [password EXCEPT ![handler[h].user] = handler[h].hash]
     \/ UNCHANGED password
  /\ handler' = [handler EXCEPT ![h] = [pc |-> "create", user |-> @.user]]
  /\ UNCHANGED <<now, failed, session, passkeyVars>>

NewSession(u, auth, expires, c) ==
  /\ Rows < MaxRows
  /\ session' = Append(session, [user |-> u, auth |-> auth, expires |-> expires,
                                 revoked |-> FALSE, by |-> c])

CreateSession(h) ==
  /\ At(h, "create")
  /\ NewSession(handler[h].user, "password", now + SessionLife, 0)
  /\ Answer(h)
  /\ UNCHANGED <<now, credentialVars, passkeyVars>>

\* The operator's command: sessions that are open stay open.
SetPassword(u, p) ==
  /\ password' = [password EXCEPT ![u] = p]
  /\ login' = [login EXCEPT ![u] = None]
  /\ UNCHANGED <<now, failed, session, passkeyVars, handler>>

-----------------------------------------------------------------------------
(* A request with a session: dispatch looks the token up once, and works   *)
(* with the principal that it found.                                       *)

Authenticate(h, s) ==
  /\ At(h, "idle")
  /\ ~ session[s].revoked /\ session[s].expires > now
  /\ handler' = [handler EXCEPT ![h] = [pc |-> "principal", session |-> s]]
  /\ UNCHANGED <<now, credentialVars, session, passkeyVars>>

Principal(h) == session[handler[h].session]

RevokeSession(h) ==
  /\ At(h, "principal")
  /\ session' = [session EXCEPT ![handler[h].session].revoked = TRUE]
  /\ Answer(h)
  /\ UNCHANGED <<now, credentialVars, passkeyVars>>

StoreChallenge(h, purpose) ==
  /\ Rows < MaxRows
  /\ challenge' = Append(challenge,
       [user |-> Principal(h).user, purpose |-> purpose,
        expires |-> now + ChallengeLife, consumed |-> None])
  /\ Answer(h)
  /\ UNCHANGED <<now, credentialVars, session, passkey>>

BeginRegistration(h) == At(h, "principal") /\ StoreChallenge(h, "registration")

\* Mutant of BeginAuthentication: descriptors are not looked at.
MutNoDescriptors(h) == At(h, "principal") /\ StoreChallenge(h, "authentication")

BeginAuthentication(h) ==
  /\ At(h, "principal") /\ Principal(h).user \in passkey
  /\ StoreChallenge(h, "authentication")

\* Mutant of PendingChallenge: a challenge that was consumed counts.
MutReplayable(u, purpose) ==
  {c \in DOMAIN challenge : /\ challenge[c].user = u /\ challenge[c].purpose = purpose
                            /\ challenge[c].expires > now}

\* The unconsumed challenges that expire last, unless they have expired.
PendingChallenge(u, purpose) ==
  LET open == {c \in DOMAIN challenge :
                 /\ challenge[c].user = u /\ challenge[c].purpose = purpose
                 /\ challenge[c].consumed = None}
  IN {c \in open : /\ challenge[c].expires > now
                   /\ \A d \in open : challenge[d].expires <= challenge[c].expires}

Consume(c) == challenge' = [challenge EXCEPT ![c].consumed = now]

\* The credential that the browser sends answers challenge c.
FinishRegistration(h, c) ==
  /\ At(h, "principal")
  /\ c \in PendingChallenge(Principal(h).user, "registration")
  /\ Consume(c)
  /\ passkey' = passkey \cup {Principal(h).user}
  /\ Answer(h)
  /\ UNCHANGED <<now, credentialVars, session>>

FinishAuthentication(h, c) ==
  /\ At(h, "principal") /\ Principal(h).user \in passkey
  /\ c \in PendingChallenge(Principal(h).user, "authentication")
  /\ Consume(c)
  /\ handler' = [handler EXCEPT ![h] =
                   [pc |-> "proof", user |-> Principal(h).user, by |-> c,
                    expires |-> now + StepUpLife]]
  /\ UNCHANGED <<now, credentialVars, session, passkey>>

\* A session for as long as the proof holds; the request fails when it is over.
CreateStepUp(h) ==
  LET r == handler[h] IN
  /\ At(h, "proof")
  /\ IF r.expires > now
     THEN NewSession(r.user, "step_up", r.expires, r.by)
     ELSE UNCHANGED session
  /\ Answer(h)
  /\ UNCHANGED <<now, credentialVars, passkeyVars>>

\* list and use are for every session; the other calls of the vault are not.
Permitted(principal, operation) ==
  operation = "plain" \/ principal.auth = "step_up"

IssueGrant(h, operation) ==
  /\ At(h, "principal") /\ Permitted(Principal(h), operation)
  /\ handler' = [handler EXCEPT ![h] =
                   [pc |-> "vault", session |-> @.session, operation |-> operation]]
  /\ UNCHANGED <<now, credentialVars, session, passkeyVars>>

\* What the vault does with the grant is in the module Vault; one that has
\* expired is refused.
VaultAnswers(h) ==
  /\ At(h, "vault")
  /\ Answer(h)
  /\ UNCHANGED <<now, credentialVars, session, passkeyVars>>

\* Anything that stops a request with an error: an unmet condition of the steps
\* above, a field that is missing, a vault that does not answer.
Refuse(h) ==
  /\ handler[h].pc \in {"principal", "vault"}
  /\ Answer(h)
  /\ UNCHANGED <<now, credentialVars, session, passkeyVars>>

-----------------------------------------------------------------------------
Crash ==
  /\ \E h \in Handler : ~ At(h, "idle")
  /\ handler' = [h \in Handler |-> Idle]
  /\ UNCHANGED <<now, credentialVars, session, passkeyVars>>

Tick ==
  /\ now < MaxTime
  /\ now' = now + 1
  /\ UNCHANGED <<credentialVars, session, passkeyVars, handler>>

LoginStep(h) ==
  \/ \E u \in User, guess \in Password \cup {None} : BeginLogin(h, u, guess)
  \/ ReadCredential(h)
  \/ ReadState(h)
  \/ RecordFailure(h)
  \/ ClearState(h)
  \/ CreateSession(h)

RequestStep(h) ==
  \/ \E s \in DOMAIN session : Authenticate(h, s)
  \/ RevokeSession(h)
  \/ BeginRegistration(h)
  \/ BeginAuthentication(h)
  \/ \E c \in DOMAIN challenge : FinishRegistration(h, c)
  \/ \E c \in DOMAIN challenge : FinishAuthentication(h, c)
  \/ CreateStepUp(h)
  \/ \E operation \in {"plain", "sensitive"} : IssueGrant(h, operation)
  \/ VaultAnswers(h)
  \/ Refuse(h)

Next ==
  \/ \E h \in Handler : LoginStep(h) \/ RequestStep(h)
  \/ \E u \in User, p \in Password : SetPassword(u, p)
  \/ Crash
  \/ Tick

Spec == Init /\ [][Next]_vars

-----------------------------------------------------------------------------
HandlerType ==
  {Idle}
    \cup [pc : {"credential"}, user : User, guess : Password \cup {None}, at : Time]
    \cup [pc : {"state"}, user : User, guess : Password \cup {None}, at : Time,
          hash : Password \cup {None}]
    \cup [pc : {"failure"}, user : User, at : Time, state : LoginRow \cup {None}]
    \cup [pc : {"success"}, user : User, hash : Password]
    \cup [pc : {"create"}, user : User]
    \cup [pc : {"principal"}, session : DOMAIN session]
    \cup [pc : {"proof"}, user : User, by : DOMAIN challenge, expires : Nat]
    \cup [pc : {"vault"}, session : DOMAIN session, operation : {"plain", "sensitive"}]

\* The tables keep their types and checks, the rows of a session and of a
\* challenge that a request holds exist, and nobody authenticates with a passkey
\* that was not registered.
TypeOK ==
  /\ now \in Time
  /\ password \in [User -> Password \cup {None}]
  /\ login \in [User -> LoginRow \cup {None}]
  /\ session \in Seq(SessionRow) /\ challenge \in Seq(ChallengeRow)
  /\ passkey \subseteq User
  /\ handler \in [Handler -> HandlerType]
  /\ failed \in [User -> Seq(Time)]
  /\ \A c \in DOMAIN challenge :
       challenge[c].purpose = "authentication" => challenge[c].user \in passkey

\* The failed logins of a user since time t.
Since(u, t) == {i \in DOMAIN failed[u] : failed[u][i] >= t}

\* Nobody is locked out for less than MaxAttempts wrong passwords in a window:
\* the failures that a row of admin_login_state counts were recorded since the
\* start of its window, however requests overlap, and the count of a row never
\* goes back further than one window from the lock (_record_failure).
LockedWasEarned ==
  \A u \in User : login[u] # None =>
    LET row == login[u] IN
    /\ row.attempts <= Cardinality(Since(u, row.start))
    /\ row.locked # None =>
         /\ row.attempts >= MaxAttempts
         /\ row.locked < row.start + Window + Lockout

\* The challenge c was answered by user u with a passkey, for a proof until
\* expires.
Answered(c, u, expires) ==
  /\ c \in DOMAIN challenge
  /\ challenge[c].user = u /\ challenge[c].purpose = "authentication"
  /\ challenge[c].consumed # None /\ challenge[c].consumed < challenge[c].expires
  /\ expires <= challenge[c].consumed + StepUpLife

\* A step-up is earned: a step-up session stands for one answer of a passkey by
\* the same user, ends with the proof, and shares the answer with no other
\* session; and a call of the vault beyond list and use comes from such a
\* session (_finish_passkey_authentication, _require_step_up).
StepUpEarned ==
  /\ \A s \in DOMAIN session : session[s].auth = "step_up" =>
       /\ Answered(session[s].by, session[s].user, session[s].expires)
       /\ \A t \in DOMAIN session : session[t].by = session[s].by => t = s
  /\ \A h \in Handler : At(h, "vault") /\ handler[h].operation = "sensitive" =>
       session[handler[h].session].auth = "step_up"

-----------------------------------------------------------------------------
(* What makes them inductive.                                              *)

\* The failures that a row counts were recorded since its window began.
Earned(u, row) ==
  /\ row.start <= now
  /\ row.attempts <= Cardinality(Since(u, row.start))

\* That is so of a row that a request still holds after it was replaced, too, and
\* no request comes from the future.
LoginHeld(h) ==
  /\ handler[h].pc \in {"credential", "state", "failure"} => handler[h].at <= now
  /\ At(h, "failure") /\ handler[h].state # None =>
       Earned(handler[h].user, handler[h].state)

LoginInv ==
  /\ \A u \in User : login[u] # None => Earned(u, login[u])
  /\ \A h \in Handler : LoginHeld(h)

\* A proof stands for an answered challenge that no session and no other request
\* uses; a password answers none.
ProofInv ==
  /\ \A h \in Handler : At(h, "proof") =>
       /\ Answered(handler[h].by, handler[h].user, handler[h].expires)
       /\ \A s \in DOMAIN session : session[s].by # handler[h].by
       /\ \A g \in Handler : At(g, "proof") /\ handler[g].by = handler[h].by => g = h
  /\ \A s \in DOMAIN session : session[s].auth = "password" => session[s].by = 0

IndInv == TypeOK /\ LockedWasEarned /\ StepUpEarned /\ LoginInv /\ ProofInv
=============================================================================
