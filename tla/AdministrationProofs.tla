------------------------ MODULE AdministrationProofs ------------------------
(* Proofs about Administration: the inductive invariant IndInv and what     *)
(* follows from it.                                                         *)
EXTENDS Administration, FiniteSetTheorems, SequenceTheorems, TLAPS

USE DEF credentialVars, passkeyVars, At, Answer, Idle

-----------------------------------------------------------------------------
(* Types.                                                                  *)

LEMMA Constants ==
  /\ MaxAttempts \in Nat /\ Window \in Nat /\ Window > 0 /\ Lockout \in Nat
  /\ SessionLife \in Nat /\ ChallengeLife \in Nat /\ StepUpLife \in Nat
  /\ MaxTime \in Nat
  /\ None \notin Nat /\ None \notin Password
  BY AdministrationAssumption

\* What a request holds.
LEMMA Held ==
  ASSUME TypeOK, NEW h \in Handler
  PROVE  LET r == handler[h] IN
         /\ r.pc \in {"credential", "state"} =>
              r.user \in User /\ r.guess \in Password \cup {None} /\ r.at \in Time
         /\ r.pc = "state" => r.hash \in Password \cup {None}
         /\ r.pc = "failure" =>
              r.user \in User /\ r.at \in Time /\ r.state \in LoginRow \cup {None}
         /\ r.pc \in {"success", "create"} => r.user \in User
         /\ r.pc = "success" => r.hash \in Password
         /\ r.pc \in {"principal", "vault"} => r.session \in DOMAIN session
         /\ r.pc = "proof" =>
              r.user \in User /\ r.by \in DOMAIN challenge /\ r.expires \in Nat
  <1>1. handler[h] \in HandlerType
    BY DEF TypeOK
  <1> QED BY <1>1 DEF HandlerType

\* Rows are only added, and what requests hold stays typed.
LEMMA HandlerSteps ==
  ASSUME TypeOK, NEW h \in Handler, NEW x, handler' = [handler EXCEPT ![h] = x],
         x \in HandlerType',
         DOMAIN session \subseteq DOMAIN session',
         DOMAIN challenge \subseteq DOMAIN challenge'
  PROVE  handler' \in [Handler -> HandlerType]'
  <1>1. ASSUME NEW y \in HandlerType PROVE y \in HandlerType'
    BY DEF HandlerType
  <1> QED BY <1>1 DEF TypeOK

LEMMA Tables ==
  ASSUME TypeOK
  PROVE  /\ Len(session) \in Nat /\ DOMAIN session = 1 .. Len(session)
         /\ session \in [1 .. Len(session) -> SessionRow]
         /\ Len(challenge) \in Nat /\ DOMAIN challenge = 1 .. Len(challenge)
         /\ challenge \in [1 .. Len(challenge) -> ChallengeRow]
  BY LenProperties DEF TypeOK

LEMMA InitInv == Init => IndInv
  <1> SUFFICES ASSUME Init PROVE IndInv
    OBVIOUS
  <1>1. TypeOK
    <2>1. << >> \in Seq(SessionRow) /\ << >> \in Seq(ChallengeRow) /\ << >> \in Seq(Time)
      BY EmptySeq
    <2>2. 0 \in Time
      BY Constants DEF Time
    <2>3. \A c \in DOMAIN challenge : FALSE
      BY DEF Init
    <2>4. handler \in [Handler -> HandlerType]
      BY DEF Init, HandlerType
    <2> QED BY <2>1, <2>2, <2>3, <2>4 DEF Init, TypeOK
  <1>2. LockedWasEarned /\ LoginInv
    BY DEF Init, LockedWasEarned, LoginInv, LoginHeld
  <1>3. StepUpEarned /\ ProofInv
    BY DEF Init, StepUpEarned, ProofInv
  <1> QED BY <1>1, <1>2, <1>3 DEF IndInv

-----------------------------------------------------------------------------
(* Failures are only added, so a row stays earned.                         *)

LEMMA SinceFinite ==
  ASSUME TypeOK, NEW u \in User, NEW t
  PROVE  IsFiniteSet(Since(u, t)) /\ Cardinality(Since(u, t)) \in Nat
  <1>1. failed[u] \in Seq(Time)
    BY DEF TypeOK
  <1>2. Len(failed[u]) \in Nat /\ DOMAIN failed[u] = 1 .. Len(failed[u])
    BY <1>1, LenProperties
  <1>3. IsFiniteSet(1 .. Len(failed[u]))
    BY <1>2, FS_Interval
  <1>4. Since(u, t) \in SUBSET (1 .. Len(failed[u]))
    BY <1>2 DEF Since
  <1> QED BY <1>3, <1>4, FS_Subset, FS_CardinalityType

\* One more failure is one more that a row may count, if its window has begun.
LEMMA SinceGrows ==
  ASSUME TypeOK, NEW u \in User, NEW t \in Time, t <= now,
         failed' = [failed EXCEPT ![u] = Append(@, now)]
  PROVE  Cardinality(Since(u, t)') = Cardinality(Since(u, t)) + 1
  <1>1. failed[u] \in Seq(Time) /\ now \in Time /\ failed'[u] = Append(failed[u], now)
    BY DEF TypeOK
  <1> PICK n \in Nat : n = Len(failed[u])
    BY <1>1, LenProperties
  <1>2. DOMAIN failed[u] = 1 .. n
    BY <1>1, LenProperties
  <1>3. failed'[u] \in Seq(Time) /\ Len(failed'[u]) = n + 1
        /\ \A i \in 1 .. n : failed'[u][i] = failed[u][i]
    BY <1>1, AppendProperties
  <1>4. failed'[u][n + 1] = now
    BY <1>1, AppendProperties
  <1>5. DOMAIN failed'[u] = 1 .. n + 1
    BY <1>3, LenProperties
  <1>6. Since(u, t)' = Since(u, t) \cup {n + 1}
    <2>1. \A i \in 1 .. n + 1 : i \in 1 .. n \/ i = n + 1
      OBVIOUS
    <2>2. Since(u, t)' = {i \in 1 .. n + 1 : failed'[u][i] >= t}
      BY <1>5 DEF Since
    <2>3. Since(u, t) = {i \in 1 .. n : failed[u][i] >= t}
      BY <1>2 DEF Since
    <2>4. n + 1 \in 1 .. n + 1 /\ now >= t /\ \A i \in 1 .. n : i \in 1 .. n + 1
      BY <1>1 DEF Time
    <2> QED BY <1>3, <1>4, <2>1, <2>2, <2>3, <2>4
  <1>7. n + 1 \notin Since(u, t)
    BY <1>2 DEF Since
  <1> QED BY <1>6, <1>7, SinceFinite, FS_AddElement

\* What follows of the time and of the rows of logins when no failure is recorded.
LEMMA LoginKept ==
  ASSUME IndInv, now' \in Time, now' >= now, UNCHANGED failed,
         \A u \in User : login'[u] \in {login[u], None},
         \A h \in Handler : handler'[h] = handler[h] \/ LoginHeld(h)'
  PROVE  LockedWasEarned' /\ LoginInv'
  <1>0. TypeOK /\ LockedWasEarned /\ LoginInv
    BY DEF IndInv
  <1>1. ASSUME NEW u \in User, NEW row \in LoginRow, Earned(u, row) PROVE Earned(u, row)'
    <2>1. row.start \in Nat /\ now \in Nat /\ now' \in Nat
      BY <1>0, Constants DEF TypeOK, LoginRow, Time
    <2>2. row.start <= now'
      BY <1>1, <2>1 DEF Earned
    <2> QED BY <1>1, <2>2 DEF Earned, Since
  <1>2. LockedWasEarned'
    BY <1>0 DEF LockedWasEarned, Since
  <1>3. ASSUME NEW u \in User, login'[u] # None PROVE Earned(u, login[u])'
    <2>1. login'[u] = login[u] /\ login[u] \in LoginRow
      BY <1>0, <1>3 DEF TypeOK
    <2>2. PICK row \in LoginRow : row = login[u]
      BY <2>1
    <2>3. Earned(u, row)'
      BY <1>0, <1>1, <1>3, <2>1, <2>2 DEF LoginInv
    <2>4. row = login'[u]
      BY <2>1, <2>2
    <2> QED BY <2>3, <2>4
  <1>4. ASSUME NEW h \in Handler, handler'[h] = handler[h] PROVE LoginHeld(h)'
    <2>0. LoginHeld(h)
      BY <1>0 DEF LoginInv
    <2>1. handler[h].pc \in {"credential", "state", "failure"} => handler[h].at <= now'
      <3>1. handler[h].pc \in {"credential", "state", "failure"} => handler[h].at \in Time
        BY <1>0, Held
      <3>2. now \in Time
        BY <1>0 DEF TypeOK
      <3> QED BY <2>0, <3>1, <3>2, Constants DEF LoginHeld, Time
    <2>2. ASSUME At(h, "failure"), handler[h].state # None
          PROVE  Earned(handler[h].user, handler[h].state)'
      <3>1. PICK u \in User, row \in LoginRow : u = handler[h].user /\ row = handler[h].state
        BY <1>0, <2>2, Held
      <3>2. Earned(u, row)
        BY <2>0, <2>2, <3>1 DEF LoginHeld
      <3>3. Earned(u, row)'
        BY <1>1, <3>2
      <3>4. u = handler'[h].user /\ row = handler'[h].state
        BY <1>4, <3>1
      <3> QED BY <3>3, <3>4
    <2> QED BY <1>4, <2>1, <2>2 DEF LoginHeld
  <1>5. \A h \in Handler : LoginHeld(h)'
    BY <1>4
  <1> QED BY <1>2, <1>3, <1>5 DEF LoginInv

\* A request that does not log in satisfies LoginHeld.
LEMMA NoLogin ==
  ASSUME NEW h, handler'[h].pc \notin {"credential", "state", "failure"}
  PROVE  LoginHeld(h)'
  BY DEF LoginHeld

\* Nothing that a step-up rests on changes.
LEMMA ProofKept ==
  ASSUME IndInv, UNCHANGED <<session, challenge>>,
         \A h \in Handler :
           \/ handler'[h] = handler[h]
           \/ /\ handler'[h].pc # "proof"
              /\ handler'[h].pc = "vault" /\ handler'[h].operation = "sensitive" =>
                   session[handler'[h].session].auth = "step_up"
  PROVE  StepUpEarned' /\ ProofInv'
  <1>0. StepUpEarned /\ ProofInv
    BY DEF IndInv
  <1>1. \A c, u, e : Answered(c, u, e)' <=> Answered(c, u, e)
    BY DEF Answered
  <1>2. StepUpEarned'
    BY <1>0, <1>1 DEF StepUpEarned
  <1>3. ProofInv'
    BY <1>0, <1>1 DEF ProofInv
  <1> QED BY <1>2, <1>3

-----------------------------------------------------------------------------
(* Steps that only change what a request holds.                            *)

LEMMA HandlerOnly ==
  ASSUME IndInv, NEW h \in Handler, NEW x \in HandlerType,
         handler' = [handler EXCEPT ![h] = x],
         UNCHANGED <<now, credentialVars, session, passkeyVars>>,
         LoginHeld(h)', x.pc # "proof",
         x.pc = "vault" /\ x.operation = "sensitive" => session[x.session].auth = "step_up"
  PROVE  IndInv'
  <1>0. TypeOK
    BY DEF IndInv
  <1>1. handler'[h] = x /\ \A g \in Handler : g # h => handler'[g] = handler[g]
    BY <1>0 DEF TypeOK
  <1>2. TypeOK'
    <2>1. x \in HandlerType'
      BY DEF HandlerType
    <2>2. handler' \in [Handler -> HandlerType]'
      BY <1>0, <2>1, HandlerSteps
    <2> QED BY <1>0, <2>2 DEF TypeOK
  <1>3. LockedWasEarned' /\ LoginInv'
    <2>1. now' \in Time /\ now' >= now
      BY <1>0, Constants DEF TypeOK, Time
    <2>2. \A g \in Handler : handler'[g] = handler[g] \/ LoginHeld(g)'
      BY <1>1
    <2> QED BY <2>1, <2>2, LoginKept
  <1>4. StepUpEarned' /\ ProofInv'
    BY <1>1, ProofKept
  <1> QED BY <1>2, <1>3, <1>4 DEF IndInv

LEMMA AnswerOnly ==
  ASSUME IndInv, NEW h \in Handler, Answer(h),
         UNCHANGED <<now, credentialVars, session, passkeyVars>>
  PROVE  IndInv'
  <1>1. Idle \in HandlerType /\ handler'[h] = Idle
    BY DEF HandlerType, IndInv, TypeOK
  <1>2. LoginHeld(h)'
    BY <1>1, NoLogin
  <1> QED BY <1>1, <1>2, HandlerOnly

LEMMA BeginLoginInv ==
  ASSUME IndInv, NEW h \in Handler, NEW u \in User, NEW guess \in Password \cup {None},
         BeginLogin(h, u, guess)
  PROVE  IndInv'
  <1> DEFINE x == [pc |-> "credential", user |-> u, guess |-> guess, at |-> now]
  <1>1. now \in Time /\ now \in Nat
    BY Constants DEF IndInv, TypeOK, Time
  <1>2. x \in HandlerType
    BY <1>1 DEF HandlerType
  <1>3. handler' = [handler EXCEPT ![h] = x] /\ handler'[h] = x
        /\ UNCHANGED <<now, credentialVars, session, passkeyVars>>
    BY DEF BeginLogin, IndInv, TypeOK
  <1>4. LoginHeld(h)'
    BY <1>1, <1>3 DEF LoginHeld
  <1> QED BY <1>2, <1>3, <1>4, HandlerOnly

LEMMA ReadCredentialInv ==
  ASSUME IndInv, NEW h \in Handler, ReadCredential(h)
  PROVE  IndInv'
  <1> DEFINE r == handler[h]
             x == [pc |-> "state", user |-> r.user, guess |-> r.guess, at |-> r.at,
                   hash |-> password[r.user]]
  <1>0. TypeOK /\ r.pc = "credential"
    BY DEF IndInv, ReadCredential
  <1>1. r.user \in User /\ r.guess \in Password \cup {None} /\ r.at \in Time /\ r.at <= now
    BY <1>0, Held DEF IndInv, LoginInv, LoginHeld
  <1>2. x \in HandlerType
    BY <1>0, <1>1 DEF HandlerType, TypeOK
  <1>3. handler' = [handler EXCEPT ![h] = x] /\ handler'[h] = x
        /\ UNCHANGED <<now, credentialVars, session, passkeyVars>>
    BY <1>0 DEF ReadCredential, TypeOK
  <1>4. LoginHeld(h)'
    BY <1>1, <1>3 DEF LoginHeld
  <1> QED BY <1>2, <1>3, <1>4, HandlerOnly

LEMMA ReadStateInv ==
  ASSUME IndInv, NEW h \in Handler, ReadState(h)
  PROVE  IndInv'
  <1> DEFINE r == handler[h]
             row == login[r.user]
             good == [pc |-> "success", user |-> r.user, hash |-> r.hash]
             bad == [pc |-> "failure", user |-> r.user, at |-> r.at, state |-> row]
  <1>0. TypeOK /\ r.pc = "state" /\ UNCHANGED <<now, credentialVars, session, passkeyVars>>
    BY DEF IndInv, ReadState
  <1>1. r.user \in User /\ r.at \in Time /\ r.at <= now
    BY <1>0, Held DEF IndInv, LoginInv, LoginHeld
  <1>2. row \in LoginRow \cup {None} /\ (row # None => Earned(r.user, row))
    BY <1>0, <1>1 DEF IndInv, LoginInv, TypeOK
  <1>3. CASE Answer(h)
    BY <1>0, <1>3, AnswerOnly
  <1>4. CASE Valid(r) /\ handler' = [handler EXCEPT ![h] = good]
    <2>0. r.hash \in Password
      BY <1>0, <1>4, Held DEF Valid
    <2>1. good \in HandlerType /\ handler'[h] = good
      BY <1>0, <1>1, <1>4, <2>0 DEF HandlerType, TypeOK
    <2>2. LoginHeld(h)'
      BY <2>1, NoLogin
    <2> QED BY <1>0, <1>4, <2>1, <2>2, HandlerOnly
  <1>5. CASE handler' = [handler EXCEPT ![h] = bad]
    <2>1. bad \in HandlerType /\ handler'[h] = bad
      BY <1>0, <1>1, <1>2, <1>5 DEF HandlerType, TypeOK
    <2>2. LoginHeld(h)'
      BY <1>0, <1>1, <1>2, <2>1 DEF LoginHeld, Earned, Since
    <2> QED BY <1>0, <1>5, <2>1, <2>2, HandlerOnly
  <1> QED BY <1>3, <1>4, <1>5 DEF ReadState

LEMMA RequestInv ==
  ASSUME IndInv, NEW h \in Handler,
         \/ \E s \in DOMAIN session : Authenticate(h, s)
         \/ \E operation \in {"plain", "sensitive"} : IssueGrant(h, operation)
         \/ VaultAnswers(h)
         \/ Refuse(h)
  PROVE  IndInv'
  <1>0. TypeOK
    BY DEF IndInv
  <1>1. ASSUME NEW s \in DOMAIN session, Authenticate(h, s) PROVE IndInv'
    <2> DEFINE x == [pc |-> "principal", session |-> s]
    <2>1. x \in HandlerType
      BY DEF HandlerType
    <2>2. handler' = [handler EXCEPT ![h] = x] /\ handler'[h] = x
          /\ UNCHANGED <<now, credentialVars, session, passkeyVars>>
      BY <1>0, <1>1 DEF Authenticate, TypeOK
    <2>3. LoginHeld(h)'
      BY <2>2, NoLogin
    <2> QED BY <2>1, <2>2, <2>3, HandlerOnly
  <1>2. ASSUME NEW operation \in {"plain", "sensitive"}, IssueGrant(h, operation)
        PROVE  IndInv'
    <2> DEFINE x == [pc |-> "vault", session |-> handler[h].session, operation |-> operation]
    <2>1. handler[h].session \in DOMAIN session
      BY <1>0, <1>2, Held DEF IssueGrant
    <2>2. x \in HandlerType
      BY <2>1 DEF HandlerType
    <2>3. handler' = [handler EXCEPT ![h] = x] /\ handler'[h] = x
          /\ UNCHANGED <<now, credentialVars, session, passkeyVars>>
      BY <1>0, <1>2 DEF IssueGrant, TypeOK
    <2>4. LoginHeld(h)'
      BY <2>3, NoLogin
    <2>5. operation = "sensitive" => session[handler[h].session].auth = "step_up"
      BY <1>2 DEF IssueGrant, Permitted, Principal
    <2> QED BY <2>2, <2>3, <2>4, <2>5, HandlerOnly
  <1>3. CASE VaultAnswers(h) \/ Refuse(h)
    BY <1>3, AnswerOnly DEF VaultAnswers, Refuse
  <1> QED BY <1>1, <1>2, <1>3

-----------------------------------------------------------------------------
(* The tables of logins.                                                   *)

\* The login side of a step that leaves sessions and challenges alone.
LEMMA LoginTableInv ==
  ASSUME IndInv, now' \in Time, UNCHANGED <<session, passkeyVars>>,
         password' \in [User -> Password \cup {None}],
         login' \in [User -> LoginRow \cup {None}], failed' \in [User -> Seq(Time)],
         handler' \in [Handler -> HandlerType],
         \A h \in Handler : handler'[h] = handler[h] \/ handler'[h].pc \notin {"proof", "vault"},
         LockedWasEarned', LoginInv'
  PROVE  IndInv'
  <1>1. TypeOK'
    <2>1. HandlerType' = HandlerType
      BY DEF HandlerType
    <2> QED BY <2>1 DEF IndInv, TypeOK
  <1>2. StepUpEarned' /\ ProofInv'
    BY ProofKept
  <1> QED BY <1>1, <1>2 DEF IndInv

\* The row that a failure writes, from a row that was read before.
LEMMA AfterFailureType ==
  ASSUME NEW row \in LoginRow \cup {None}, NEW at \in Time
  PROVE  /\ AfterFailure(row, at) \in LoginRow
         /\ AfterFailure(row, at).start \in {at} \cup {row.start}
         /\ AfterFailure(row, at).locked # None =>
              /\ AfterFailure(row, at).attempts >= MaxAttempts
              /\ AfterFailure(row, at).locked < AfterFailure(row, at).start + Window + Lockout
         /\ ~ Counts(row, at) => AfterFailure(row, at).attempts = 1 /\ AfterFailure(row, at).start = at
         /\ Counts(row, at) => /\ row \in LoginRow
                               /\ AfterFailure(row, at).attempts = row.attempts + 1
                               /\ AfterFailure(row, at).start = row.start
  <1> DEFINE n == IF Counts(row, at) THEN row.attempts + 1 ELSE 1
             start == IF Counts(row, at) THEN row.start ELSE at
  <1>1. Counts(row, at) => row \in LoginRow
    BY DEF Counts
  <1>2. n \in Nat \ {0} /\ start \in Time /\ at \in Nat /\ at + Lockout \in Nat
    BY <1>1, Constants DEF LoginRow, Time
  <1>3. at + Lockout < start + Window + Lockout
    <2>1. CASE Counts(row, at)
      BY <1>1, <1>2, <2>1, Constants DEF Counts, LoginRow, Time
    <2>2. CASE ~ Counts(row, at)
      BY <1>2, <2>2, Constants
    <2> QED BY <2>1, <2>2
  <1>4. AfterFailure(row, at) =
          [start |-> start, attempts |-> n,
           locked |-> IF n >= MaxAttempts THEN at + Lockout ELSE None]
    BY DEF AfterFailure
  <1>5. AfterFailure(row, at) \in LoginRow
    BY <1>2, <1>4 DEF LoginRow
  <1>6. (IF n >= MaxAttempts THEN at + Lockout ELSE None) # None =>
          n >= MaxAttempts /\ (IF n >= MaxAttempts THEN at + Lockout ELSE None) = at + Lockout
    OBVIOUS
  <1>7. /\ AfterFailure(row, at).start = start /\ AfterFailure(row, at).attempts = n
        /\ AfterFailure(row, at).locked = IF n >= MaxAttempts THEN at + Lockout ELSE None
    BY <1>4
  <1>8. AfterFailure(row, at).locked # None =>
          /\ AfterFailure(row, at).attempts >= MaxAttempts
          /\ AfterFailure(row, at).locked < AfterFailure(row, at).start + Window + Lockout
    BY <1>3, <1>6, <1>7
  <1> QED BY <1>1, <1>5, <1>7, <1>8

LEMMA RecordFailureInv ==
  ASSUME IndInv, NEW h \in Handler, RecordFailure(h)
  PROVE  IndInv'
  <1>0. TypeOK /\ LoginInv /\ LockedWasEarned
    BY DEF IndInv
  <1>1. PICK u \in User, at \in Time, old \in LoginRow \cup {None} :
          u = handler[h].user /\ at = handler[h].at /\ old = handler[h].state
    BY <1>0, Held DEF RecordFailure
  <1>2. at <= now /\ (old # None => Earned(u, old)) /\ now \in Time
    BY <1>0, <1>1 DEF RecordFailure, LoginInv, LoginHeld, TypeOK
  <1>3. PICK row : row = AfterFailure(old, at)
    OBVIOUS
  <1>4. /\ login' = [login EXCEPT ![u] = row] /\ failed' = [failed EXCEPT ![u] = Append(@, now)]
        /\ handler' = [handler EXCEPT ![h] = Idle]
        /\ UNCHANGED <<now, password, session, passkeyVars>>
    BY <1>1, <1>3 DEF RecordFailure
  <1>5. ASSUME NEW t \in Time, t <= now
        PROVE  /\ Cardinality(Since(u, t)') = Cardinality(Since(u, t)) + 1
               /\ Cardinality(Since(u, t)) \in Nat
    BY <1>0, <1>4, <1>5, SinceGrows, SinceFinite
  <1>6. ASSUME NEW r \in LoginRow, Earned(u, r) PROVE Earned(u, r)'
    <2>1. r.start \in Time /\ r.attempts \in Nat /\ r.start <= now
          /\ r.attempts <= Cardinality(Since(u, r.start))
      BY <1>6 DEF LoginRow, Earned
    <2>2. Cardinality(Since(u, r.start)') = Cardinality(Since(u, r.start)) + 1
          /\ Cardinality(Since(u, r.start)) \in Nat
      BY <1>5, <2>1
    <2>3. r.attempts <= Cardinality(Since(u, r.start)')
      BY <2>1, <2>2
    <2> QED BY <1>4, <2>1, <2>3 DEF Earned, Since
  <1>7. ASSUME NEW v \in User, v # u, NEW r, Earned(v, r) PROVE Earned(v, r)'
    <2>1. failed'[v] = failed[v]
      BY <1>0, <1>4, <1>7 DEF TypeOK
    <2> QED BY <1>4, <1>7, <2>1 DEF Earned, Since
  <1>8. row \in LoginRow /\ Earned(u, row)'
        /\ (row.locked # None => row.attempts >= MaxAttempts
                                   /\ row.locked < row.start + Window + Lockout)
    <2>1. row \in LoginRow
          /\ (row.locked # None => row.attempts >= MaxAttempts
                                   /\ row.locked < row.start + Window + Lockout)
      BY <1>1, <1>3, AfterFailureType
    <2>2. CASE Counts(old, at)
      <3>1. old \in LoginRow /\ row.attempts = old.attempts + 1 /\ row.start = old.start
        BY <1>1, <1>3, <2>2, AfterFailureType
      <3>2. old.start \in Time /\ old.attempts \in Nat /\ old.start <= now
            /\ old.attempts <= Cardinality(Since(u, old.start))
        BY <1>2, <2>2, <3>1 DEF LoginRow, Earned, Counts
      <3>3. Cardinality(Since(u, old.start)') = Cardinality(Since(u, old.start)) + 1
            /\ Cardinality(Since(u, old.start)) \in Nat
        BY <1>5, <3>2
      <3>4. row.attempts <= Cardinality(Since(u, old.start)')
        BY <3>1, <3>2, <3>3
      <3> QED BY <1>4, <2>1, <3>1, <3>2, <3>4 DEF Earned, Since
    <2>3. CASE ~ Counts(old, at)
      <3>1. row.attempts = 1 /\ row.start = at
        BY <1>1, <1>3, <2>3, AfterFailureType
      <3>2. Cardinality(Since(u, at)') = Cardinality(Since(u, at)) + 1
            /\ Cardinality(Since(u, at)) \in Nat
        BY <1>2, <1>5
      <3>3. row.attempts <= Cardinality(Since(u, at)')
        BY <3>1, <3>2
      <3> QED BY <1>2, <1>4, <2>1, <3>1, <3>3 DEF Earned, Since
    <2> QED BY <2>2, <2>3
  <1>9. /\ login' \in [User -> LoginRow \cup {None}] /\ login'[u] = row
        /\ \A v \in User : v # u => login'[v] = login[v]
    BY <1>0, <1>4, <1>8 DEF TypeOK
  <1>10. failed' \in [User -> Seq(Time)]
    <2>1. failed[u] \in Seq(Time)
      BY <1>0 DEF TypeOK
    <2>2. Append(failed[u], now) \in Seq(Time)
      BY <1>2, <2>1, AppendProperties
    <2> QED BY <1>0, <1>4, <2>2 DEF TypeOK
  <1>11. handler' \in [Handler -> HandlerType] /\ handler'[h] = Idle
         /\ \A g \in Handler : g # h => handler'[g] = handler[g]
    <2>1. Idle \in HandlerType
      BY DEF HandlerType
    <2> QED BY <1>0, <1>4, <2>1 DEF TypeOK
  <1>12. ASSUME NEW v \in User, NEW r \in LoginRow, Earned(v, r) PROVE Earned(v, r)'
    BY <1>6, <1>7, <1>12
  <1>13. ASSUME NEW v \in User, login'[v] # None
         PROVE  /\ Earned(v, login[v])'
                /\ login'[v].locked # None =>
                     /\ login'[v].attempts >= MaxAttempts
                     /\ login'[v].locked < login'[v].start + Window + Lockout
    <2>1. CASE v = u
      <3>1. row = login'[v]
        BY <1>9, <2>1
      <3> QED BY <1>8, <2>1, <3>1
    <2>2. CASE v # u
      <3>1. login'[v] = login[v] /\ login[v] \in LoginRow
        BY <1>0, <1>9, <1>13, <2>2 DEF TypeOK
      <3>2. PICK r \in LoginRow : r = login[v]
        BY <3>1
      <3>3. Earned(v, r)
        BY <1>0, <1>13, <3>1, <3>2 DEF LoginInv
      <3>4. Earned(v, r)'
        BY <1>12, <3>3
      <3>5. r = login'[v]
        BY <3>1, <3>2
      <3>6. r.locked # None => r.attempts >= MaxAttempts /\ r.locked < r.start + Window + Lockout
        BY <1>0, <1>13, <3>1, <3>2 DEF LockedWasEarned
      <3> QED BY <3>4, <3>5, <3>6
    <2> QED BY <2>1, <2>2
  <1>14. LockedWasEarned'
    BY <1>13 DEF LockedWasEarned, Earned
  <1>15. ASSUME NEW g \in Handler PROVE LoginHeld(g)'
    <2>1. CASE g = h
      BY <1>11, <2>1, NoLogin
    <2>2. CASE g # h
      <3>1. handler'[g] = handler[g] /\ LoginHeld(g)
        BY <1>0, <1>11, <2>2 DEF LoginInv
      <3>2. handler[g].pc \in {"credential", "state", "failure"} => handler[g].at <= now'
        BY <1>4, <3>1 DEF LoginHeld
      <3>3. ASSUME At(g, "failure"), handler[g].state # None
            PROVE  Earned(handler[g].user, handler[g].state)'
        <4>1. PICK v \in User, r \in LoginRow : v = handler[g].user /\ r = handler[g].state
          BY <1>0, <3>3, Held
        <4>2. Earned(v, r)'
          BY <1>12, <3>1, <3>3, <4>1 DEF LoginHeld
        <4>3. v = handler'[g].user /\ r = handler'[g].state
          BY <3>1, <4>1
        <4> QED BY <4>2, <4>3
      <3> QED BY <3>1, <3>2, <3>3 DEF LoginHeld
    <2> QED BY <2>1, <2>2
  <1>16. LoginInv'
    BY <1>13, <1>15 DEF LoginInv
  <1>17. password' \in [User -> Password \cup {None}] /\ now' \in Time
    BY <1>0, <1>4 DEF TypeOK
  <1>18. \A g \in Handler : handler'[g] = handler[g] \/ handler'[g].pc \notin {"proof", "vault"}
    BY <1>11
  <1> QED BY <1>4, <1>9, <1>10, <1>11, <1>14, <1>16, <1>17, <1>18, LoginTableInv

\* A login that succeeds, and a new password, delete the row of the user.
LEMMA ClearInv ==
  ASSUME IndInv,
         (\E h \in Handler : ClearState(h)) \/ (\E u \in User, p \in Password : SetPassword(u, p))
  PROVE  IndInv'
  <1>0. TypeOK
    BY DEF IndInv
  <1>1. ASSUME NEW u \in User, login' = [login EXCEPT ![u] = None],
               UNCHANGED <<now, failed, session, passkeyVars>>,
               password' \in [User -> Password \cup {None}],
               handler' \in [Handler -> HandlerType],
               \A g \in Handler : handler'[g] = handler[g] \/ handler'[g].pc = "create"
        PROVE  IndInv'
    <2>1. login' \in [User -> LoginRow \cup {None}] /\ failed' \in [User -> Seq(Time)]
      BY <1>0, <1>1 DEF TypeOK
    <2>2. \A v \in User : login'[v] \in {login[v], None}
      BY <1>0, <1>1 DEF TypeOK
    <2>3. now' \in Time /\ now' >= now
      BY <1>0, <1>1, Constants DEF TypeOK, Time
    <2>4. \A g \in Handler : handler'[g] = handler[g] \/ LoginHeld(g)'
      BY <1>1, NoLogin
    <2>5. LockedWasEarned' /\ LoginInv'
      BY <1>1, <2>2, <2>3, <2>4, LoginKept
    <2>6. \A g \in Handler : handler'[g] = handler[g] \/ handler'[g].pc \notin {"proof", "vault"}
      BY <1>1
    <2> QED BY <1>1, <2>1, <2>3, <2>5, <2>6, LoginTableInv
  <1>2. ASSUME NEW h \in Handler, ClearState(h) PROVE IndInv'
    <2>1. PICK u \in User : u = handler[h].user /\ handler[h].hash \in Password
      BY <1>0, <1>2, Held DEF ClearState
    <2> DEFINE x == [pc |-> "create", user |-> u]
    <2>2. x \in HandlerType /\ handler' = [handler EXCEPT ![h] = x]
          /\ login' = [login EXCEPT ![u] = None]
          /\ \/ password' = [password EXCEPT ![u] = handler[h].hash]
             \/ UNCHANGED password
          /\ UNCHANGED <<now, failed, session, passkeyVars>>
      BY <1>2, <2>1 DEF ClearState, HandlerType
    <2>3. handler' \in [Handler -> HandlerType] /\ password' \in [User -> Password \cup {None}]
          /\ \A g \in Handler : handler'[g] = handler[g] \/ handler'[g].pc = "create"
      BY <1>0, <2>1, <2>2 DEF TypeOK
    <2> QED BY <1>1, <2>2, <2>3
  <1>3. ASSUME NEW u \in User, NEW p \in Password, SetPassword(u, p) PROVE IndInv'
    <2>1. password' \in [User -> Password \cup {None}] /\ handler' \in [Handler -> HandlerType]
      BY <1>0, <1>3 DEF SetPassword, TypeOK
    <2> QED BY <1>1, <1>3, <2>1 DEF SetPassword
  <1> QED BY <1>2, <1>3

-----------------------------------------------------------------------------
(* The tables of sessions and challenges.                                  *)

\* The rest of the invariant for a step on those tables, by a request that does
\* not log in.
LEMMA TableInv ==
  ASSUME IndInv, NEW h \in Handler, NEW x, handler' = [handler EXCEPT ![h] = x],
         x \in HandlerType', x.pc \notin {"credential", "state", "failure"},
         UNCHANGED <<now, credentialVars>>,
         session' \in Seq(SessionRow), DOMAIN session \subseteq DOMAIN session',
         challenge' \in Seq(ChallengeRow), DOMAIN challenge \subseteq DOMAIN challenge',
         passkey' \subseteq User,
         \A c \in DOMAIN challenge' :
           challenge'[c].purpose = "authentication" => challenge'[c].user \in passkey',
         StepUpEarned', ProofInv'
  PROVE  IndInv'
  <1>0. TypeOK
    BY DEF IndInv
  <1>1. handler' \in [Handler -> HandlerType]'
    BY <1>0, HandlerSteps
  <1>2. TypeOK'
    BY <1>0, <1>1 DEF TypeOK
  <1>3. handler'[h] = x /\ \A g \in Handler : g # h => handler'[g] = handler[g]
    BY <1>0 DEF TypeOK
  <1>4. now' \in Time /\ now' >= now
    BY <1>0, Constants DEF TypeOK, Time
  <1>5. \A g \in Handler : handler'[g] = handler[g] \/ LoginHeld(g)'
    BY <1>3, NoLogin
  <1>6. \A u \in User : login'[u] \in {login[u], None}
    OBVIOUS
  <1>7. LockedWasEarned' /\ LoginInv'
    BY <1>4, <1>5, <1>6, LoginKept
  <1> QED BY <1>2, <1>7 DEF IndInv

\* A session is added: one that a password opened, or the one that stands for the
\* answer that request h holds.
LEMMA NewSessionInv ==
  ASSUME IndInv, NEW h \in Handler, Answer(h), UNCHANGED <<now, credentialVars, passkeyVars>>,
         NEW row \in SessionRow, session' = Append(session, row),
         \/ row.auth = "password" /\ row.by = 0
         \/ /\ row.auth = "step_up" /\ At(h, "proof")
            /\ row.by = handler[h].by /\ row.user = handler[h].user
            /\ row.expires = handler[h].expires
  PROVE  IndInv'
  <1>0. TypeOK /\ StepUpEarned /\ ProofInv
    BY DEF IndInv
  <1>1. PICK n \in Nat : n = Len(session)
    BY <1>0, Tables
  <1>2. DOMAIN session = 1 .. n
    BY <1>0, <1>1, Tables
  <1>3. /\ session' \in Seq(SessionRow) /\ Len(session') = n + 1
        /\ \A s \in 1 .. n : session'[s] = session[s]
    BY <1>0, <1>1, AppendProperties DEF TypeOK
  <1>4. session'[n + 1] = row
    BY <1>0, <1>1, AppendProperties DEF TypeOK
  <1>5. DOMAIN session' = 1 .. n + 1
    BY <1>3, LenProperties
  <1>6. \A s \in 1 .. n + 1 : s \in 1 .. n \/ s = n + 1
    BY <1>1
  <1>7. handler'[h] = Idle /\ \A g \in Handler : g # h => handler'[g] = handler[g]
    BY <1>0 DEF TypeOK
  <1>8. \A c, u, e : Answered(c, u, e)' <=> Answered(c, u, e)
    BY DEF Answered
  <1>9. \A s \in 1 .. n : session[s].auth = "step_up" => session[s].by # row.by
    <2>1. CASE row.auth = "password" /\ row.by = 0
      <3>1. 0 \notin DOMAIN challenge
        BY <1>0, Tables
      <3> QED BY <1>0, <1>2, <2>1, <3>1 DEF StepUpEarned, Answered
    <2>2. CASE At(h, "proof") /\ row.by = handler[h].by
      BY <1>0, <1>2, <2>2 DEF ProofInv
    <2> QED BY <2>1, <2>2
  <1>10. StepUpEarned'
    <2>1. ASSUME NEW s \in 1 .. n + 1, session'[s].auth = "step_up"
          PROVE  /\ Answered(session'[s].by, session'[s].user, session'[s].expires)
                 /\ \A t \in 1 .. n + 1 : session'[t].by = session'[s].by => t = s
      <3>1. CASE s \in 1 .. n
        BY <1>0, <1>2, <1>3, <1>4, <1>6, <1>9, <2>1, <3>1 DEF StepUpEarned
      <3>2. CASE s = n + 1
        <4>1. /\ At(h, "proof") /\ row.by = handler[h].by /\ row.user = handler[h].user
              /\ row.expires = handler[h].expires
          BY <1>4, <2>1, <3>2
        <4>2. Answered(row.by, row.user, row.expires)
              /\ \A t \in 1 .. n : session[t].by # row.by
          BY <1>0, <1>2, <4>1 DEF ProofInv
        <4> QED BY <1>3, <1>4, <1>6, <3>2, <4>2
      <3> QED BY <1>6, <3>1, <3>2
    <2>2. ASSUME NEW g \in Handler, handler'[g].pc = "vault", handler'[g].operation = "sensitive"
          PROVE  session'[handler'[g].session].auth = "step_up"
      <3>1. handler'[g] = handler[g] /\ handler[g].session \in 1 .. n
        BY <1>0, <1>2, <1>7, <2>2, Held
      <3> QED BY <1>0, <1>3, <2>2, <3>1 DEF StepUpEarned
    <2> QED BY <1>5, <1>8, <2>1, <2>2 DEF StepUpEarned
  <1>11. ProofInv'
    <2>1. ASSUME NEW g \in Handler, handler'[g].pc = "proof"
          PROVE  /\ Answered(handler'[g].by, handler'[g].user, handler'[g].expires)
                 /\ \A s \in 1 .. n + 1 : session'[s].by # handler'[g].by
                 /\ \A f \in Handler : handler'[f].pc = "proof"
                                         /\ handler'[f].by = handler'[g].by => f = g
      <3>1. g # h /\ handler'[g] = handler[g] /\ At(g, "proof")
        BY <1>7, <2>1
      <3>2. Answered(handler[g].by, handler[g].user, handler[g].expires)
            /\ (\A s \in 1 .. n : session[s].by # handler[g].by)
            /\ (\A f \in Handler : At(f, "proof") /\ handler[f].by = handler[g].by => f = g)
        BY <1>0, <1>2, <3>1 DEF ProofInv
      <3>3. row.by # handler[g].by
        <4>1. handler[g].by # 0
          BY <1>0, <3>1, Held, Tables
        <4> QED BY <3>1, <3>2, <4>1
      <3> QED BY <1>3, <1>4, <1>6, <1>7, <3>1, <3>2, <3>3
    <2>2. \A s \in 1 .. n + 1 : session'[s].auth = "password" => session'[s].by = 0
      BY <1>0, <1>2, <1>3, <1>4, <1>6 DEF ProofInv
    <2> QED BY <1>5, <1>8, <2>1, <2>2 DEF ProofInv
  <1>12. Idle \in HandlerType'
    BY DEF HandlerType
  <1>13. DOMAIN session \subseteq DOMAIN session'
    BY <1>2, <1>5
  <1> QED BY <1>0, <1>3, <1>10, <1>11, <1>12, <1>13, TableInv DEF TypeOK

LEMMA CreateSessionInv ==
  ASSUME IndInv, NEW h \in Handler, CreateSession(h) \/ CreateStepUp(h)
  PROVE  IndInv'
  <1>0. TypeOK
    BY DEF IndInv
  <1>1. CASE CreateSession(h)
    <2> DEFINE row == [user |-> handler[h].user, auth |-> "password",
                       expires |-> now + SessionLife, revoked |-> FALSE, by |-> 0]
    <2>1. handler[h].user \in User /\ now + SessionLife \in Nat
      BY <1>0, <1>1, Held, Constants DEF CreateSession, TypeOK, Time
    <2>2. row \in SessionRow /\ row.auth = "password" /\ row.by = 0
      BY <2>1 DEF SessionRow
    <2>3. session' = Append(session, row)
      BY <1>1 DEF CreateSession, NewSession
    <2> HIDE DEF row
    <2> QED BY <1>1, <2>2, <2>3, NewSessionInv DEF CreateSession
  <1>2. CASE CreateStepUp(h) /\ handler[h].expires > now
    <2> DEFINE row == [user |-> handler[h].user, auth |-> "step_up",
                       expires |-> handler[h].expires, revoked |-> FALSE, by |-> handler[h].by]
    <2>1. handler[h].user \in User /\ handler[h].expires \in Nat /\ handler[h].by \in Nat
      BY <1>0, <1>2, Held, Tables DEF CreateStepUp
    <2>2. /\ row \in SessionRow /\ row.auth = "step_up" /\ row.by = handler[h].by
          /\ row.user = handler[h].user /\ row.expires = handler[h].expires
      BY <2>1 DEF SessionRow
    <2>3. session' = Append(session, row)
      BY <1>2 DEF CreateStepUp, NewSession
    <2> HIDE DEF row
    <2> QED BY <1>2, <2>2, <2>3, NewSessionInv DEF CreateStepUp
  <1>3. CASE CreateStepUp(h) /\ ~ (handler[h].expires > now)
    BY <1>3, AnswerOnly DEF CreateStepUp
  <1> QED BY <1>1, <1>2, <1>3

LEMMA RevokeSessionInv ==
  ASSUME IndInv, NEW h \in Handler, RevokeSession(h)
  PROVE  IndInv'
  <1>0. TypeOK /\ StepUpEarned /\ ProofInv
    BY DEF IndInv
  <1>1. PICK s : s = handler[h].session
    OBVIOUS
  <1>2. s \in DOMAIN session
    BY <1>0, <1>1, Held DEF RevokeSession
  <1>3. session' = [session EXCEPT ![s] = [session[s] EXCEPT !.revoked = TRUE]]
    BY <1>1 DEF RevokeSession
  <1>4. session[s] \in SessionRow /\ [session[s] EXCEPT !.revoked = TRUE] \in SessionRow
    BY <1>0, <1>2, Tables DEF SessionRow
  <1>5. session' \in Seq(SessionRow) /\ DOMAIN session' = DOMAIN session
    <2>1. session' \in Seq(SessionRow) /\ Len(session') = Len(session)
      BY <1>0, <1>2, <1>3, <1>4, Tables, ExceptSeq DEF TypeOK
    <2> QED BY <1>0, <2>1, Tables, LenProperties
  <1>6. \A t \in DOMAIN session :
          /\ session'[t].auth = session[t].auth /\ session'[t].user = session[t].user
          /\ session'[t].expires = session[t].expires /\ session'[t].by = session[t].by
    BY <1>0, <1>2, <1>3, <1>4, Tables DEF SessionRow
  <1>7. handler'[h] = Idle /\ \A g \in Handler : g # h => handler'[g] = handler[g]
    BY <1>0 DEF RevokeSession, TypeOK
  <1>8. \A c, u, e : Answered(c, u, e)' <=> Answered(c, u, e)
    BY DEF Answered, RevokeSession
  <1>9. StepUpEarned'
    <2>1. ASSUME NEW g \in Handler, handler'[g].pc = "vault", handler'[g].operation = "sensitive"
          PROVE  session'[handler'[g].session].auth = "step_up"
      <3>1. handler'[g] = handler[g] /\ handler[g].session \in DOMAIN session
        BY <1>0, <1>7, <2>1, Held
      <3> QED BY <1>0, <1>6, <2>1, <3>1 DEF StepUpEarned
    <2> QED BY <1>0, <1>5, <1>6, <1>8, <2>1 DEF StepUpEarned
  <1>10. ProofInv'
    BY <1>0, <1>5, <1>6, <1>7, <1>8 DEF ProofInv
  <1>11. Idle \in HandlerType'
    BY DEF HandlerType
  <1> QED BY <1>0, <1>5, <1>9, <1>10, <1>11, TableInv DEF RevokeSession, TypeOK

\* The challenges that were answered stay as they are; a request that begins to
\* hold a proof has answered one that was open.
LEMMA ChallengeKept ==
  ASSUME IndInv, NEW h \in Handler, NEW x, handler' = [handler EXCEPT ![h] = x],
         UNCHANGED session, DOMAIN challenge \subseteq DOMAIN challenge',
         \A c \in DOMAIN challenge : challenge[c].consumed # None => challenge'[c] = challenge[c],
         x.pc # "vault",
         x.pc = "proof" => /\ x.by \in DOMAIN challenge /\ challenge[x.by].consumed = None
                           /\ Answered(x.by, x.user, x.expires)'
  PROVE  StepUpEarned' /\ ProofInv'
  <1>0. TypeOK /\ StepUpEarned /\ ProofInv
    BY DEF IndInv
  <1>1. handler'[h] = x /\ \A g \in Handler : g # h => handler'[g] = handler[g]
    BY <1>0 DEF TypeOK
  <1>2. ASSUME NEW c, NEW u, NEW e, Answered(c, u, e) PROVE Answered(c, u, e)'
    BY <1>2 DEF Answered
  <1>3. StepUpEarned'
    <2>1. ASSUME NEW s \in DOMAIN session, session[s].auth = "step_up"
          PROVE  Answered(session[s].by, session[s].user, session[s].expires)'
      <3>1. PICK c, u, e : c = session[s].by /\ u = session[s].user /\ e = session[s].expires
        OBVIOUS
      <3>2. Answered(c, u, e)'
        BY <1>0, <1>2, <2>1, <3>1 DEF StepUpEarned
      <3>3. c = session'[s].by /\ u = session'[s].user /\ e = session'[s].expires
        BY <3>1
      <3> QED BY <3>2, <3>3
    <2> QED BY <1>0, <1>1, <2>1 DEF StepUpEarned
  <1>4. ASSUME x.pc = "proof"
        PROVE  /\ \A s \in DOMAIN session : session[s].by # x.by
               /\ \A g \in Handler : At(g, "proof") => handler[g].by # x.by
    <2>1. \A s \in DOMAIN session : session[s].auth \in {"password", "step_up"}
      BY <1>0, Tables DEF SessionRow
    <2>2. 0 \notin DOMAIN challenge
      BY <1>0, Tables
    <2> QED BY <1>0, <1>4, <2>1, <2>2 DEF StepUpEarned, ProofInv, Answered
  <1>5. ASSUME NEW g \in Handler, handler'[g].pc = "proof"
        PROVE  /\ Answered(handler[g].by, handler[g].user, handler[g].expires)'
               /\ \A s \in DOMAIN session' : session'[s].by # handler'[g].by
               /\ \A f \in Handler : handler'[f].pc = "proof"
                                       /\ handler'[f].by = handler'[g].by => f = g
    <2>1. CASE g = h
      <3>1. x = handler'[g]
        BY <1>1, <2>1
      <3>2. Answered(handler[g].by, handler[g].user, handler[g].expires)'
        <4>1. PICK c, u, e : c = x.by /\ u = x.user /\ e = x.expires
          OBVIOUS
        <4>2. Answered(c, u, e)'
          BY <1>5, <3>1, <4>1
        <4>3. c = handler'[g].by /\ u = handler'[g].user /\ e = handler'[g].expires
          BY <3>1, <4>1
        <4> QED BY <4>2, <4>3
      <3> QED BY <1>1, <1>4, <1>5, <2>1, <3>1, <3>2
    <2>2. CASE g # h
      <3>1. handler'[g] = handler[g] /\ At(g, "proof")
        BY <1>1, <1>5, <2>2
      <3>2. PICK c, u, e : c = handler[g].by /\ u = handler[g].user /\ e = handler[g].expires
        OBVIOUS
      <3>3. Answered(c, u, e)'
        BY <1>0, <1>2, <3>1, <3>2 DEF ProofInv
      <3>4. c = handler'[g].by /\ u = handler'[g].user /\ e = handler'[g].expires
        BY <3>1, <3>2
      <3>5. Answered(handler[g].by, handler[g].user, handler[g].expires)'
        BY <3>3, <3>4
      <3>6. \A f \in Handler : handler'[f].pc = "proof" /\ handler'[f].by = handler'[g].by => f = g
        BY <1>0, <1>1, <1>4, <3>1 DEF ProofInv
      <3> QED BY <1>0, <3>1, <3>5, <3>6 DEF ProofInv
    <2> QED BY <2>1, <2>2
  <1>6. ProofInv'
    BY <1>0, <1>5 DEF ProofInv
  <1> QED BY <1>3, <1>6

LEMMA StoreChallengeInv ==
  ASSUME IndInv, NEW h \in Handler, BeginRegistration(h) \/ BeginAuthentication(h)
  PROVE  IndInv'
  <1>0. TypeOK
    BY DEF IndInv
  <1>1. PICK purpose \in Purpose :
          StoreChallenge(h, purpose) /\ (purpose = "authentication" => Principal(h).user \in passkey)
    BY DEF BeginRegistration, BeginAuthentication, Purpose
  <1>2. handler[h].session \in DOMAIN session
    BY <1>0, Held DEF BeginRegistration, BeginAuthentication
  <1>3. Principal(h).user \in User
    BY <1>0, <1>2, Tables DEF Principal, SessionRow
  <1>4. PICK row : row = [user |-> Principal(h).user, purpose |-> purpose,
                          expires |-> now + ChallengeLife, consumed |-> None]
    OBVIOUS
  <1>5. /\ row \in ChallengeRow /\ row.purpose = purpose /\ row.user = Principal(h).user
    <2>1. now + ChallengeLife \in Nat
      BY <1>0, Constants DEF TypeOK, Time
    <2> QED BY <1>3, <1>4, <2>1 DEF ChallengeRow
  <1>6. challenge' = Append(challenge, row) /\ UNCHANGED <<now, credentialVars, session, passkey>>
        /\ handler' = [handler EXCEPT ![h] = Idle]
    BY <1>1, <1>4 DEF StoreChallenge
  <1>7. PICK n \in Nat : n = Len(challenge)
    BY <1>0, Tables
  <1>8. DOMAIN challenge = 1 .. n
    BY <1>0, <1>7, Tables
  <1>9. /\ challenge' \in Seq(ChallengeRow) /\ Len(challenge') = n + 1
        /\ \A c \in 1 .. n : challenge'[c] = challenge[c]
    BY <1>0, <1>5, <1>6, <1>7, AppendProperties DEF TypeOK
  <1>10. challenge'[n + 1] = row
    BY <1>0, <1>5, <1>6, <1>7, AppendProperties DEF TypeOK
  <1>11. DOMAIN challenge' = 1 .. n + 1 /\ \A c \in 1 .. n + 1 : c \in 1 .. n \/ c = n + 1
    BY <1>7, <1>9, LenProperties
  <1>12. \A c \in DOMAIN challenge' :
           challenge'[c].purpose = "authentication" => challenge'[c].user \in passkey'
    BY <1>0, <1>1, <1>5, <1>6, <1>8, <1>9, <1>10, <1>11 DEF TypeOK
  <1>13. DOMAIN challenge \subseteq DOMAIN challenge' /\ Idle \in HandlerType'
    BY <1>8, <1>11 DEF HandlerType
  <1>14. StepUpEarned' /\ ProofInv'
    <2>1. PICK x : x = [pc |-> "idle"]
      OBVIOUS
    <2>2. x.pc # "vault" /\ x.pc # "proof" /\ handler' = [handler EXCEPT ![h] = x]
      BY <1>6, <2>1
    <2>3. \A c \in DOMAIN challenge : challenge'[c] = challenge[c]
      BY <1>8, <1>9
    <2> QED BY <1>6, <1>13, <2>2, <2>3, ChallengeKept
  <1> QED BY <1>0, <1>6, <1>9, <1>12, <1>13, <1>14, TableInv DEF TypeOK

LEMMA FinishInv ==
  ASSUME IndInv, NEW h \in Handler, NEW c \in DOMAIN challenge,
         FinishRegistration(h, c) \/ FinishAuthentication(h, c)
  PROVE  IndInv'
  <1>0. TypeOK /\ now \in Time /\ now \in Nat
    BY Constants DEF IndInv, TypeOK, Time
  <1>1. handler[h].session \in DOMAIN session
    BY <1>0, Held DEF FinishRegistration, FinishAuthentication
  <1>2. PICK u \in User : u = Principal(h).user
    BY <1>0, <1>1, Tables DEF Principal, SessionRow
  <1>3. PICK row \in ChallengeRow : row = challenge[c]
    BY <1>0, Tables
  <1>4. row.user = u /\ row.consumed = None /\ row.expires > now
    BY <1>2, <1>3 DEF FinishRegistration, FinishAuthentication, PendingChallenge
  <1>5. PICK done : done = [row EXCEPT !.consumed = now]
    OBVIOUS
  <1>6. /\ done \in ChallengeRow /\ done.user = u /\ done.purpose = row.purpose
        /\ done.expires = row.expires /\ done.consumed = now
    BY <1>0, <1>3, <1>4, <1>5 DEF ChallengeRow
  <1>7. challenge' = [challenge EXCEPT ![c] = done] /\ UNCHANGED <<now, credentialVars, session>>
    BY <1>3, <1>5 DEF FinishRegistration, FinishAuthentication, Consume
  <1>8. challenge' \in Seq(ChallengeRow) /\ DOMAIN challenge' = DOMAIN challenge
        /\ challenge'[c] = done /\ \A d \in DOMAIN challenge : d # c => challenge'[d] = challenge[d]
    <2>1. challenge' \in Seq(ChallengeRow) /\ Len(challenge') = Len(challenge)
      BY <1>0, <1>6, <1>7, Tables, ExceptSeq DEF TypeOK
    <2> QED BY <1>0, <1>7, <2>1, Tables, LenProperties
  <1>9. \A d \in DOMAIN challenge : challenge[d].consumed # None => challenge'[d] = challenge[d]
    BY <1>3, <1>4, <1>8
  <1>10. passkey \subseteq passkey' /\ passkey' \subseteq User
    BY <1>0, <1>2 DEF FinishRegistration, FinishAuthentication, TypeOK
  <1>11. \A d \in DOMAIN challenge' :
           challenge'[d].purpose = "authentication" => challenge'[d].user \in passkey'
    <2>1. row.purpose = "authentication" => u \in passkey
      BY <1>0, <1>3, <1>4 DEF TypeOK
    <2> QED BY <1>0, <1>6, <1>8, <1>10, <2>1 DEF TypeOK
  <1>12. CASE FinishRegistration(h, c)
    <2>1. handler' = [handler EXCEPT ![h] = Idle] /\ Idle \in HandlerType'
      BY <1>12 DEF FinishRegistration, HandlerType
    <2>2. StepUpEarned' /\ ProofInv'
      <3>1. PICK x : x = [pc |-> "idle"]
        OBVIOUS
      <3>2. x.pc # "vault" /\ x.pc # "proof" /\ handler' = [handler EXCEPT ![h] = x]
        BY <2>1, <3>1
      <3> QED BY <1>7, <1>8, <1>9, <3>2, ChallengeKept
    <2> QED BY <1>0, <1>7, <1>8, <1>10, <1>11, <2>1, <2>2, TableInv DEF TypeOK
  <1>13. CASE FinishAuthentication(h, c)
    <2>0. now + StepUpLife \in Nat
      BY <1>0, Constants
    <2>1. PICK x : x = [pc |-> "proof", user |-> u, by |-> c, expires |-> now + StepUpLife]
      OBVIOUS
    <2>2. /\ x.pc = "proof" /\ x.user = u /\ x.by = c /\ x.expires = now + StepUpLife
          /\ x \in HandlerType'
      BY <1>8, <2>0, <2>1 DEF HandlerType
    <2>3. handler' = [handler EXCEPT ![h] = x]
      BY <1>2, <1>13, <2>1 DEF FinishAuthentication
    <2>4. row.purpose = "authentication"
      BY <1>3, <1>13 DEF FinishAuthentication, PendingChallenge
    <2>5. Answered(x.by, x.user, x.expires)'
      <3>1. now # None /\ now < row.expires /\ now + StepUpLife <= now + StepUpLife
        BY <1>0, <1>3, <1>4, <2>0, Constants DEF ChallengeRow
      <3> QED BY <1>6, <1>8, <2>2, <2>4, <3>1 DEF Answered
    <2>6. StepUpEarned' /\ ProofInv'
      BY <1>3, <1>4, <1>7, <1>8, <1>9, <2>2, <2>3, <2>5, ChallengeKept
    <2> QED BY <1>0, <1>7, <1>8, <1>10, <1>11, <2>2, <2>3, <2>6, TableInv DEF TypeOK
  <1> QED BY <1>12, <1>13

-----------------------------------------------------------------------------
(* The specification.                                                      *)

\* All requests end, or the clock goes on.
LEMMA RestInv ==
  ASSUME IndInv, now' \in Time, now' >= now, UNCHANGED <<credentialVars, session, passkeyVars>>,
         UNCHANGED handler \/ handler' = [h \in Handler |-> Idle]
  PROVE  IndInv'
  <1>0. TypeOK
    BY DEF IndInv
  <1>1. handler' \in [Handler -> HandlerType]
    BY <1>0 DEF TypeOK, HandlerType
  <1>2. \A h \in Handler : handler'[h] = handler[h] \/ handler'[h].pc = "idle"
    OBVIOUS
  <1>3. \A h \in Handler : handler'[h] = handler[h] \/ LoginHeld(h)'
    BY <1>2, NoLogin
  <1>4. LockedWasEarned' /\ LoginInv'
    BY <1>3, LoginKept
  <1>5. \A h \in Handler : handler'[h] = handler[h] \/ handler'[h].pc \notin {"proof", "vault"}
    BY <1>2
  <1> QED BY <1>0, <1>1, <1>4, <1>5, LoginTableInv DEF TypeOK

LEMMA NextInv == IndInv /\ [Next]_vars => IndInv'
  <1> SUFFICES ASSUME IndInv, [Next]_vars PROVE IndInv'
    OBVIOUS
  <1>0. now \in Time /\ now \in Nat /\ MaxTime \in Nat
    BY Constants DEF IndInv, TypeOK, Time
  <1>1. ASSUME NEW h \in Handler, LoginStep(h) PROVE IndInv'
    <2>1. ASSUME NEW u \in User, NEW guess \in Password \cup {None}, BeginLogin(h, u, guess)
          PROVE  IndInv'
      BY <2>1, BeginLoginInv
    <2>2. CASE ReadCredential(h)
      BY <2>2, ReadCredentialInv
    <2>3. CASE ReadState(h)
      BY <2>3, ReadStateInv
    <2>4. CASE RecordFailure(h)
      BY <2>4, RecordFailureInv
    <2>5. CASE ClearState(h)
      BY <2>5, ClearInv
    <2>6. CASE CreateSession(h)
      BY <2>6, CreateSessionInv
    <2> QED BY <1>1, <2>1, <2>2, <2>3, <2>4, <2>5, <2>6 DEF LoginStep
  <1>2. ASSUME NEW h \in Handler, RequestStep(h) PROVE IndInv'
    <2>1. CASE \/ \E s \in DOMAIN session : Authenticate(h, s)
               \/ \E operation \in {"plain", "sensitive"} : IssueGrant(h, operation)
               \/ VaultAnswers(h)
               \/ Refuse(h)
      BY <2>1, RequestInv
    <2>2. CASE RevokeSession(h)
      BY <2>2, RevokeSessionInv
    <2>3. CASE BeginRegistration(h) \/ BeginAuthentication(h)
      BY <2>3, StoreChallengeInv
    <2>4. ASSUME NEW c \in DOMAIN challenge, FinishRegistration(h, c) \/ FinishAuthentication(h, c)
          PROVE  IndInv'
      BY <2>4, FinishInv
    <2>5. CASE CreateStepUp(h)
      BY <2>5, CreateSessionInv
    <2> QED BY <1>2, <2>1, <2>2, <2>3, <2>4, <2>5 DEF RequestStep
  <1>3. ASSUME NEW u \in User, NEW p \in Password, SetPassword(u, p) PROVE IndInv'
    BY <1>3, ClearInv
  <1>4. CASE Crash
    BY <1>0, <1>4, RestInv DEF Crash
  <1>5. CASE Tick
    <2>1. now' \in Time /\ now' >= now
      BY <1>0, <1>5 DEF Tick, Time
    <2> QED BY <1>5, <2>1, RestInv DEF Tick
  <1>6. CASE UNCHANGED vars
    BY <1>0, <1>6, RestInv DEF vars
  <1> QED BY <1>1, <1>2, <1>3, <1>4, <1>5, <1>6 DEF Next

\* The inductive invariant holds in every state that the threads of the
\* administration API can reach.
THEOREM Invariance == Spec => []IndInv
  BY InitInv, NextInv, PTL DEF Spec

\* The tables of the administration keep their types, and a challenge to
\* authenticate is only stored for a user who has a passkey
\* (PasskeyManager.begin_authentication).
THEOREM TypeCorrect == Spec => []TypeOK
  <1>1. IndInv => TypeOK
    BY DEF IndInv
  <1> QED BY <1>1, Invariance, PTL

\* However many logins overlap, each with a state that it read before another
\* one's failure was recorded, a user is locked out only after MaxAttempts wrong
\* passwords within the window (AdminCredentialStore.verify, _record_failure).
THEOREM LockoutIsEarned == Spec => []LockedWasEarned
  <1>1. IndInv => LockedWasEarned
    BY DEF IndInv
  <1> QED BY <1>1, Invariance, PTL

\* Every step-up session stands for one answer of its user's passkey, and only
\* such a session calls the vault beyond list and use, however requests overlap
\* (_finish_passkey_authentication, _require_step_up).
THEOREM StepUpIsEarned == Spec => []StepUpEarned
  <1>1. IndInv => StepUpEarned
    BY DEF IndInv
  <1> QED BY <1>1, Invariance, PTL
=============================================================================
