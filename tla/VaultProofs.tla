---------------------------- MODULE VaultProofs ----------------------------
(* Proofs about Vault: the inductive invariant IndInv and what follows.     *)
EXTENDS Vault, WellFoundedInduction, TLAPS

USE DEF keyVars, recordVars, daemonVars, countVars

-----------------------------------------------------------------------------
(* The newest of some keys.                                                *)

LEMMA Constants ==
  /\ MaxKeys \in Nat /\ MaxKeys > 0 /\ MaxSalts \in Nat /\ MaxSalts > 0
  /\ MaxVersion \in Nat /\ MaxVersion > 0
  /\ MaxRequests \in Nat /\ MaxRuns \in Nat /\ MaxCrashes \in Nat
  BY VaultAssumption

\* A set of natural numbers with a bound has a greatest element: the distances
\* from the bound have a least one.
LEMMA Greatest ==
  ASSUME NEW n \in Nat, NEW S \in SUBSET (1 .. n), S # {}
  PROVE  \E v \in S : \A w \in S : w <= v
  <1> DEFINE T == {k \in Nat : \E v \in S : k = n - v}
  <1>1. \A v \in S : v \in Int /\ n - v \in T
    OBVIOUS
  <1>2. T # {} /\ T \subseteq Nat
    BY <1>1
  <1>3. PICK k \in T : \A j \in T : ~ (<<j, k>> \in OpToRel(<, Nat))
    BY <1>2, WFMin, NatLessThanWellFounded
  <1>4. \A j \in T : k <= j
    <2> SUFFICES ASSUME NEW j \in T PROVE k <= j
      OBVIOUS
    <2>1. j \in Nat /\ k \in Nat
      BY <1>2
    <2>2. j < k => <<j, k>> \in {ss \in Nat \X Nat : ss[1] < ss[2]}
      BY <2>1
    <2>3. OpToRel(<, Nat) = {ss \in Nat \X Nat : ss[1] < ss[2]}
      BY Zenon DEF OpToRel
    <2>4. ~ (j < k)
      BY <1>3, <2>2, <2>3
    <2> HIDE DEF T
    <2> QED BY <2>1, <2>4
  <1>5. PICK v \in S : k = n - v
    OBVIOUS
  <1>6. \A w \in S : n - v <= n - w
    BY <1>1, <1>4, <1>5
  <1> QED BY <1>1, <1>6

LEMMA VersionsType == Versions \subseteq 1 .. MaxKeys
  BY DEF Versions

LEMMA NewestIsVersion ==
  ASSUME TypeOK
  PROVE  Newest \in Versions /\ Newest \in 1 .. MaxKeys /\ \A w \in Versions : w <= Newest
  <1>1. Versions \in SUBSET (1 .. MaxKeys) /\ Versions # {}
    BY VersionsType DEF TypeOK
  <1>2. \E v \in Versions : \A w \in Versions : w <= v
    BY <1>1, Constants, Greatest
  <1> QED BY <1>1, <1>2 DEF Newest

LEMMA InitInv == Init => IndInv
  <1> SUFFICES ASSUME Init PROVE IndInv
    OBVIOUS
  <1>0. pass \in Pass /\ <<pass, 1>> \in Pass \X Nat /\ <<pass, 1>> # Absent
    BY VaultAssumption DEF Init
  <1>1. 1 \in 1 .. MaxKeys /\ 1 \in 1 .. MaxSalts /\ 0 \in 0 .. MaxSalts
    BY Constants
  <1>2. Versions = {1}
    BY <1>0, <1>1 DEF Init, Versions
  <1>3. wrapped \in [1 .. MaxKeys -> (Pass \X (1 .. MaxSalts)) \cup {Absent}]
    BY <1>0, <1>1 DEF Init
  <1>4. TypeOK
    BY <1>0, <1>1, <1>2, <1>3 DEF Init, TypeOK
  <1>5. PassphraseOpens
    BY <1>1, <1>2 DEF Init, PassphraseOpens, Opens
  <1>6. Decryptable /\ GrantOnce /\ StepInv /\ FreshInv
    BY DEF Init, Decryptable, GrantOnce, StepInv, FreshInv
  <1>7. CommandInv
    BY <1>1 DEF Init, CommandInv, NoCommand
  <1> QED BY <1>4, <1>5, <1>6, <1>7 DEF IndInv

-----------------------------------------------------------------------------
(* Steps of the daemon that leave the master keys and the records alone.   *)

LEMMA DaemonOnly ==
  ASSUME IndInv, UNCHANGED <<keyVars, recordVars, cli>>,
         keys' \subseteq Versions, used' \subseteq Nonce, performed' \in [Nonce -> Nat],
         pc' \in {"idle", "verify", "authorize", "seal", "write", "decrypt", "record"},
         pc' # "idle" => request' \in Nonce,
         pc' \in {"decrypt", "record"} => record[SecretOf[request']] # Absent,
         GrantOnce', StepInv', FreshInv'
  PROVE  IndInv'
  <1>1. Versions' = Versions
    BY DEF Versions
  <1>2. TypeOK'
    BY <1>1 DEF IndInv, TypeOK
  <1>3. PassphraseOpens' /\ Decryptable'
    BY <1>1 DEF IndInv, PassphraseOpens, Opens, Decryptable
  <1>4. CommandInv'
    BY <1>1 DEF IndInv, CommandInv
  <1> QED BY <1>2, <1>3, <1>4 DEF IndInv

\* The request ends without an effect.
LEMMA ReplyInv ==
  ASSUME IndInv, UNCHANGED <<keyVars, recordVars, cli, used, performed>>,
         keys' \subseteq Versions, Reply
  PROVE  IndInv'
  <1>1. GrantOnce' /\ StepInv' /\ FreshInv'
    BY DEF IndInv, GrantOnce, StepInv, FreshInv, Reply
  <1> QED BY <1>1, DaemonOnly DEF IndInv, TypeOK, Reply

\* The request goes on to its next step without an effect.
LEMMA ProceedInv ==
  ASSUME IndInv, UNCHANGED <<keyVars, recordVars, cli, used, performed, keys, request>>,
         \/ /\ pc = "authorize" /\ pc' \in {"seal", "decrypt", "write", "record"}
            /\ pc' \in {"decrypt", "record"} => record[SecretOf[request]] # Absent
            /\ pc' = "write" => /\ record[SecretOf[request]] # Absent
                                /\ ActionOf[request] \in {"delete", "grant"}
            /\ pc' = "record" => ActionOf[request] = "list"
            /\ pc' = "seal" => ActionOf[request] \in {"create", "update"}
         \/ pc = "seal" /\ pc' = "write" /\ version' \in Versions
              /\ ActionOf[request] \in {"create", "update"}
         \/ pc = "decrypt" /\ pc' = "record" /\ ActionOf[request] # "use"
  PROVE  IndInv'
  <1>1. Versions' = Versions
    BY DEF Versions
  <1>2. request \in Nonce
    BY DEF IndInv, TypeOK
  <1>3. StepInv'
    BY <1>1 DEF StepInv
  <1>4. GrantOnce' /\ FreshInv'
    BY DEF IndInv, GrantOnce, FreshInv
  <1> QED BY <1>2, <1>3, <1>4, DaemonOnly DEF IndInv, TypeOK

LEMMA LockInv ==
  ASSUME IndInv, Unlock \/ Lock PROVE IndInv'
  <1>1. UNCHANGED <<keyVars, recordVars, cli, used, performed, pc, request, version>>
        /\ keys' \subseteq Versions
    BY DEF Unlock, Lock
  <1>2. Versions' = Versions
    BY <1>1 DEF Versions
  <1>3. GrantOnce' /\ StepInv' /\ FreshInv'
    BY <1>1, <1>2 DEF IndInv, GrantOnce, StepInv, FreshInv
  <1> QED BY <1>1, <1>3, DaemonOnly DEF IndInv, TypeOK

LEMMA AcceptInv ==
  ASSUME IndInv, NEW n \in Nonce, Accept(n) PROVE IndInv'
  <1>1. UNCHANGED <<keyVars, recordVars, cli, used, performed, keys>>
        /\ pc' = "verify" /\ request' = n
    BY DEF Accept
  <1>2. GrantOnce' /\ StepInv' /\ FreshInv'
    BY <1>1 DEF IndInv, GrantOnce, StepInv, FreshInv
  <1> QED BY <1>1, <1>2, DaemonOnly DEF IndInv, TypeOK

LEMMA VerifyInv ==
  ASSUME IndInv, VerifyAndConsume PROVE IndInv'
  <1>0. UNCHANGED <<keyVars, recordVars, cli, performed, keys>> /\ keys \subseteq Versions
    BY DEF VerifyAndConsume, IndInv, TypeOK
  <1>1. CASE request \in used
    BY <1>0, <1>1, ReplyInv DEF VerifyAndConsume
  <1>2. CASE request \notin used
    <2>1. request \in Nonce /\ used' = used \cup {request} /\ pc' = "authorize"
          /\ UNCHANGED <<request, version>>
      BY <1>2 DEF VerifyAndConsume, IndInv, TypeOK
    <2>2. GrantOnce' /\ StepInv'
      BY <1>0, <2>1 DEF IndInv, GrantOnce, StepInv
    <2>3. FreshInv'
      BY <1>0, <1>2, <2>1 DEF IndInv, FreshInv
    <2> QED BY <1>0, <2>1, <2>2, <2>3, DaemonOnly DEF IndInv, TypeOK
  <1> QED BY <1>1, <1>2

LEMMA AuthorizeInv ==
  ASSUME IndInv, Authorize PROVE IndInv'
  <1>0. UNCHANGED <<keyVars, recordVars, cli, used, performed, keys>> /\ keys \subseteq Versions
        /\ pc = "authorize" /\ request \in Nonce
    BY DEF Authorize, IndInv, TypeOK
  <1>1. CASE ~ Allowed(request)
    BY <1>0, <1>1, ReplyInv DEF Authorize
  <1>2. CASE Allowed(request)
    <2>1. /\ UNCHANGED request
          /\ ActionOf[request] \in {"create", "update"} => pc' = "seal"
          /\ ActionOf[request] \in {"use", "reveal", "export"} => pc' = "decrypt"
          /\ ActionOf[request] \in {"delete", "grant"} => pc' = "write"
          /\ ActionOf[request] = "list" => pc' = "record"
      BY <1>2 DEF Authorize
    <2>2. ActionOf[request] \in Action
      BY <1>0, VaultAssumption
    <2>3. ActionOf[request] # "create" => record[SecretOf[request]] # Absent
      BY <1>2 DEF Allowed
    <2> QED BY <1>0, <2>1, <2>2, <2>3, ProceedInv DEF Action
  <1> QED BY <1>1, <1>2

LEMMA ReadActiveInv ==
  ASSUME IndInv, ReadActive PROVE IndInv'
  <1>0. UNCHANGED <<keyVars, recordVars, cli, used, performed, keys>> /\ keys \subseteq Versions
        /\ pc = "seal" /\ ActionOf[request] \in {"create", "update"}
    BY DEF ReadActive, IndInv, TypeOK, StepInv
  <1>1. CASE active \in keys
    <2>1. pc' = "write" /\ version' \in Versions /\ UNCHANGED request
      BY <1>0, <1>1 DEF ReadActive
    <2> QED BY <1>0, <2>1, ProceedInv
  <1>2. CASE active \notin keys
    BY <1>0, <1>2, ReplyInv DEF ReadActive
  <1> QED BY <1>1, <1>2

\* One more effect of the grant in hand, which has had none.
LEMMA CountInv ==
  ASSUME IndInv, Count, request \in Nonce, performed[request] = 0
  PROVE  /\ performed' \in [Nonce -> Nat] /\ GrantOnce'
         /\ \A n \in Nonce : n # request => performed'[n] = performed[n]
  <1>1. performed' = [performed EXCEPT ![request] = 1] /\ performed \in [Nonce -> Nat]
    BY DEF Count, IndInv, TypeOK
  <1> QED BY <1>1 DEF IndInv, GrantOnce

LEMMA DecryptInv ==
  ASSUME IndInv, Decrypt PROVE IndInv'
  <1>0. UNCHANGED <<keyVars, recordVars, cli, used, keys>> /\ keys \subseteq Versions
        /\ pc = "decrypt" /\ request \in Nonce /\ performed[request] = 0
        /\ record[SecretOf[request]] # Absent
    BY DEF Decrypt, IndInv, TypeOK, FreshInv
  <1>1. CASE Reply /\ UNCHANGED performed
    BY <1>0, <1>1, ReplyInv
  <1>2. CASE pc' = "record" /\ UNCHANGED <<request, performed>> /\ ActionOf[request] # "use"
    BY <1>0, <1>2, ProceedInv
  <1>3. ASSUME ActionOf[request] = "use", Count,
               Reply \/ (pc' = "record" /\ UNCHANGED <<request, version>>)
        PROVE  IndInv'
    <2>1. performed' \in [Nonce -> Nat] /\ GrantOnce'
          /\ \A n \in Nonce : n # request => performed'[n] = performed[n]
      BY <1>0, <1>3, CountInv
    <2>2. request \in used
      BY <1>0 DEF IndInv, FreshInv
    <2>3. StepInv' /\ FreshInv'
      BY <1>0, <1>3, <2>1, <2>2 DEF IndInv, StepInv, FreshInv, Reply
    <2>4. pc' \in {"idle", "record"} /\ (pc' = "record" => request' = request)
      BY <1>3 DEF Reply
    <2> QED BY <1>0, <2>1, <2>3, <2>4, DaemonOnly DEF IndInv, TypeOK
  <1> QED BY <1>1, <1>2, <1>3 DEF Decrypt

LEMMA RecordAccessInv ==
  ASSUME IndInv, RecordAccess PROVE IndInv'
  <1>0. UNCHANGED <<keyVars, recordVars, cli, used, keys>> /\ keys \subseteq Versions
        /\ pc = "record" /\ request \in Nonce /\ Reply
    BY DEF RecordAccess, Success, IndInv, TypeOK
  <1>1. CASE UNCHANGED performed
    BY <1>0, <1>1, ReplyInv
  <1>2. CASE ActionOf[request] # "use" /\ Count
    <2>1. performed[request] = 0 /\ request \in used
      BY <1>0, <1>2 DEF IndInv, FreshInv
    <2>2. performed' \in [Nonce -> Nat] /\ GrantOnce'
          /\ \A n \in Nonce : n # request => performed'[n] = performed[n]
      BY <1>0, <1>2, <2>1, CountInv
    <2>3. StepInv' /\ FreshInv'
      BY <1>0, <2>1, <2>2 DEF IndInv, StepInv, FreshInv, Reply
    <2> QED BY <1>0, <2>2, <2>3, DaemonOnly DEF IndInv, TypeOK, Reply
  <1> QED BY <1>1, <1>2 DEF RecordAccess

LEMMA EndInv ==
  ASSUME IndInv, WriteFails \/ DaemonCrash PROVE IndInv'
  <1>1. UNCHANGED <<keyVars, recordVars, cli, used, performed>> /\ Reply /\ keys' \subseteq Versions
    BY DEF WriteFails, DaemonCrash, IndInv, TypeOK
  <1> QED BY <1>1, ReplyInv

-----------------------------------------------------------------------------
(* The transaction that changes a record, or who may use it.               *)

LEMMA WriteRecordInv ==
  ASSUME IndInv, WriteRecord PROVE IndInv'
  <1> DEFINE s == SecretOf[request]
  <1>0. /\ UNCHANGED <<keyVars, used, keys, cli>> /\ Reply /\ Count
        /\ pc = "write" /\ request \in Nonce /\ request \in used /\ performed[request] = 0
    BY DEF WriteRecord, Success, IndInv, TypeOK, FreshInv
  <1>1. s \in Secret /\ Owner \in Subject /\ Versions' = Versions
    BY <1>0, VaultAssumption DEF Versions
  <1>2. performed' \in [Nonce -> Nat] /\ GrantOnce'
        /\ \A n \in Nonce : n # request => performed'[n] = performed[n]
    BY <1>0, CountInv
  <1>3. StepInv' /\ FreshInv'
    BY <1>0, <1>2 DEF IndInv, StepInv, FreshInv, Reply
  <1>4. PassphraseOpens'
    BY <1>0, <1>1 DEF IndInv, PassphraseOpens, Opens
  <1>5. ASSUME deks' \in Nat, record' \in [Secret -> RowType \cup {Absent}],
               acl' \subseteq Secret \X Subject \X Action,
               \A e \in acl' : record'[e[1]] # Absent, Decryptable'
        PROVE  IndInv'
    <2>1. TypeOK'
      BY <1>0, <1>1, <1>2, <1>5 DEF IndInv, TypeOK, Reply
    <2>2. CommandInv'
      BY <1>0, <1>1, <1>5 DEF IndInv, CommandInv
    <2> QED BY <1>2, <1>3, <1>4, <1>5, <2>1, <2>2 DEF IndInv
  <1>6. /\ deks \in Nat /\ deks + 1 \in Nat
        /\ record \in [Secret -> RowType \cup {Absent}]
        /\ acl \subseteq Secret \X Subject \X Action
        /\ \A e \in acl : record[e[1]] # Absent
    BY DEF IndInv, TypeOK, CommandInv
  <1>7. CASE WriteCreate
    <2>1. PICK row : row = [version |-> 1, sealed |-> deks + 1, dek |-> deks + 1,
                            under |-> version, key |-> version]
      OBVIOUS
    <2>2. version \in Versions /\ version \in 1 .. MaxKeys /\ 1 \in 1 .. MaxVersion
      <3>1. version \in Versions
        BY <1>0, <1>7 DEF WriteCreate, IndInv, StepInv
      <3> QED BY <3>1, VersionsType, Constants
    <2>3. row \in RowType /\ row.dek = row.sealed /\ row.under = row.key /\ row.key \in Versions
      BY <1>6, <2>1, <2>2 DEF RowType
    <2>4. row # Absent
      BY <2>3, AbsentIsNoRow
    <2>5. record' = [record EXCEPT ![s] = row] /\ deks' = deks + 1
          /\ acl' = acl \cup {<<s, Owner, a>> : a \in OwnerActions(s)}
      BY <1>7, <2>1 DEF WriteCreate
    <2>6. record' \in [Secret -> RowType \cup {Absent}] /\ record'[s] = row
          /\ \A t \in Secret : t # s => record'[t] = record[t]
      BY <1>1, <1>6, <2>3, <2>5
    <2>7. OwnerActions(s) \subseteq Action
      BY DEF OwnerActions, Action
    <2>8. acl' \subseteq Secret \X Subject \X Action /\ \A e \in acl' : e \in acl \/ e[1] = s
      BY <1>1, <1>6, <2>5, <2>7
    <2>9. \A e \in acl' : record'[e[1]] # Absent
      BY <1>6, <2>4, <2>6, <2>8
    <2>10. Decryptable'
      BY <1>1, <2>3, <2>6 DEF IndInv, Decryptable
    <2> QED BY <1>5, <1>6, <2>5, <2>6, <2>8, <2>9, <2>10
  <1>8. CASE WriteUpdate
    <2>1. PICK row : row = NewRow(record[s], version)
      OBVIOUS
    <2>2. version \in Versions /\ version \in 1 .. MaxKeys /\ record[s] \in RowType
          /\ record[s].version < MaxVersion
      BY <1>0, <1>1, <1>6, <1>8, VersionsType DEF WriteUpdate, IndInv, StepInv
    <2>3. record[s].version + 1 \in 1 .. MaxVersion
      BY <2>2, Constants DEF RowType
    <2>4. row \in RowType /\ row.dek = row.sealed /\ row.under = row.key /\ row.key \in Versions
      BY <1>6, <2>1, <2>2, <2>3 DEF RowType, NewRow
    <2>5. row # Absent
      BY <2>4, AbsentIsNoRow
    <2>6. record' = [record EXCEPT ![s] = row] /\ deks' = deks + 1 /\ UNCHANGED acl
      BY <1>8, <2>1 DEF WriteUpdate
    <2>7. record' \in [Secret -> RowType \cup {Absent}] /\ record'[s] = row
          /\ \A t \in Secret : t # s => record'[t] = record[t]
      BY <1>1, <1>6, <2>4, <2>6
    <2>8. \A e \in acl' : record'[e[1]] # Absent
      BY <1>6, <2>5, <2>6, <2>7
    <2>9. Decryptable'
      BY <1>1, <2>4, <2>7 DEF IndInv, Decryptable
    <2> QED BY <1>5, <1>6, <2>6, <2>7, <2>8, <2>9
  <1>9. CASE WriteDelete
    <2>1. record' = [record EXCEPT ![s] = Absent] /\ deks' = deks
          /\ acl' = {e \in acl : e[1] # s}
      BY <1>9 DEF WriteDelete
    <2>2. record' \in [Secret -> RowType \cup {Absent}] /\ record'[s] = Absent
          /\ \A t \in Secret : t # s => record'[t] = record[t]
      BY <1>1, <1>6, <2>1
    <2>3. \A e \in acl' : record'[e[1]] # Absent
      BY <1>6, <2>1, <2>2
    <2>4. Decryptable'
      BY <1>1, <2>2 DEF IndInv, Decryptable
    <2> QED BY <1>5, <1>6, <2>1, <2>2, <2>3, <2>4
  <1>10. CASE WriteGrant
    <2>1. UNCHANGED <<record, deks>> /\ record[s] # Absent
      BY <1>0, <1>10 DEF WriteGrant, IndInv, StepInv
    <2>2. PICK u \in Subject, a \in Action : acl' = acl \cup {<<s, u, a>>}
      BY <1>10 DEF WriteGrant
    <2>3. acl' \subseteq Secret \X Subject \X Action
      BY <1>1, <1>6, <2>2 DEF Action
    <2>4. \A e \in acl' : record'[e[1]] # Absent
      BY <1>6, <2>1, <2>2
    <2>5. Decryptable'
      BY <1>1, <2>1 DEF IndInv, Decryptable
    <2> QED BY <1>5, <1>6, <2>1, <2>3, <2>4, <2>5
  <1> QED BY <1>7, <1>8, <1>9, <1>10 DEF WriteRecord

-----------------------------------------------------------------------------
(* The commands of an operator.                                            *)

CommandType ==
  [pc : {"idle", "load", "rotate", "rewrap", "change", "audit"},
   kind : {"rotate", "change", Absent}, old : Pass \cup {Absent},
   new : Pass \cup {Absent}, salt : 0 .. MaxSalts, keys : SUBSET Versions]

\* What a command holds that is not idle.
Ready(x) == x.pc # "idle" =>
              /\ x.kind \in {"rotate", "change"} /\ x.keys # {}
              /\ x.old \in Pass /\ x.new \in Pass

LEMMA CommandSteps ==
  ASSUME IndInv, NEW o \in Operator, NEW x, cli' = [cli EXCEPT ![o] = x],
         x \in CommandType', Versions \subseteq Versions', Ready(x), deks' \in Nat
  PROVE  CommandInv'
  <1>0. cli \in [Operator -> CommandType] /\ \A q \in Operator : Ready(cli[q])
    BY DEF IndInv, CommandInv, CommandType, Ready
  <1>1. \A y \in CommandType : y \in CommandType'
    BY DEF CommandType
  <1>2. cli' \in [Operator -> CommandType]'
    BY <1>0, <1>1
  <1>3. \A q \in Operator : Ready(cli'[q])
    BY <1>0
  <1> QED BY <1>2, <1>3 DEF CommandInv, CommandType, Ready

LEMMA NoCommandType == NoCommand \in CommandType' /\ Ready(NoCommand)
  BY Constants DEF NoCommand, CommandType, Ready

\* Nothing but the command changes.
LEMMA CommandOnly ==
  ASSUME IndInv, NEW o \in Operator, NEW x, cli' = [cli EXCEPT ![o] = x],
         x \in CommandType', Ready(x),
         UNCHANGED <<keyVars, recordVars, daemonVars, used, performed>>
  PROVE  IndInv'
  <1>1. Versions' = Versions
    BY DEF Versions
  <1>2. CommandInv'
    BY <1>1, CommandSteps DEF IndInv, CommandInv
  <1>3. TypeOK' /\ StepInv'
    BY <1>1 DEF IndInv, TypeOK, StepInv
  <1>4. PassphraseOpens' /\ Decryptable' /\ GrantOnce' /\ FreshInv'
    BY <1>1 DEF IndInv, PassphraseOpens, Opens, Decryptable, GrantOnce, FreshInv
  <1> QED BY <1>2, <1>3, <1>4 DEF IndInv

LEMMA EndCommandInv ==
  ASSUME IndInv, NEW o \in Operator, End(o),
         UNCHANGED <<keyVars, recordVars, daemonVars, used, performed>>
  PROVE  IndInv'
  BY NoCommandType, CommandOnly DEF End

LEMMA StartInv ==
  ASSUME IndInv, NEW o \in Operator, NEW kind \in {"rotate", "change"}, Start(o, kind)
  PROVE  IndInv'
  <1>1. PICK old \in Pass, new \in Pass :
          cli' = [cli EXCEPT ![o] = [pc |-> "load", kind |-> kind, old |-> old,
                                     new |-> new, salt |-> 0, keys |-> Versions]]
    BY DEF Start
  <1>2. UNCHANGED <<keyVars, recordVars, daemonVars, used, performed>>
    BY DEF Start
  <1>3. PICK x : x = [pc |-> "load", kind |-> kind, old |-> old, new |-> new,
                      salt |-> 0, keys |-> Versions]
    OBVIOUS
  <1>4. Versions' = Versions /\ Versions # {} /\ 0 \in 0 .. MaxSalts
    BY <1>2, Constants DEF Versions, IndInv, TypeOK
  <1>5. x \in CommandType'
    BY <1>3, <1>4 DEF CommandType
  <1> QED BY <1>1, <1>2, <1>3, <1>4, <1>5, CommandOnly DEF Ready

\* A command that is on its way, as it stands.
LEMMA CommandHeld ==
  ASSUME IndInv, NEW o \in Operator, cli[o].pc # "idle"
  PROVE  cli[o] \in CommandType /\ Ready(cli[o])
  BY DEF IndInv, CommandInv, CommandType, Ready

LEMMA LoadDerivationInv ==
  ASSUME IndInv, NEW o \in Operator, LoadDerivation(o) PROVE IndInv'
  <1>1. UNCHANGED <<keyVars, recordVars, daemonVars, used, performed>> /\ cli[o].pc = "load"
    BY DEF LoadDerivation
  <1>2. cli[o] \in CommandType /\ Ready(cli[o])
    BY <1>1, CommandHeld
  <1>3. PICK x : x = [cli[o] EXCEPT !.pc = cli[o].kind, !.salt = salt]
    OBVIOUS
  <1>4. cli' = [cli EXCEPT ![o] = x]
    BY <1>3 DEF LoadDerivation
  <1>5. Versions' = Versions /\ salt \in 0 .. MaxSalts
    BY <1>1, Constants DEF Versions, IndInv, TypeOK
  <1>6. x \in CommandType' /\ Ready(x)
    BY <1>1, <1>2, <1>3, <1>5 DEF CommandType, Ready
  <1> QED BY <1>1, <1>4, <1>6, CommandOnly

\* The check that every key opens with what the command has read means that it has
\* read what is current.
LEMMA VerifiedIsCurrent ==
  ASSUME IndInv, NEW o \in Operator, Verified(o)
  PROVE  <<cli[o].old, cli[o].salt>> = <<pass, salt>>
  <1>1. PICK v \in Versions : v = active
    BY DEF IndInv, TypeOK
  <1>2. wrapped[v] = <<cli[o].old, cli[o].salt>>
    BY DEF Verified, Opens
  <1>3. wrapped[v] = <<pass, salt>>
    BY DEF IndInv, PassphraseOpens, Opens
  <1> QED BY <1>2, <1>3

LEMMA AddKeyVersionInv ==
  ASSUME IndInv, NEW o \in Operator, AddKeyVersion(o) PROVE IndInv'
  <1>0. /\ UNCHANGED <<salt, pass, recordVars, used, daemonVars, performed>>
        /\ cli[o].pc = "rotate" /\ TypeOK
    BY DEF AddKeyVersion, IndInv
  <1>1. CASE ~ Verified(o)
    BY <1>0, <1>1, EndCommandInv DEF AddKeyVersion
  <1>2. CASE Verified(o)
    <2>1. PICK v : v = Newest + 1
      OBVIOUS
    <2>2. v \in 1 .. MaxKeys
      BY <1>0, <2>1, NewestIsVersion, Constants DEF AddKeyVersion
    <2>3. wrapped' = [wrapped EXCEPT ![v] = <<pass, salt>>] /\ active' = v
      BY <1>2, <2>1, VerifiedIsCurrent DEF AddKeyVersion
    <2>4. <<pass, salt>> \in Pass \X (1 .. MaxSalts)
          /\ <<pass, salt>> \in Pass \X Nat
      BY <1>0, Constants DEF TypeOK
    <2>5. <<pass, salt>> # Absent
      BY <2>4, VaultAssumption
    <2>6. /\ wrapped' \in [1 .. MaxKeys -> (Pass \X (1 .. MaxSalts)) \cup {Absent}]
          /\ wrapped'[v] = <<pass, salt>>
          /\ \A w \in 1 .. MaxKeys : w # v => wrapped'[w] = wrapped[w]
      BY <1>0, <2>2, <2>3, <2>4 DEF TypeOK
    <2>7. Versions' = Versions \cup {v}
      BY <2>2, <2>5, <2>6 DEF Versions
    <2>8. PassphraseOpens'
      <3>1. \A w \in Versions : wrapped[w] = <<pass, salt>> /\ w \in 1 .. MaxKeys
        BY VersionsType DEF IndInv, PassphraseOpens, Opens
      <3> QED BY <1>0, <2>6, <2>7, <3>1 DEF PassphraseOpens, Opens
    <2>9. TypeOK'
      BY <1>0, <2>3, <2>6, <2>7 DEF TypeOK
    <2>10. PICK x : x = [cli[o] EXCEPT !.pc = "rewrap", !.keys = @ \cup {v}]
      OBVIOUS
    <2>11. cli' = [cli EXCEPT ![o] = x]
      BY <1>2, <2>1, <2>10 DEF AddKeyVersion
    <2>12. cli[o] \in CommandType /\ Ready(cli[o])
      BY <1>0, CommandHeld
    <2>13. x \in CommandType' /\ Ready(x)
      BY <1>0, <2>7, <2>10, <2>12 DEF CommandType, Ready
    <2>14. CommandInv'
      BY <1>0, <2>7, <2>11, <2>13, CommandSteps DEF IndInv, CommandInv
    <2>15. StepInv' /\ Decryptable' /\ GrantOnce' /\ FreshInv'
      BY <1>0, <2>7 DEF IndInv, StepInv, Decryptable, GrantOnce, FreshInv
    <2> QED BY <2>8, <2>9, <2>14, <2>15 DEF IndInv
  <1> QED BY <1>1, <1>2

LEMMA RewrapInv ==
  ASSUME IndInv, NEW o \in Operator, RewrapDataKeys(o) PROVE IndInv'
  <1> DEFINE all == {s \in Secret : record[s] # Absent}
  <1>0. /\ UNCHANGED <<keyVars, acl, deks, used, daemonVars, performed>> /\ End(o)
        /\ cli[o].pc = "rewrap" /\ TypeOK /\ Decryptable
    BY DEF RewrapDataKeys, IndInv
  <1>1. CASE UNCHANGED record
    BY <1>0, <1>1, EndCommandInv
  <1>2. CASE ~ UNCHANGED record
    <2>1. PICK v : v = CHOOSE w \in cli[o].keys : \A x \in cli[o].keys : x <= w
      OBVIOUS
    <2>2. record' = [s \in Secret |-> IF s \in all THEN [record[s] EXCEPT !.under = v, !.key = v]
                                                   ELSE Absent]
      BY <1>2, <2>1 DEF RewrapDataKeys
    <2>3. v \in Versions /\ v \in 1 .. MaxKeys
      <3>1. cli[o].keys # {} /\ cli[o].keys \subseteq Versions
        BY <1>0, CommandHeld DEF CommandType, Ready
      <3>2. cli[o].keys \in SUBSET (1 .. MaxKeys)
        BY <3>1, VersionsType
      <3>3. \E w \in cli[o].keys : \A x \in cli[o].keys : x <= w
        BY <3>1, <3>2, Constants, Greatest
      <3>4. v \in cli[o].keys
        BY <2>1, <3>3
      <3> QED BY <3>1, <3>4, VersionsType
    <2>4. Versions' = Versions
      BY <1>0 DEF Versions
    <2>5. ASSUME NEW s \in Secret
          PROVE  /\ record[s] = Absent => record'[s] = Absent
                 /\ record[s] # Absent => /\ record'[s] \in RowType /\ record'[s] # Absent
                                          /\ record'[s].key = v /\ record'[s].under = v
                                          /\ record'[s].dek = record'[s].sealed
      <3>1. CASE record[s] = Absent
        BY <2>2, <3>1
      <3>2. CASE record[s] # Absent
        <4>1. record[s] \in RowType /\ record[s].dek = record[s].sealed
          BY <1>0, <3>2 DEF TypeOK, Decryptable
        <4>2. record'[s] = [record[s] EXCEPT !.under = v, !.key = v]
          BY <2>2, <3>2
        <4>3. record'[s] \in RowType
          BY <2>3, <4>1, <4>2 DEF RowType
        <4>4. record'[s].key = v /\ record'[s].under = v /\ record'[s].dek = record'[s].sealed
          BY <4>1, <4>2 DEF RowType
        <4> QED BY <3>2, <4>3, <4>4, AbsentIsNoRow
      <3> QED BY <3>1, <3>2
    <2>6. record' \in [Secret -> RowType \cup {Absent}]
      <3>1. \A s \in Secret : record'[s] \in RowType \cup {Absent}
        BY <2>5
      <3>2. record' = [s \in Secret |-> record'[s]]
        BY <2>2
      <3> QED BY <3>1, <3>2
    <2>7. \A s \in Secret : record'[s] = Absent <=> record[s] = Absent
      BY <2>5
    <2>8. TypeOK'
      <3>1. \A e \in acl : e[1] \in Secret
        BY <1>0 DEF TypeOK
      <3>2. pc # "idle" => SecretOf[request] \in Secret
        BY <1>0, VaultAssumption DEF TypeOK
      <3> QED BY <1>0, <2>4, <2>6, <2>7, <3>1, <3>2 DEF TypeOK
    <2>9. Decryptable'
      BY <2>3, <2>4, <2>5, <2>7 DEF Decryptable
    <2>10. StepInv'
      <3>1. pc = "write" => SecretOf[request] \in Secret
        BY <1>0, VaultAssumption DEF TypeOK
      <3> QED BY <1>0, <2>4, <2>7, <3>1 DEF IndInv, StepInv
    <2>11. CommandInv'
      BY <1>0, <2>4, NoCommandType, CommandSteps DEF End, IndInv, CommandInv
    <2>12. PassphraseOpens' /\ GrantOnce' /\ FreshInv'
      BY <1>0, <2>4 DEF IndInv, PassphraseOpens, Opens, GrantOnce, FreshInv
    <2> QED BY <2>8, <2>9, <2>10, <2>11, <2>12 DEF IndInv
  <1> QED BY <1>1, <1>2

LEMMA ChangePassphraseInv ==
  ASSUME IndInv, NEW o \in Operator, ChangePassphrase(o) PROVE IndInv'
  <1>0. /\ UNCHANGED <<active, recordVars, used, daemonVars, performed>>
        /\ cli[o].pc = "change" /\ TypeOK
    BY DEF ChangePassphrase, IndInv
  <1>1. CASE ~ Verified(o)
    BY <1>0, <1>1, EndCommandInv DEF ChangePassphrase
  <1>2. CASE Verified(o)
    <2>1. cli[o] \in CommandType /\ Ready(cli[o])
      BY <1>0, CommandHeld
    <2>2. PICK new \in Pass : new = cli[o].new
      BY <1>0, <2>1 DEF Ready
    <2>3. PICK t \in 1 .. MaxSalts : t = salt + 1
      BY <1>0, Constants DEF TypeOK, ChangePassphrase
    <2>4. wrapped' = [v \in 1 .. MaxKeys |-> IF v \in Versions THEN <<new, t>> ELSE Absent]
          /\ salt' = t /\ pass' = new
      BY <1>2, <2>2, <2>3 DEF ChangePassphrase
    <2>5. <<new, t>> \in Pass \X Nat /\ <<new, t>> \in Pass \X (1 .. MaxSalts)
      BY Constants
    <2>6. <<new, t>> # Absent
      BY <2>5, VaultAssumption
    <2>7. wrapped' \in [1 .. MaxKeys -> (Pass \X (1 .. MaxSalts)) \cup {Absent}]
      BY <2>4, <2>5
    <2>8. Versions' = Versions
      BY <2>4, <2>6, VersionsType DEF Versions
    <2>9. PassphraseOpens'
      BY <2>4, <2>8, VersionsType DEF PassphraseOpens, Opens
    <2>10. TypeOK'
      BY <1>0, <2>4, <2>7, <2>8 DEF TypeOK
    <2>11. PICK x : x = [cli[o] EXCEPT !.pc = "audit"]
      OBVIOUS
    <2>12. cli' = [cli EXCEPT ![o] = x]
      BY <1>2, <2>11 DEF ChangePassphrase, Goto
    <2>13. x \in CommandType' /\ Ready(x)
      BY <1>0, <2>1, <2>8, <2>11 DEF CommandType, Ready
    <2>14. CommandInv'
      BY <1>0, <2>8, <2>12, <2>13, CommandSteps DEF IndInv, CommandInv
    <2>15. StepInv' /\ Decryptable' /\ GrantOnce' /\ FreshInv'
      BY <1>0, <2>8 DEF IndInv, StepInv, Decryptable, GrantOnce, FreshInv
    <2> QED BY <2>9, <2>10, <2>14, <2>15 DEF IndInv
  <1> QED BY <1>1, <1>2

-----------------------------------------------------------------------------
(* The specification.                                                      *)

LEMMA NextInv == IndInv /\ [Next]_vars => IndInv'
  <1> SUFFICES ASSUME IndInv, [Next]_vars PROVE IndInv'
    OBVIOUS
  <1>1. CASE Daemon
    <2>1. CASE Unlock \/ Lock
      BY <2>1, LockInv
    <2>2. ASSUME NEW n \in Nonce, Accept(n) PROVE IndInv'
      BY <2>2, AcceptInv
    <2>3. CASE VerifyAndConsume
      BY <2>3, VerifyInv
    <2>4. CASE Authorize
      BY <2>4, AuthorizeInv
    <2>5. CASE ReadActive
      BY <2>5, ReadActiveInv
    <2>6. CASE WriteRecord
      BY <2>6, WriteRecordInv
    <2>7. CASE WriteFails \/ DaemonCrash
      BY <2>7, EndInv
    <2>8. CASE Decrypt
      BY <2>8, DecryptInv
    <2>9. CASE RecordAccess
      BY <2>9, RecordAccessInv
    <2> QED BY <1>1, <2>1, <2>2, <2>3, <2>4, <2>5, <2>6, <2>7, <2>8, <2>9 DEF Daemon
  <1>2. ASSUME NEW o \in Operator, Command(o) PROVE IndInv'
    <2>1. CASE Start(o, "rotate") \/ Start(o, "change")
      BY <2>1, StartInv
    <2>2. CASE LoadDerivation(o)
      BY <2>2, LoadDerivationInv
    <2>3. CASE AddKeyVersion(o)
      BY <2>3, AddKeyVersionInv
    <2>4. CASE RewrapDataKeys(o)
      BY <2>4, RewrapInv
    <2>5. CASE ChangePassphrase(o)
      BY <2>5, ChangePassphraseInv
    <2>6. CASE AuditChange(o) \/ CommandCrash(o)
      BY <2>6, EndCommandInv DEF AuditChange, CommandCrash
    <2> QED BY <1>2, <2>1, <2>2, <2>3, <2>4, <2>5, <2>6 DEF Command
  <1>3. CASE UNCHANGED vars
    <2>1. UNCHANGED <<keyVars, recordVars, cli, used, performed, keys, pc, request, version>>
      BY <1>3 DEF vars
    <2>2. Versions' = Versions
      BY <2>1 DEF Versions
    <2>3. GrantOnce' /\ StepInv' /\ FreshInv'
      BY <2>1, <2>2 DEF IndInv, GrantOnce, StepInv, FreshInv
    <2> QED BY <2>1, <2>3, DaemonOnly DEF IndInv, TypeOK
  <1> QED BY <1>1, <1>2, <1>3 DEF Next

\* The inductive invariant holds in every state that the daemon and the commands
\* of operators can reach.
THEOREM Invariance == Spec => []IndInv
  BY InitInv, NextInv, PTL DEF Spec

\* The tables of the vault keep their types, an entry of the ACL has its record,
\* and the key version that is active and every unsealed key exist.
THEOREM TypeCorrect == Spec => []TypeOK
  <1>1. IndInv => TypeOK
    BY DEF IndInv
  <1> QED BY <1>1, Invariance, PTL

\* However rotations and changes of the passphrase overlap, and wherever one of
\* them ends, every master key opens with the passphrase that was set last
\* (VaultKeyring.add_key_version, change_passphrase).
THEOREM PassphraseAlwaysOpens == Spec => []PassphraseOpens
  <1>1. IndInv => PassphraseOpens
    BY DEF IndInv
  <1> QED BY <1>1, Invariance, PTL

\* Whatever updates and rotations come between each other, the data key beside a
\* record opens its ciphertext and is wrapped under a master key that exists
\* (VaultRepository.update, rewrap_data_keys).
THEOREM RecordsStayDecryptable == Spec => []Decryptable
  <1>1. IndInv => Decryptable
    BY DEF IndInv
  <1> QED BY <1>1, Invariance, PTL

\* A grant that is sent again, before or after the daemon ended, has no second
\* effect (CapabilityGrantVerifier.verify_and_consume).
THEOREM GrantActsOnce == Spec => []GrantOnce
  <1>1. IndInv => GrantOnce
    BY DEF IndInv
  <1> QED BY <1>1, Invariance, PTL
=============================================================================
