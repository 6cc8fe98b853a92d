------------------------------- MODULE Vault -------------------------------
(***************************************************************************)
(* The vault (src/zhixu_vault): a daemon that answers requests over a Unix *)
(* socket, and the commands rotate-keys and change-passphrase that an      *)
(* operator runs on the same database.                                     *)
(*   - VaultKeyring (crypto.py): the master keys, each sealed with a key   *)
(*     derived from the passphrase and a salt,                             *)
(*   - VaultRepository (storage.py), VaultAuditLog.append (audit.py),      *)
(*   - CapabilityGrantVerifier (grants.py), VaultPolicy (policy.py),       *)
(*     VaultService (service.py), VaultRPCDispatcher (unix_api.py),        *)
(*   - the commands of cli.py.                                             *)
(* The daemon handles one request at a time; every step is one transaction *)
(* or one read, and the commands run between them.  A process may end      *)
(* anywhere.                                                               *)
(*                                                                         *)
(* Cryptography is abstracted to who can open what: a master key is sealed *)
(* under a pair of a passphrase and a salt, a data key under the number of *)
(* a master key.  A grant is named by its nonce.                           *)
(***************************************************************************)
EXTENDS Naturals

CONSTANTS
  Secret, Machine, \* secrets, and those that are used and never revealed
  Subject, Owner,  \* the owner of the secrets, and others
  Nonce, SecretOf, SubjectOf, ActionOf, \* the grants that were signed
  StepUp,          \* those signed after a step-up
  Pass, Operator,
  Absent,
  MaxKeys, MaxSalts, \* bounds: versions of the master key, salts
  MaxVersion,        \* bound: the version of a record
  MaxRequests, MaxRuns, MaxCrashes \* bounds: requests, commands, ends of a process

Action == {"create", "list", "use", "reveal", "update", "delete", "export", "grant"}

ASSUME VaultAssumption ==
  /\ Machine \subseteq Secret /\ Owner \in Subject
  /\ SecretOf \in [Nonce -> Secret] /\ SubjectOf \in [Nonce -> Subject]
  /\ ActionOf \in [Nonce -> Action] /\ StepUp \subseteq Nonce
  /\ Absent \notin Nonce \cup (Pass \X Nat)
  /\ {MaxKeys, MaxSalts, MaxVersion} \subseteq Nat \ {0}
  /\ {MaxRequests, MaxRuns, MaxCrashes} \subseteq Nat

VARIABLES
  wrapped,   \* the table key_versions: what each master key is sealed under
  active,    \* the version with status active
  salt,      \* vault_meta
  record, acl, used, audit, \* the tables secret_records, secret_acl,
                            \* grant_nonces, vault_audit
  keys, pc, request, version, \* the daemon: unsealed keys, next step, the grant
                              \* it acts on, and the key version it has read
  cli,       \* what each command knows
  pass,      \* the passphrase the operator changed to last
  performed, \* how often each grant had its effect
  deks,      \* how many data keys were made
  requests, runs, crashes

keyVars    == <<wrapped, active, salt, pass>>
recordVars == <<record, acl, deks>>
daemonVars == <<keys, pc, request, version>>
countVars  == <<requests, runs, crashes>>
vars == <<keyVars, recordVars, used, audit, daemonVars, cli, performed, countVars>>

Versions == {v \in 1 .. MaxKeys : wrapped[v] # Absent}
Newest == CHOOSE v \in Versions : \A w \in Versions : w <= v
Opens(p, s) == \A v \in Versions : wrapped[v] = <<p, s>>

\* A record: its version, the data key of its ciphertext, the data key that is
\* wrapped beside it, the master key it is wrapped under, and the one it names.
RowType == [version : 1 .. MaxVersion, sealed : Nat, dek : Nat,
            under : 1 .. MaxKeys, key : 1 .. MaxKeys]
ASSUME AbsentIsNoRow == Absent \notin RowType

NoCommand == [pc |-> "idle", kind |-> Absent, old |-> Absent, new |-> Absent,
              salt |-> 0, keys |-> {}]

OwnerActions(s) ==
  {"list", "update", "delete", "export", "grant"}
    \cup IF s \in Machine THEN {"use"} ELSE {"reveal"}

Init ==
  /\ \E p \in Pass : pass = p
  /\ wrapped = [v \in 1 .. MaxKeys |-> IF v = 1 THEN <<pass, 1>> ELSE Absent]
  /\ active = 1 /\ salt = 1
  /\ record = [s \in Secret |-> Absent] /\ acl = {} /\ deks = 0
  /\ used = {} /\ audit = {}
  /\ keys = {} /\ pc = "idle" /\ request = Absent /\ version = 0
  /\ cli = [o \in Operator |-> NoCommand]
  /\ performed = [n \in Nonce |-> 0]
  /\ requests = 0 /\ runs = 0 /\ crashes = 0

-----------------------------------------------------------------------------
(* The daemon.                                                             *)

Sealed == keys = {}

Unlock ==
  /\ pc = "idle" /\ Sealed
  /\ \E p \in Pass : Opens(p, salt)
  /\ keys' = Versions
  /\ UNCHANGED <<keyVars, recordVars, used, audit, pc, request, version, cli,
                 performed, countVars>>

\* The command lock, or ten minutes without a use of a key.
Lock ==
  /\ ~ Sealed
  /\ keys' = {}
  /\ UNCHANGED <<keyVars, recordVars, used, audit, pc, request, version, cli,
                 performed, countVars>>

\* A request with a grant, which may have been used before.
Accept(n) ==
  /\ pc = "idle" /\ requests < MaxRequests
  /\ pc' = "verify" /\ request' = n
  /\ requests' = requests + 1
  /\ UNCHANGED <<keyVars, recordVars, used, audit, keys, version, cli, performed,
                 runs, crashes>>

Reply == pc' = "idle" /\ request' = Absent /\ version' = 0
Record(outcome) == audit' = audit \cup {<<request, outcome>>}
\* A sealed vault cannot record a denial, and denies all the same.
RecordDenial == IF Sealed THEN UNCHANGED audit ELSE Record("denied")

\* Mutant of VerifyAndConsume: the nonce is only looked up here.
MutLookUpNonce ==
  /\ pc = "verify"
  /\ IF request \in used
     THEN RecordDenial /\ Reply /\ UNCHANGED used
     ELSE /\ used' = IF ActionOf[request] = "use" THEN used ELSE used \cup {request}
          /\ pc' = "authorize"
          /\ UNCHANGED <<audit, request, version>>
  /\ UNCHANGED <<keyVars, recordVars, keys, cli, performed, countVars>>

VerifyAndConsume ==
  /\ pc = "verify"
  /\ IF request \in used
     THEN RecordDenial /\ Reply /\ UNCHANGED used
     ELSE /\ used' = used \cup {request}
          /\ pc' = "authorize"
          /\ UNCHANGED <<audit, request, version>>
  /\ UNCHANGED <<keyVars, recordVars, keys, cli, performed, countVars>>

\* Creation is for the owner; everything else needs an entry of the ACL, machine
\* secrets are not revealed and human ones not used.  All but uses and lists ask
\* for a step-up.
Allowed(n) ==
  LET s == SecretOf[n] IN
  /\ ActionOf[n] \notin {"use", "list"} => n \in StepUp
  /\ IF ActionOf[n] = "create" THEN SubjectOf[n] = Owner
     ELSE /\ record[s] # Absent
          /\ <<s, SubjectOf[n], ActionOf[n]>> \in acl
          /\ ActionOf[n] = "reveal" => s \notin Machine
          /\ ActionOf[n] = "use" => s \in Machine

Authorize ==
  /\ pc = "authorize"
  /\ IF Allowed(request)
     THEN /\ pc' = CASE ActionOf[request] \in {"create", "update"} -> "seal"
                     [] ActionOf[request] \in {"use", "reveal", "export"} -> "decrypt"
                     [] ActionOf[request] \in {"delete", "grant"} -> "write"
                     [] ActionOf[request] = "list" -> "record"
          /\ UNCHANGED <<audit, request, version>>
     ELSE RecordDenial /\ Reply
  /\ UNCHANGED <<keyVars, recordVars, used, keys, cli, performed, countVars>>

\* keyring.active(): the version is read; its key may be missing.
ReadActive ==
  /\ pc = "seal"
  /\ IF active \in keys
     THEN pc' = "write" /\ version' = active /\ UNCHANGED <<request, audit>>
     ELSE /\ Reply
          /\ IF ActionOf[request] = "create" THEN RecordDenial ELSE UNCHANGED audit
  /\ UNCHANGED <<keyVars, recordVars, used, keys, cli, performed, countVars>>

Success == Record("completed") /\ Reply
Count == performed' = [performed EXCEPT ![request] = @ + 1]

\* Mutant of NewRow: the new data key is not stored with the new ciphertext.
MutOldDataKey(row, v) == [row EXCEPT !.version = @ + 1, !.sealed = deks + 1,
                                     !.under = v, !.key = v]

NewRow(row, v) == [row EXCEPT !.version = @ + 1, !.sealed = deks + 1, !.dek = deks + 1,
                              !.under = v, !.key = v]

\* One transaction: the change and its audit entry, which needs a key.  An
\* update names the version that it expects.
WriteCreate ==
  LET s == SecretOf[request] IN
  /\ ActionOf[request] = "create" /\ record[s] = Absent
  /\ record' = [record EXCEPT ![s] =
                  [version |-> 1, sealed |-> deks + 1, dek |-> deks + 1,
                   under |-> version, key |-> version]]
  /\ acl' = acl \cup {<<s, Owner, a>> : a \in OwnerActions(s)}
  /\ deks' = deks + 1

WriteUpdate ==
  LET s == SecretOf[request] IN
  /\ ActionOf[request] = "update" /\ record[s] # Absent
  /\ record[s].version < MaxVersion
  /\ record' = [record EXCEPT ![s] = NewRow(@, version)]
  /\ deks' = deks + 1
  /\ UNCHANGED acl

\* Mutant of WriteDelete: the entries of the ACL stay behind.
MutEntriesStay ==
  LET s == SecretOf[request] IN
  /\ ActionOf[request] = "delete" /\ record[s] # Absent
  /\ record' = [record EXCEPT ![s] = Absent]
  /\ UNCHANGED <<acl, deks>>

WriteDelete ==
  LET s == SecretOf[request] IN
  /\ ActionOf[request] = "delete" /\ record[s] # Absent
  /\ record' = [record EXCEPT ![s] = Absent]
  /\ acl' = {e \in acl : e[1] # s}
  /\ UNCHANGED deks

WriteGrant ==
  /\ ActionOf[request] = "grant"
  /\ \E u \in Subject, a \in Action :
       acl' = acl \cup {<<SecretOf[request], u, a>>}
  /\ UNCHANGED <<record, deks>>

WriteRecord ==
  /\ pc = "write" /\ ~ Sealed
  /\ WriteCreate \/ WriteUpdate \/ WriteDelete \/ WriteGrant
  /\ Success /\ Count
  /\ UNCHANGED <<keyVars, used, keys, cli, countVars>>

\* The transaction fails: sealed, a record of that id, another version, no
\* record.  Only a failed creation is recorded.
WriteFails ==
  /\ pc = "write"
  /\ \/ Sealed
     \/ ActionOf[request] = "create" /\ record[SecretOf[request]] # Absent
     \/ ActionOf[request] = "update"
  /\ Reply
  /\ IF ActionOf[request] = "create" THEN RecordDenial ELSE UNCHANGED audit
  /\ UNCHANGED <<keyVars, recordVars, used, keys, cli, performed, countVars>>

\* The record is read and opened.  A machine secret goes to its executor now:
\* there may be none of that name, which is refused before, and it may fail or
\* answer with the secret, which is refused when it is too late.
Decrypt ==
  /\ pc = "decrypt"
  /\ LET use == ActionOf[request] = "use"
         opens == record[SecretOf[request]].key \in keys IN
     \/ use /\ RecordDenial /\ Reply /\ UNCHANGED performed
     \/ ~ opens /\ Reply /\ UNCHANGED <<performed, audit>>
     \/ /\ opens /\ pc' = "record" /\ UNCHANGED <<request, version, audit>>
        /\ IF use THEN Count ELSE UNCHANGED performed
     \/ use /\ opens /\ Count /\ Reply /\ (RecordDenial \/ UNCHANGED audit)
  /\ UNCHANGED <<keyVars, recordVars, used, keys, cli, countVars>>

\* Only then the access is recorded; if that fails there is no answer.
RecordAccess ==
  /\ pc = "record"
  /\ IF Sealed THEN Reply /\ UNCHANGED <<audit, performed>>
     ELSE /\ Success
          /\ IF ActionOf[request] = "use" THEN UNCHANGED performed ELSE Count
  /\ UNCHANGED <<keyVars, recordVars, used, keys, cli, countVars>>

\* The daemon ends, and is started again, sealed.
DaemonCrash ==
  /\ crashes < MaxCrashes /\ (pc # "idle" \/ ~ Sealed)
  /\ keys' = {} /\ Reply
  /\ crashes' = crashes + 1
  /\ UNCHANGED <<keyVars, recordVars, used, audit, cli, performed, requests, runs>>

Daemon ==
  \/ Unlock \/ Lock \/ (\E n \in Nonce : Accept(n))
  \/ VerifyAndConsume \/ Authorize \/ ReadActive \/ WriteRecord \/ WriteFails
  \/ Decrypt \/ RecordAccess \/ DaemonCrash

-----------------------------------------------------------------------------
(* The commands of an operator.                                            *)

Goto(o, step) == cli' = [cli EXCEPT ![o].pc = step]
End(o) == cli' = [cli EXCEPT ![o] = NoCommand]
RecordCommand(kind) == audit' = audit \cup {<<kind, "completed">>}

\* keyring.unlock with the passphrase that is typed in.
Start(o, kind) ==
  /\ cli[o].pc = "idle" /\ runs < MaxRuns
  /\ \E old \in Pass, new \in Pass :
       /\ Opens(old, salt)
       /\ kind = "rotate" => new = old
       /\ cli' = [cli EXCEPT ![o] = [pc |-> "load", kind |-> kind, old |-> old,
                                    new |-> new, salt |-> 0, keys |-> Versions]]
  /\ runs' = runs + 1
  /\ UNCHANGED <<keyVars, recordVars, used, audit, daemonVars, performed, requests,
                 crashes>>

\* _load_derivation, in a read of its own.
LoadDerivation(o) ==
  /\ cli[o].pc = "load"
  /\ cli' = [cli EXCEPT ![o].pc = cli[o].kind, ![o].salt = salt]
  /\ UNCHANGED <<keyVars, recordVars, used, audit, daemonVars, performed, countVars>>

\* Mutant of Verified: the passphrase was good when the command began.
MutTrusted(o) == TRUE

\* Every key that is there opens with the key derived from what was read.
Verified(o) == Opens(cli[o].old, cli[o].salt)

AddKeyVersion(o) ==
  /\ cli[o].pc = "rotate" /\ Newest < MaxKeys
  /\ IF Verified(o)
     THEN /\ wrapped' = [wrapped EXCEPT ![Newest + 1] = <<cli[o].old, cli[o].salt>>]
          /\ active' = Newest + 1
          /\ cli' = [cli EXCEPT ![o].pc = "rewrap", ![o].keys = @ \cup {Newest + 1}]
     ELSE End(o) /\ UNCHANGED <<wrapped, active>>
  /\ UNCHANGED <<salt, pass, recordVars, used, audit, daemonVars, performed, countVars>>

\* Every data key is wrapped again, under the newest key this command knows; a
\* record under a key it does not know makes the transaction fail.
RewrapDataKeys(o) ==
  /\ cli[o].pc = "rewrap"
  /\ LET v == CHOOSE w \in cli[o].keys : \A x \in cli[o].keys : x <= w
         all == {s \in Secret : record[s] # Absent} IN
     IF \A s \in all : record[s].key \in cli[o].keys
     THEN /\ record' = [s \in Secret |->
                          IF s \in all
                          THEN [record[s] EXCEPT !.under = v, !.key = v]
                          ELSE Absent]
          /\ RecordCommand("rotate")
     ELSE UNCHANGED <<record, audit>>
  /\ End(o)
  /\ UNCHANGED <<keyVars, acl, deks, used, daemonVars, performed, countVars>>

ChangePassphrase(o) ==
  /\ cli[o].pc = "change" /\ salt < MaxSalts
  /\ IF Verified(o)
     THEN /\ wrapped' = [v \in 1 .. MaxKeys |->
                           IF v \in Versions THEN <<cli[o].new, salt + 1>> ELSE Absent]
          /\ salt' = salt + 1 /\ pass' = cli[o].new
          /\ Goto(o, "audit")
     ELSE End(o) /\ UNCHANGED <<wrapped, salt, pass>>
  /\ UNCHANGED <<active, recordVars, used, audit, daemonVars, performed, countVars>>

AuditChange(o) ==
  /\ cli[o].pc = "audit"
  /\ RecordCommand("change") /\ End(o)
  /\ UNCHANGED <<keyVars, recordVars, used, daemonVars, performed, countVars>>

CommandCrash(o) ==
  /\ cli[o].pc # "idle" /\ crashes < MaxCrashes
  /\ End(o)
  /\ crashes' = crashes + 1
  /\ UNCHANGED <<keyVars, recordVars, used, audit, daemonVars, performed, requests,
                 runs>>

Command(o) ==
  \/ Start(o, "rotate") \/ Start(o, "change")
  \/ LoadDerivation(o) \/ AddKeyVersion(o) \/ RewrapDataKeys(o)
  \/ ChangePassphrase(o) \/ AuditChange(o) \/ CommandCrash(o)

Next == Daemon \/ \E o \in Operator : Command(o)

Spec == Init /\ [][Next]_vars

-----------------------------------------------------------------------------
(* Properties.                                                             *)

TypeOK ==
  /\ wrapped \in [1 .. MaxKeys -> (Pass \X (1 .. MaxSalts)) \cup {Absent}]
  /\ active \in Versions /\ salt \in 1 .. MaxSalts /\ pass \in Pass
  /\ record \in [Secret -> RowType \cup {Absent}]
  /\ acl \subseteq Secret \X Subject \X Action
  /\ \A e \in acl : record[e[1]] # Absent
  /\ keys \subseteq Versions /\ used \subseteq Nonce
  /\ pc \in {"idle", "verify", "authorize", "seal", "write", "decrypt", "record"}
  /\ pc # "idle" => request \in Nonce
  /\ pc \in {"decrypt", "record"} => record[SecretOf[request]] # Absent
  /\ performed \in [Nonce -> Nat]

\* Every master key opens with the passphrase that the operator changed to last:
\* a rotation and a change of the passphrase that run at the same time, or end
\* half way, never leave a key that nobody can open (which would keep the whole
\* vault shut, since unlock opens all of them or none).
PassphraseOpens == Opens(pass, salt)

\* Every record can be decrypted once the vault is open: the data key beside it
\* is the one its ciphertext was made with, wrapped under the master key it
\* names, whatever update and rotation come between each other.
Decryptable ==
  \A s \in Secret : record[s] # Absent =>
    /\ record[s].key \in Versions /\ record[s].under = record[s].key
    /\ record[s].dek = record[s].sealed

\* A grant has its effect at most once, though the request is sent again, the
\* daemon ends in the middle, or the access could not be recorded.
GrantOnce == \A n \in Nonce : performed[n] <= 1

-----------------------------------------------------------------------------
(* What makes them inductive.                                              *)

\* A command knows keys of the vault, and the passphrases it was given.
CommandInv ==
  /\ deks \in Nat
  /\ cli \in [Operator -> [pc : {"idle", "load", "rotate", "rewrap", "change", "audit"},
                           kind : {"rotate", "change", Absent},
                           old : Pass \cup {Absent}, new : Pass \cup {Absent},
                           salt : 0 .. MaxSalts, keys : SUBSET Versions]]
  /\ \A o \in Operator : cli[o].pc # "idle" =>
       /\ cli[o].kind \in {"rotate", "change"} /\ cli[o].keys # {}
       /\ cli[o].old \in Pass /\ cli[o].new \in Pass

\* What the daemon holds between its steps still stands when it writes: the
\* record to be shared or deleted, and the key that it has read.
StepInv ==
  /\ pc = "seal" => ActionOf[request] \in {"create", "update"}
  /\ pc = "write" =>
       \/ ActionOf[request] \in {"create", "update"} /\ version \in Versions
       \/ ActionOf[request] \in {"delete", "grant"} /\ record[SecretOf[request]] # Absent

\* A grant that has not been consumed, or is consumed and still on its way, has
\* had no effect.
FreshInv ==
  /\ \A n \in Nonce \ used : performed[n] = 0
  /\ pc \notin {"idle", "verify"} => request \in used
  /\ \/ pc \in {"authorize", "seal", "write", "decrypt"}
     \/ pc = "record" /\ ActionOf[request] # "use"
     => performed[request] = 0

IndInv == TypeOK /\ PassphraseOpens /\ Decryptable /\ GrantOnce
            /\ CommandInv /\ StepInv /\ FreshInv
=============================================================================
