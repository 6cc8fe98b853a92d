-------------------------------- MODULE Quota --------------------------------
(***************************************************************************)
(* The quotas of zhixu/delivery/quota.py.  A rule limits how many          *)
(* reservations may be made in one window of its length for one scope      *)
(* reference (a provider, an account, a conversation or a user); a message *)
(* has one reference for each rule.                                        *)
(*                                                                         *)
(* quota_usage holds one row for each window.  Only the current window of  *)
(* a rule is ever read, so the model keeps that row and the time left      *)
(* until the window ends (_window's `end` - now).                          *)
(***************************************************************************)
EXTENDS Naturals, FiniteSets

CONSTANTS
  Message,   \* what is reserved for
  Rule,      \* the quota rules
  Limit,     \* rule.limit
  Length,    \* the length of the rule's window
  Scope,     \* the scope references
  ScopeOf    \* the reference of a message under a rule

ASSUME QuotaAssumption ==
  /\ Limit \in [Rule -> Nat \ {0}]
  /\ Length \in [Rule -> Nat \ {0}]
  /\ ScopeOf \in [Rule -> [Message -> Scope]]

VARIABLES
  used,       \* quota_usage.used of the current window
  windowLeft  \* time left in the current window

quotaVars == <<used, windowLeft>>

QuotaTypeOK ==
  /\ used \in [Rule -> [Scope -> Nat]]
  /\ windowLeft \in [Rule -> Nat \ {0}]

QuotaInit ==
  /\ used = [r \in Rule |-> [s \in Scope |-> 0]]
  /\ windowLeft = Length

\* Mutant of Blocking: off by one at the limit.
MutBlocking(m, ended) ==
  {r \in Rule \ ended : used[r][ScopeOf[r][m]] > Limit[r]}

\* The rules whose current window is exhausted for message m.  The caller has
\* read the clock before; the rules in `ended` have started a new window since,
\* and what is looked up and charged for them is the window before.
Blocking(m, ended) ==
  {r \in Rule \ ended : used[r][ScopeOf[r][m]] >= Limit[r]}

\* reserve, granted: every rule's window is charged, in the transaction that
\* found room in all of them.
ReserveAllowed(m, ended) ==
  /\ Blocking(m, ended) = {}
  /\ used' = [r \in Rule |-> IF r \in ended THEN used[r]
                             ELSE [used[r] EXCEPT ![ScopeOf[r][m]] = @ + 1]]
  /\ UNCHANGED windowLeft

\* reserve, denied: nothing is charged, and `until` is the time left in the
\* blocking window that ends last.  How full an ended window was is not kept,
\* so it may block as well, until an instant that is already past.
ReserveDenied(m, ended, until) ==
  /\ \/ \E r \in Blocking(m, ended) :
          /\ \A q \in Blocking(m, ended) : windowLeft[q] <= windowLeft[r]
          /\ until = windowLeft[r]
     \/ Blocking(m, ended) = {} /\ ended # {} /\ until = 0
  /\ UNCHANGED quotaVars

\* The rules whose window ends with the next unit of time.
Ending == {r \in Rule : windowLeft[r] = 1}

\* One unit of time: a window that ends is followed by an empty one.
QuotaTick ==
  /\ used' = [r \in Rule |->
                IF windowLeft[r] = 1 THEN [s \in Scope |-> 0] ELSE used[r]]
  /\ windowLeft' = [r \in Rule |->
                IF windowLeft[r] = 1 THEN Length[r] ELSE windowLeft[r] - 1]

\* No window is ever charged beyond its limit, for any scope.
WithinLimits == \A r \in Rule, s \in Scope : used[r][s] <= Limit[r]

=============================================================================
