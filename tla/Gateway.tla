------------------------------- MODULE Gateway -------------------------------
(***************************************************************************)
(* The QQ gateway client of adapters/channels/qq/gateway.py: the protocol  *)
(* state (session id and last sequence) in memory and in gateway_sessions, *)
(* the handshake, the handling of one dispatch, and the reconnect loop.    *)
(* One thread runs it; it stops inside handle to forward an event and to   *)
(* save its state, and it may fail or be restarted at each of these points.*)
(*                                                                         *)
(* The provider is external.  It numbers dispatches, keeps those of the    *)
(* session it last opened, and after RESUME repeats the ones that follow   *)
(* the sequence it is told.  The model numbers dispatches over all         *)
(* sessions; base says where a session's own numbers begin.  Session 0     *)
(* stands for the empty session_id, which goes with sequence None, here 0. *)
(***************************************************************************)
EXTENDS Naturals

CONSTANTS
  Content,      \* what the mapper makes of dispatches: event ids and Ignored
  Ignored,      \* a dispatch that is no command
  Last,         \* bound: how many dispatches the provider emits
  EventOf,      \* the event of each dispatch
  MaxSessions   \* bound: how many sessions are opened

ASSUME GatewayAssumption ==
  /\ Last \in Nat /\ MaxSessions \in Nat
  /\ EventOf \in [1 .. Last -> Content]

VARIABLES
  emitted,                     \* provider: the number of dispatches so far
  live,                        \* provider: the session that can be resumed, or 0
  newest,                      \* provider: the session opened last
  base,                        \* provider: the dispatches before a session
  cursor,                      \* provider: the last dispatch pushed
  link,                        \* where the gateway thread stands
  session, sequence,           \* QQGatewayState in memory
  previous,                    \* handle's previous_sequence
  savedSession, savedSequence  \* the gateway_sessions row

providerVars == <<emitted, live, newest, base, cursor>>
stateVars    == <<session, sequence, previous>>
savedVars    == <<savedSession, savedSequence>>
gatewayVars  == <<providerVars, link, stateVars, savedVars>>

Link == {"down", "hello", "resuming", "identifying", "up", "forwarding", "saving"}

GatewayTypeOK ==
  /\ emitted \in 0 .. Last /\ cursor \in 0 .. Last
  /\ newest \in 0 .. MaxSessions /\ live \in {0, newest}
  /\ base \in [0 .. MaxSessions -> 0 .. Last]
  /\ link \in Link
  /\ session \in 0 .. newest /\ savedSession \in 0 .. newest
  /\ sequence \in 0 .. Last /\ savedSequence \in 0 .. Last
  /\ previous \in 0 .. Last

GatewayInit ==
  /\ emitted = 0 /\ cursor = 0
  /\ newest = 0 /\ live = 0
  /\ base = [s \in 0 .. MaxSessions |-> 0]
  /\ link = "down"
  /\ session = 0 /\ savedSession = 0
  /\ sequence = 0 /\ savedSequence = 0
  /\ previous = 0

-----------------------------------------------------------------------------
(* The provider.                                                           *)

Emit ==
  /\ emitted < Last
  /\ emitted' = emitted + 1
  /\ UNCHANGED <<live, newest, base, cursor, link, stateVars, savedVars>>

\* A session that is not connected expires.
Expire ==
  /\ live # 0 /\ link = "down"
  /\ live' = 0
  /\ UNCHANGED <<emitted, newest, base, cursor, link, stateVars, savedVars>>

-----------------------------------------------------------------------------
(* Connecting.                                                             *)

\* connect_once up to the HELLO.
Connect ==
  /\ link = "down"
  /\ link' = "hello"
  /\ UNCHANGED <<providerVars, stateVars, savedVars>>

\* handshake_payload: RESUME with a known session, IDENTIFY without.
Handshake ==
  /\ link = "hello"
  /\ link' = IF session # 0 THEN "resuming" ELSE "identifying"
  /\ UNCHANGED <<providerVars, stateVars, savedVars>>

\* READY of a new session.  The state is saved next.
Ready ==
  /\ link = "identifying" /\ newest < MaxSessions
  /\ newest' = newest + 1 /\ live' = newest + 1
  /\ base' = [base EXCEPT ![newest + 1] = emitted]
  /\ cursor' = emitted
  /\ session' = newest + 1 /\ sequence' = emitted
  /\ link' = "saving"
  /\ UNCHANGED <<emitted, previous, savedVars>>

\* RESUMED: the provider goes back to the sequence it was told.
Resumed ==
  /\ link = "resuming" /\ session = live
  /\ cursor' = sequence
  /\ link' = "saving"
  /\ UNCHANGED <<emitted, live, newest, base, stateVars, savedVars>>

\* Mutant of InvalidSession: the row is deleted and the state in memory kept.
MutInvalidSession(deleted) ==
  /\ link = "resuming" /\ session # live
  /\ savedSession' = IF deleted THEN 0 ELSE savedSession
  /\ savedSequence' = IF deleted THEN 0 ELSE savedSequence
  /\ link' = "down"
  /\ UNCHANGED <<providerVars, stateVars>>

\* INVALID_SESSION that cannot be resumed: the state is reset, then the row is
\* deleted (unless that fails), and the runner reconnects.
InvalidSession(deleted) ==
  /\ link = "resuming" /\ session # live
  /\ session' = 0 /\ sequence' = 0
  /\ savedSession' = IF deleted THEN 0 ELSE savedSession
  /\ savedSequence' = IF deleted THEN 0 ELSE savedSequence
  /\ link' = "down"
  /\ UNCHANGED <<providerVars, previous>>

-----------------------------------------------------------------------------
(* handle: one dispatch.                                                   *)

Pushed == cursor + 1

CanReceive == link = "up" /\ cursor < emitted

\* Mutant of Receive: the sequence names the dispatch expected next.
MutReceive ==
  /\ CanReceive
  /\ cursor' = Pushed
  /\ previous' = sequence
  /\ sequence' = Pushed + 1
  /\ link' = IF EventOf[Pushed] = Ignored THEN "up" ELSE "forwarding"
  /\ UNCHANGED <<emitted, live, newest, base, session, savedVars>>

\* The sequence advances first of all; a dispatch that maps to no event is
\* done with that, and its sequence is not saved.
Receive ==
  /\ CanReceive
  /\ cursor' = Pushed
  /\ previous' = sequence
  /\ sequence' = Pushed
  /\ link' = IF EventOf[Pushed] = Ignored THEN "up" ELSE "forwarding"
  /\ UNCHANGED <<emitted, live, newest, base, session, savedVars>>

\* mapper.map writes contacts and may raise.  It is called outside the try
\* block, so the sequence stays advanced while the runner reconnects.
MapFails ==
  /\ CanReceive /\ EventOf[Pushed] # Ignored
  /\ cursor' = Pushed
  /\ previous' = sequence
  /\ sequence' = Pushed
  /\ link' = "down"
  /\ UNCHANGED <<emitted, live, newest, base, session, savedVars>>

\* on_event returned.
Forwarded ==
  /\ link = "forwarding"
  /\ link' = "saving"
  /\ UNCHANGED <<providerVars, stateVars, savedVars>>

\* Mutant of ForwardFails: the sequence is not put back.
MutForwardFails ==
  /\ link = "forwarding"
  /\ link' = "down"
  /\ UNCHANGED <<providerVars, stateVars, savedVars>>

\* on_event raised: the sequence is put back and the runner reconnects.
ForwardFails ==
  /\ link = "forwarding"
  /\ sequence' = previous
  /\ link' = "down"
  /\ UNCHANGED <<providerVars, session, previous, savedVars>>

\* session_store.save.
Save ==
  /\ link = "saving"
  /\ savedSession' = session /\ savedSequence' = sequence
  /\ link' = "up"
  /\ UNCHANGED <<providerVars, stateVars>>

-----------------------------------------------------------------------------
(* Failures.                                                               *)

\* The socket closes, a heartbeat is not acknowledged in time, the provider
\* asks to reconnect, an interaction cannot be acknowledged, or save raises.
Disconnect ==
  /\ link \notin {"down", "forwarding"}
  /\ link' = "down"
  /\ UNCHANGED <<providerVars, stateVars, savedVars>>

\* The channel process is restarted and loads what was saved.
Restart ==
  /\ link' = "down"
  /\ session' = savedSession /\ sequence' = savedSequence
  /\ UNCHANGED <<providerVars, previous, savedVars>>

=============================================================================
