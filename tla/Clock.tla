-------------------------------- MODULE Clock --------------------------------
(***************************************************************************)
(* The clock that the schedulers of runtime/worker.py and the commands     *)
(* read.                                                                   *)
(***************************************************************************)
EXTENDS Naturals

CONSTANT MaxTime  \* bound: the last instant

VARIABLE clock

Time == 0 .. MaxTime

=============================================================================
