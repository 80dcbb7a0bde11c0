----------------------------- MODULE MCTaskCron -----------------------------
(***************************************************************************)
(* Two nodes materializing a backfilled task that fires every minute.  A   *)
(* pass is about the last two minutes, so that with three of them the      *)
(* oldest leaves the window.                                               *)
(***************************************************************************)
EXTENDS TaskCron, TLC

CONSTANTS j1, j2, j3, r1, r2, mail, pid1, first, nobody, nokey, noowner

MCKeys == Tasks \X (1..Horizon)
EveryMinute == [t \in Tasks |-> 1..Horizon]
Backfilled == [t \in Tasks |-> "backfill"]
OneEach == [t \in Tasks |-> 1]
TwoEach == [t \in Tasks |-> 2]

=============================================================================
