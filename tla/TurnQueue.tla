----------------------------- MODULE TurnQueue -----------------------------
(***************************************************************************)
(* What a named mutation queue promises to those that wait in it           *)
(* (packages/browser/src/mutation-queue.ts): one has the turn at a time,   *)
(* turns are taken in the order of arrival, and each has one turn at most. *)
(*                                                                         *)
(* This is the abstract specification that OptimisticMutations implements. *)
(* It says nothing of why a turn ends, nor of what is predicted or sent    *)
(* during it, nor of what becomes of a task whose turn is over.            *)
(***************************************************************************)
EXTENDS Naturals, Sequences

CONSTANTS Members, Depth

VARIABLES
    line,   \* those that have the turn or wait for it, in the order of arrival
    turn,   \* the set of those that have it
    gone    \* those whose turn is over

turnVars == <<line, turn, gone>>

TurnInit ==
    /\ line = <<>>
    /\ turn = {}
    /\ gone = {}

\* The first to arrive has the turn at once.
Join(m) ==
    /\ m \notin gone
    /\ \A i \in 1..Len(line) : line[i] # m
    /\ Len(line) < Depth
    /\ line' = Append(line, m)
    /\ turn' = IF line = <<>> THEN {m} ELSE turn
    /\ UNCHANGED gone

\* A turn that ends is passed to the next in line.
Leave(m) ==
    /\ turn = {m} /\ line # <<>> /\ line[1] = m
    /\ line' = Tail(line)
    /\ turn' = IF Len(line) > 1 THEN {line[2]} ELSE {}
    /\ gone' = gone \cup {m}

TurnNext == \E m \in Members : Join(m) \/ Leave(m)

TurnSpec == TurnInit /\ [][TurnNext]_turnVars
=============================================================================
