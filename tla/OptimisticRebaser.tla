------------------------- MODULE OptimisticRebaser -------------------------
(***************************************************************************)
(* The browser's optimistic rebaser, one query instance at a time          *)
(* (packages/browser/src/optimism.ts).                                      *)
(*                                                                         *)
(* A query value is abstracted to the effects it contains: v[m] is how      *)
(* often the effect of mutation m is in v.  A transform adds the effect of  *)
(* its mutation once more, whether v has it already or not: transforms are  *)
(* pure but not idempotent.  Effects commute, so the pending log is a set.  *)
(*                                                                         *)
(* An instance is what the page holds for one query: the value shown (the   *)
(* query store), the server truth under the predictions, and the mutations  *)
(* whose predictions are pending.                                           *)
(***************************************************************************)
EXTENDS Naturals

CONSTANTS
    Mutations,   \* submissions of the page, one Kovo-Idem token each
    NoTruth      \* no entry in #serverTruthByQuery

Value == [Mutations -> Nat]

ASSUME TruthAssumption == NoTruth \notin Value

Instance == [shown : Value, truth : Value \cup {NoTruth}, pending : SUBSET Mutations]

\* The value the server computes when the mutations of S have committed.
Effects(S) == [m \in Mutations |-> IF m \in S THEN 1 ELSE 0]

\* The transforms of S applied over v.
Rebase(v, S) == [m \in Mutations |-> IF m \in S THEN v[m] + 1 ELSE v[m]]

\* Mutant: the truth outlives the last prediction.
RebasedKeepingTruth(truth, rest) ==
    [shown |-> Rebase(truth, rest), truth |-> truth, pending |-> rest]

\* What is left of an instance whose surviving predictions are `rest`, over `truth`.
Rebased(truth, rest) ==
    [shown   |-> Rebase(truth, rest),
     truth   |-> IF rest = {} THEN NoTruth ELSE truth,
     pending |-> rest]

\* Mutant: every prediction keeps the value it was made over as the truth.
AddChangeOverPrediction(r, m) ==
    [shown |-> Rebase(r.shown, {m}), truth |-> r.shown, pending |-> r.pending \cup {m}]

\* A prediction over the value shown.  The first one keeps that value as the truth to fall back to.
AddChange(r, m) ==
    [shown   |-> Rebase(r.shown, {m}),
     truth   |-> IF r.pending = {} THEN r.shown ELSE r.truth,
     pending |-> r.pending \cup {m}]

\* The log forgets m; the value shown is left to the truth that follows.
Settle(r, m) ==
    LET rest == r.pending \ {m}
    IN  [r EXCEPT !.pending = rest, !.truth = IF rest = {} THEN NoTruth ELSE @]

\* Mutant: the log forgets m and what it predicted stays on the screen.
SettleFreezing(r, m, threw) ==
    IF r.pending = {} THEN r
    ELSE [Rebased(r.truth, r.pending \ ({m} \cup threw)) EXCEPT !.shown = r.shown]

\* m is taken back: the truth is shown under the predictions that remain.  The transforms of
\* `threw` throw over it and are dropped.
SettleWithoutServerTruth(r, m, threw) ==
    IF r.pending = {} THEN r ELSE Rebased(r.truth, r.pending \ ({m} \cup threw))

\* The server's value v arrives and settles the predictions it names; the others are re-applied.
ApplyServerTruth(r, v, settles, threw) == Rebased(v, r.pending \ (settles \cup threw))

\* The page is hidden: every prediction is dropped.
DiscardPendingOptimism(r) == IF r.pending = {} THEN r ELSE Rebased(r.truth, {})
=============================================================================
