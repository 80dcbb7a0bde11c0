------------------------ MODULE OptimisticMutations ------------------------
(***************************************************************************)
(* Optimistic mutations of one page: their predictions, the named queue     *)
(* that serializes some of them, and the server that answers                *)
(* (packages/browser/src/mutation-optimistic.ts and mutation-queue.ts).     *)
(*                                                                         *)
(* Every mutation is submitted at most once.  Its prediction is recorded    *)
(* when it is submitted; a queued one is sent when it heads the queue.      *)
(* Requests commit at the server, and answers arrive, in any order.         *)
(***************************************************************************)
EXTENDS OptimisticRebaser, Sequences

CONSTANTS
    Queries,    \* query instances loaded in the page's store
    Targets,    \* Targets[m]: the queries m writes and has a transform for
    Queued,     \* the mutations that name the queue; the others are sent at once
    Fragile,    \* the transforms that may throw: <<m, q>> is that of m for q
    MaxDepth,   \* entries the queue holds
    NoReply     \* no answer on its way

\* An answer carries a value of every query it covers.
IsAnswer(r) == \E covers \in SUBSET Queries : r \in [covers -> Value]

ASSUME OptimismAssumption ==
    /\ Targets \in [Mutations -> SUBSET Queries]
    /\ Queued \subseteq Mutations
    /\ Fragile \subseteq Mutations \X Queries
    /\ MaxDepth \in Nat \ {0}
    /\ ~IsAnswer(NoReply)

VARIABLES
    inst,       \* inst[q]: the rebaser's and the store's entry of q
    queue,      \* the entries of the named queue, the head first
    stage,      \* how far the submission of a mutation is
    committed,  \* mutations whose transaction committed at the server
    reply,      \* reply[m]: the answer on its way to the page
    reads       \* the answers of a refetch, a function from the queries read so far

vars == <<inst, queue, stage, committed, reply, reads>>

\* "aborted": the queue's timer gave up and the task has not noticed yet.
Stages == {"new", "waiting", "sent", "aborted", "over"}

\* The mutations whose transforms for q are in threw, a set of transforms.
ThrewOn(q, threw) == {m \in Mutations : <<m, q>> \in threw}

\* What the server computes for q now.
Truth(q) == Effects({m \in committed : q \in Targets[m]})

NoReads == [q \in {} |-> NoReply]

Init ==
    /\ inst = [q \in Queries |-> [shown |-> Effects({}), truth |-> NoTruth, pending |-> {}]]
    /\ queue = <<>>
    /\ stage = [m \in Mutations |-> "new"]
    /\ committed = {}
    /\ reply = [m \in Mutations |-> NoReply]
    /\ reads = NoReads

-----------------------------------------------------------------------------
(* Submitting. *)

\* Predictions are recorded for every target or, if a transform throws, for none; either way the
\* mutation goes on to the queue or to the network.  A full queue refuses it before anything is
\* predicted, which changes nothing.
Predicted(m) ==
    [q \in Queries |-> IF q \in Targets[m] THEN AddChange(inst[q], m) ELSE inst[q]]

\* Mutant: an entry does not wait for the ones before it.
SubmitAtOnce(m) ==
    /\ stage[m] = "new"
    /\ m \in Queued => Len(queue) < MaxDepth
    /\ \/ inst' = Predicted(m)
       \/ (\E q \in Targets[m] : <<m, q>> \in Fragile) /\ UNCHANGED inst
    /\ queue' = IF m \in Queued THEN Append(queue, m) ELSE queue
    /\ stage' = [stage EXCEPT ![m] = "sent"]
    /\ UNCHANGED <<committed, reply, reads>>

Submit(m) ==
    /\ stage[m] = "new"
    /\ m \in Queued => Len(queue) < MaxDepth
    /\ \/ inst' = Predicted(m)
       \/ (\E q \in Targets[m] : <<m, q>> \in Fragile) /\ UNCHANGED inst
    /\ queue' = IF m \in Queued THEN Append(queue, m) ELSE queue
    /\ stage' = [stage EXCEPT ![m] = IF m \in Queued /\ queue # <<>> THEN "waiting" ELSE "sent"]
    /\ UNCHANGED <<committed, reply, reads>>

-----------------------------------------------------------------------------
(* The server.  A request may commit long after the page gave up on it. *)

Commit(m) ==
    /\ stage[m] \in {"sent", "aborted", "over"}
    /\ committed' = committed \cup {m}
    /\ UNCHANGED <<inst, queue, stage, reply, reads>>

\* The queries are re-run after the commit, over whatever has committed by then.  Those the server
\* cannot re-run are not covered.  An answer the page no longer waits for is left out.
Rerun(m) ==
    /\ m \in committed
    /\ stage[m] = "sent"
    /\ reply[m] = NoReply
    /\ \E covers \in SUBSET Targets[m] :
          reply' = [reply EXCEPT ![m] = [q \in covers |-> Truth(q)]]
    /\ UNCHANGED <<inst, queue, stage, committed, reads>>

-----------------------------------------------------------------------------
(* The end of a submission.  Only the head of the queue is in flight; when it ends the next
   entry is sent. *)

\* Mutant: the entry leaves the queue and the next one is not started.
FinishWithoutNext(m, end) ==
    /\ queue' = IF m \in Queued THEN Tail(queue) ELSE queue
    /\ stage' = [stage EXCEPT ![m] = end]
    /\ reply' = [reply EXCEPT ![m] = NoReply]
    /\ UNCHANGED <<committed, reads>>

Finish(m, end) ==
    /\ queue' = IF m \in Queued THEN Tail(queue) ELSE queue
    /\ stage' = [x \in Mutations |->
                   IF x = m THEN end
                   ELSE IF m \in Queued /\ Len(queue) > 1 /\ x = queue[2] THEN "sent"
                   ELSE stage[x]]
    /\ reply' = [reply EXCEPT ![m] = NoReply]
    /\ UNCHANGED <<committed, reads>>

\* Mutant: the whole log of the targets is rolled back.
DiscardedWithSiblings(m, threw) ==
    [q \in Queries |->
        IF q \in Targets[m] THEN DiscardPendingOptimism(inst[q]) ELSE inst[q]]

\* Roll back the predictions of m alone.
Discarded(m, threw) ==
    [q \in Queries |->
        IF q \in Targets[m] THEN SettleWithoutServerTruth(inst[q], m, ThrewOn(q, threw)) ELSE inst[q]]

\* The server names the token of the answered mutation alone.
Settles(m) == {m}

\* Mutant: targets the answer does not cover are left as they are.
ReconciledWhereCovered(m, threw) ==
    [q \in Queries |->
        IF q \in DOMAIN reply[m]
        THEN ApplyServerTruth(Settle(inst[q], m), reply[m][q], Settles(m), ThrewOn(q, threw))
        ELSE inst[q]]

\* Targets without truth are rolled back, the log forgets m, and the truth is applied.
Reconciled(m, threw) ==
    [q \in Queries |->
        IF q \in DOMAIN reply[m]
        THEN ApplyServerTruth(Settle(inst[q], m), reply[m][q], Settles(m), ThrewOn(q, threw))
        ELSE IF q \in Targets[m]
        THEN Settle(SettleWithoutServerTruth(inst[q], m, ThrewOn(q, threw)), m)
        ELSE Settle(inst[q], m)]

Apply(m, threw) ==
    /\ stage[m] = "sent"
    /\ reply[m] # NoReply
    /\ Finish(m, "over")
    /\ inst' = Reconciled(m, threw)

\* A failed response, or a request that failed on its way: it may have committed, or may yet.
Fail(m, threw) ==
    /\ stage[m] = "sent"
    /\ Finish(m, "over")
    /\ inst' = Discarded(m, threw)

\* The timer of the head: the request is aborted, its prediction taken back, the queue advances.
Timeout(m, threw) ==
    /\ m \in Queued
    /\ stage[m] = "sent"
    /\ Finish(m, "aborted")
    /\ inst' = Discarded(m, threw)

\* Mutant: the request is not told to abort, and its task waits for the server.
AbandonAnswered(m, threw) ==
    /\ stage[m] = "aborted"
    /\ m \in committed
    /\ stage' = [stage EXCEPT ![m] = "over"]
    /\ inst' = Discarded(m, threw)
    /\ UNCHANGED <<queue, committed, reply, reads>>

\* Mutant: the late end of a task takes the head off the queue, whoever that is by then.
AbandonFinishing(m, threw) ==
    /\ stage[m] = "aborted"
    /\ inst' = Discarded(m, threw)
    /\ queue # <<>> => Finish(m, "over")
    /\ queue = <<>> => stage' = [stage EXCEPT ![m] = "over"] /\ UNCHANGED <<queue, committed, reply, reads>>

\* The aborted task comes to its own end, takes the prediction back once more, and is ignored.
Abandon(m, threw) ==
    /\ stage[m] = "aborted"
    /\ stage' = [stage EXCEPT ![m] = "over"]
    /\ inst' = Discarded(m, threw)
    /\ UNCHANGED <<queue, committed, reply, reads>>

\* Of the predictions that are re-applied in the step, those in threw throw.
Ends(m, threw) ==
    Apply(m, threw) \/ Fail(m, threw) \/ Timeout(m, threw) \/ Abandon(m, threw)

-----------------------------------------------------------------------------
(* Other writers of the store: the refetch of a page that becomes visible again, the broadcast of
   another tab, a mutation without a transform.  The loader gives them no rebaser. *)

\* A typed read is answered with what has committed by then.  The page refetches its queries one
\* after the other and holds the bodies back until the last one is there.
Read(q) ==
    /\ q \notin DOMAIN reads
    /\ reads' = [p \in DOMAIN reads \cup {q} |-> IF p = q THEN Truth(q) ELSE reads[p]]
    /\ UNCHANGED <<inst, queue, stage, committed, reply>>

\* All bodies are written over what is shown, however old they are by now; the log and its truth
\* are left alone.  Queries whose read failed are skipped.
ApplyReads ==
    /\ reads # NoReads
    /\ inst' = [q \in Queries |->
                   IF q \in DOMAIN reads THEN [inst[q] EXCEPT !.shown = reads[q]] ELSE inst[q]]
    /\ reads' = NoReads
    /\ UNCHANGED <<queue, stage, committed, reply>>

\* One denied, malformed or skewed answer takes the whole batch with it.
DropReads ==
    /\ reads # NoReads
    /\ reads' = NoReads
    /\ UNCHANGED <<inst, queue, stage, committed, reply>>

PageHide ==
    /\ inst' = [q \in Queries |-> DiscardPendingOptimism(inst[q])]
    /\ UNCHANGED <<queue, stage, committed, reply, reads>>

Next ==
    \/ \E m \in Mutations :
          \/ Submit(m)
          \/ Commit(m) \/ Rerun(m)
          \/ \E threw \in SUBSET Fragile : Ends(m, threw)
    \/ \E q \in Queries : Read(q)
    \/ ApplyReads \/ DropReads
    \/ PageHide

Spec == Init /\ [][Next]_vars

\* The queue's timer fires, and an aborted request rejects; nothing is promised of the network.
Fairness ==
    \A m \in Mutations :
        /\ WF_vars(\E threw \in SUBSET Fragile : Timeout(m, threw))
        /\ WF_vars(\E threw \in SUBSET Fragile : Abandon(m, threw))

FairSpec == Spec /\ Fairness

-----------------------------------------------------------------------------
(* Properties. *)

\* Types; a server truth is kept exactly while predictions are pending over it.
TypeOK ==
    /\ inst \in [Queries -> Instance]
    /\ queue \in Seq(Queued)
    /\ stage \in [Mutations -> Stages]
    /\ committed \subseteq Mutations
    /\ DOMAIN reply = Mutations
    /\ \A m \in Mutations : reply[m] = NoReply \/ IsAnswer(reply[m])
    /\ IsAnswer(reads)
    /\ \A q \in Queries : inst[q].truth = NoTruth <=> inst[q].pending = {}

\* What the page falls back to when predictions are taken back is a value of the server: it holds
\* committed effects only, each once.  No rollback freezes a prediction, or a doubled effect, in.
Base(r) == IF r.pending = {} THEN r.shown ELSE r.truth
BaseIsServerTruth ==
    \A q \in Queries, m \in Mutations :
        Base(inst[q])[m] <= IF m \in committed THEN 1 ELSE 0

\* Every effect on the screen is committed or predicted, and one that is shown twice is both: a
\* failed, refused or timed-out mutation that never committed leaves nothing behind.
ScreenExplained ==
    \A q \in Queries, m \in Mutations :
        inst[q].shown[m] <= (IF m \in committed THEN 1 ELSE 0)
                          + (IF m \in inst[q].pending THEN 1 ELSE 0)

\* No two mutations of q are ever in flight together: either they wait for each other in the
\* named queue, or there is one.
Serialized(q) ==
    \A m, n \in Mutations :
        q \in Targets[m] /\ q \in Targets[n] /\ m # n => m \in Queued /\ n \in Queued

\* Naming the queue is what makes the settlement set of one token enough: on a query whose
\* writers all wait for each other no effect is shown twice, whatever is refetched, times out,
\* fails after its commit, or commits after its timeout.
SerializedCountedOnce ==
    \A q \in Queries : Serialized(q) => \A m \in Mutations : inst[q].shown[m] <= 1

\* A pending prediction belongs to a submission that has not ended, which will settle it: none is
\* re-applied over server truth for ever.
PredictionsHaveOwners ==
    \A q \in Queries : \A m \in inst[q].pending : stage[m] \in {"waiting", "sent"}

\* Exactly the head of the queue is in flight, and the queue is never stuck behind an ended head.
HeadInFlight ==
    /\ \A i \in 1 .. Len(queue) : stage[queue[i]] = IF i = 1 THEN "sent" ELSE "waiting"
    /\ \A m \in Queued : stage[m] \in {"waiting", "sent"} => \E i \in 1 .. Len(queue) : queue[i] = m

\* The named queue is a TurnQueue: submissions are sent one at a time, in the order in which they
\* were made and once each, whatever ends the one before; and the late end of a task that timed out
\* neither ends the turn of another nor has one itself ("finished" in MutationQueue.#finish).
Turns == INSTANCE TurnQueue WITH
    Members <- Queued, Depth <- MaxDepth,
    line <- queue,
    turn <- {m \in Queued : stage[m] = "sent"},
    gone <- {m \in Queued : stage[m] \in {"aborted", "over"}}

TurnsTaken == Turns!TurnSpec

\* "A single failure never wipes a concurrent in-flight mutation's prediction": the end of m,
\* failed or answered, takes from the log of a query its own prediction and those whose transforms
\* for that query throw in that very step, and no step but such an end or pagehide takes any.
SiblingsKept ==
    [][\A q \in Queries : \A x \in inst[q].pending \ inst'[q].pending :
          \/ \E m \in Mutations :
                /\ stage'[m] # stage[m]
                /\ \E threw \in SUBSET Fragile : Ends(m, threw)
                /\ x # m => \A threw \in SUBSET Fragile : Ends(m, threw) => <<x, q>> \in threw
          \/ PageHide]_vars

\* Whatever the network does, a queued submission ends: a hung head does not block the tail.
QueuedSubmissionsEnd ==
    \A m \in Queued : stage[m] \in {"waiting", "sent"} ~> stage[m] = "over"

\* The specification's rule for arriving truth: a transform whose write is already folded into it
\* is never counted twice.
NeverDoubleCounted ==
    \A q \in Queries, m \in Mutations : inst[q].shown[m] <= 1
=============================================================================
