---------------------------- MODULE DurableReplay ----------------------------
(***************************************************************************)
(* Mutation replay over the Postgres store: the lifecycle of the requests  *)
(* that carry an idempotency token (mutation.ts, mutation/replay-policy.ts,*)
(* the four-step machine of replay.ts), the statements of                  *)
(* postgres-replay.ts on the rows they share, the operator's release, the  *)
(* end of the principal's epoch and the erasure of its rows.               *)
(*                                                                         *)
(* One action is one statement, or what a request does between two awaits. *)
(* Clocks are readings: a statement takes CURRENT_TIMESTAMP when it begins,*)
(* before it waits for the lock on the watermark, replicas differ, and a   *)
(* database clock may be set back; so every reading may be any of Times.   *)
(***************************************************************************)
EXTENDS Integers, FiniteSets

CONSTANTS
    Keys, Requests, KeyOf, None,
    Fingerprint,  \* of a request's input
    Expires,  \* per key, the end of the token's horizon
    Owned,    \* keys whose principal has an epoch; the others are machine keys
    Slots,    \* admission slots: 1..maxEntries
    Times     \* what a clock may read

ASSUME KeyAssumption ==
    /\ KeyOf \in [Requests -> Keys]
    /\ None \notin Requests
    /\ Owned \subseteq Keys
ASSUME TimeAssumption == Times \subseteq Nat /\ Expires \in [Keys -> Nat \ {0}]

VARIABLES
    rows,       \* _kovo_replay: per key its row, or None
    reclaimed,  \* reclaimed_through, the watermark
    epoch,      \* of the principal: see Epochs
    reqs

vars == <<rows, reclaimed, epoch, reqs>>

\* "open": the tokens were issued in the current epoch. "over": it was advanced
\* or tombstoned since. "deleted" and "receipt": erasePrincipal went on.
Epochs == {"open", "over", "deleted", "receipt"}

Active == {"new", "read", "rebind", "reserve", "insert", "peek", "join", "verify",
           "admit", "handler", "commit", "settle", "publish", "release"}
\* "failed" is every end without an answer that is kept: 409, 429, an error.
\* "stuck" ends without the release, too: an unknown outcome, or a crash.
Over == {"replayed", "answered", "failed", "stuck"}

Row ==
    [owner : Requests,    \* whose reservation it is: its generation
     state : {"pending", "committed"},
     slot : Slots \cup {None}]
ASSUME RowAssumption == None \notin Row

Request ==
    [pc : Active \cup Over,
     swept : BOOLEAN,      \* the retirement before the next statement has run
     attempt : {1, 2},     \* which of the two reserve and join rounds
     busy : SUBSET Slots,  \* slots taken in the snapshot of its insert
     effect : BOOLEAN,     \* its transaction committed
     got : Requests \cup {None},   \* whose answer its read returned
     told : Requests \cup {None}]  \* whose answer it was given

New == [pc |-> "new", swept |-> FALSE, attempt |-> 1, busy |-> {}, effect |-> FALSE,
        got |-> None, told |-> None]

TypeOK ==
    /\ rows \in [Keys -> Row \cup {None}]
    /\ reclaimed \in Nat
    /\ epoch \in Epochs
    /\ reqs \in [Requests -> Request]

Init ==
    /\ rows = [k \in Keys |-> None]
    /\ reclaimed = 0
    /\ epoch = "open"
    /\ reqs = [r \in Requests |-> New]

-----------------------------------------------------------------------------
At(r, pc) == reqs[r].pc = pc
RowOf(r) == rows[KeyOf[r]]
Pending(k) == rows[k] # None /\ rows[k].state = "pending"
Holds(r) == Pending(KeyOf[r]) /\ RowOf(r).owner = r
TakenSlots == {rows[k].slot : k \in {j \in Keys : Pending(j)}}

\* A clock reading at which the token of r is still admissible, or not.
SomeFresh(r) == \E t \in Times : t < Expires[KeyOf[r]]
SomeStale(r) == \E t \in Times : t >= Expires[KeyOf[r]]

\* The principal of r is still in the epoch its token was issued in.
EpochFresh(r) == KeyOf[r] \in Owned => epoch = "open"

Conflicts(r) == RowOf(r) # None /\ Fingerprint[RowOf(r).owner] # Fingerprint[r]

\* What a statement read is over with it, and the rounds with the reservation.
Rounds == {"reserve", "insert", "peek", "join"}
Moved(r, pc) ==
    [reqs[r] EXCEPT !.pc = pc, !.swept = FALSE, !.busy = {}, !.got = None,
                    !.attempt = IF pc \in Rounds THEN @ ELSE 1]
Goto(r, pc) == reqs' = [reqs EXCEPT ![r] = Moved(r, pc)]

-----------------------------------------------------------------------------
(* The statements of postgres-replay.ts *)

\* Mutant: the retirement does not raise the watermark.
RetireUnmarked(r) ==
    /\ reqs[r].pc \in {"read", "reserve", "join"} /\ ~reqs[r].swept
    /\ \E t \in Times :
          rows' = [k \in Keys |-> IF rows[k] # None /\ ~Pending(k) /\ Expires[k] <= t
                                  THEN None ELSE rows[k]]
    /\ reqs' = [reqs EXCEPT ![r].swept = TRUE]
    /\ UNCHANGED <<reclaimed, epoch>>

\* Committed rows whose horizon is over are deleted, and the watermark rises to
\* the latest of them in the same statement. It precedes every other statement.
Retire(r) ==
    /\ reqs[r].pc \in {"read", "reserve", "join"} /\ ~reqs[r].swept
    /\ \E t \in Times :
          LET expired == {k \in Keys : rows[k] # None /\ ~Pending(k) /\ Expires[k] <= t}
          IN /\ rows' = [k \in Keys |-> IF k \in expired THEN None ELSE rows[k]]
             /\ reclaimed' \in {reclaimed} \cup {Expires[k] : k \in expired}
             /\ reclaimed' >= reclaimed /\ \A k \in expired : reclaimed' >= Expires[k]
    /\ reqs' = [reqs EXCEPT ![r].swept = TRUE]
    /\ UNCHANGED epoch

\* The insert begins: its snapshot of the slots is taken before it waits for the
\* lock on the watermark.
SendInsert(r) ==
    /\ At(r, "reserve") /\ reqs[r].swept
    /\ reqs' = [reqs EXCEPT ![r].pc = "insert", ![r].swept = FALSE, ![r].busy = TakenSlots]
    /\ UNCHANGED <<rows, reclaimed, epoch>>

\* Mutant: the watermark is not asked.
CanInsertReclaimed(r, slot) ==
    slot \notin reqs[r].busy \cup TakenSlots /\ RowOf(r) = None

\* The candidate is the first slot that the snapshot shows free. The watermark is
\* read under its lock; the indexes refuse a key or a slot taken since.
CanInsert(r, slot) ==
    /\ slot \notin reqs[r].busy
    /\ \A s \in Slots \ reqs[r].busy : slot <= s
    /\ RowOf(r) = None
    /\ slot \notin TakenSlots
    /\ Expires[KeyOf[r]] > reclaimed

\* The reservation is granted; a token that went stale meanwhile gives it back.
InsertClaim(r) ==
    /\ At(r, "insert")
    /\ SomeFresh(r)
    /\ \E slot \in Slots :
          /\ CanInsert(r, slot)
          /\ rows' = [rows EXCEPT ![KeyOf[r]] =
                         [owner |-> r, state |-> "pending", slot |-> slot]]
    /\ \/ Goto(r, "admit")
       \/ SomeStale(r) /\ Goto(r, "release")
    /\ UNCHANGED <<reclaimed, epoch>>

\* No row was inserted: the next statement looks at the row in the way.
InsertRefused(r) ==
    /\ At(r, "insert")
    /\ SomeStale(r) \/ \A slot \in Slots : ~CanInsert(r, slot)
    /\ Goto(r, "peek")
    /\ UNCHANGED <<rows, reclaimed, epoch>>

Peek(r) ==
    /\ At(r, "peek")
    /\ Goto(r, IF Conflicts(r) THEN "failed" ELSE "join")
    /\ UNCHANGED <<rows, reclaimed, epoch>>

\* The pending claim becomes the answer, unless it is not there any more or its
\* horizon is over.
CommitRow(r) ==
    /\ Holds(r)
    /\ SomeFresh(r)
    /\ Expires[KeyOf[r]] > reclaimed
    /\ rows' = [rows EXCEPT ![KeyOf[r]].state = "committed", ![KeyOf[r]].slot = None]

AbortRow(r) ==
    rows' = IF Holds(r) THEN [rows EXCEPT ![KeyOf[r]] = None] ELSE rows

-----------------------------------------------------------------------------
(* The lifecycle: replay.read, then the rounds of replay.reserve *)

\* Both bind the request to the epoch, and refuse tokens issued before it.
Bind(r) ==
    /\ reqs[r].pc \in {"new", "rebind"}
    /\ IF EpochFresh(r) THEN Goto(r, IF At(r, "new") THEN "read" ELSE "reserve")
                        ELSE Goto(r, "failed")
    /\ UNCHANGED <<rows, reclaimed, epoch>>

\* The wrappers of get and reserve ask the clock before every call.
GoStale(r) ==
    /\ reqs[r].pc \in {"new", "read", "rebind", "reserve", "join"} /\ ~reqs[r].swept
    /\ SomeStale(r)
    /\ Goto(r, "failed")
    /\ UNCHANGED <<rows, reclaimed, epoch>>

\* Where a lookup that found no answer goes on.
AfterMiss(r) ==
    IF At(r, "read") THEN "rebind"
    ELSE IF reqs[r].attempt = 1 THEN "reserve" ELSE "failed"

\* Mutant: the second round counts on.
MissCounting(r) ==
    reqs' = [reqs EXCEPT ![r].pc = AfterMiss(r), ![r].swept = FALSE,
                         ![r].attempt = IF At(r, "join") THEN @ + 1 ELSE @]

Miss(r) ==
    reqs' = [reqs EXCEPT ![r].pc = AfterMiss(r), ![r].swept = FALSE,
                         ![r].attempt = IF At(r, "join") THEN 2 ELSE @]

Looking(r) == reqs[r].pc \in {"read", "join"} /\ reqs[r].swept

\* A poll finds an answer: the wrappers check token and epoch before it is given.
Find(r) ==
    /\ Looking(r)
    /\ RowOf(r) # None /\ ~Pending(KeyOf[r]) /\ ~Conflicts(r) /\ SomeFresh(r)
    /\ reqs' = [reqs EXCEPT ![r].pc = "verify", ![r].got = RowOf(r).owner,
                            ![r].swept = FALSE]
    /\ UNCHANGED <<rows, reclaimed, epoch>>

\* A poll finds no row, or one whose horizon is over.
FindNothing(r) ==
    /\ Looking(r)
    /\ \/ RowOf(r) = None
       \/ ~Pending(KeyOf[r]) /\ ~Conflicts(r) /\ SomeStale(r)
    /\ Miss(r)
    /\ UNCHANGED <<rows, reclaimed, epoch>>

\* Mutant: polls without a bound.
StopWaitingNever(r) == FALSE

\* The claim is still pending when pendingWaitMs is over.
StopWaiting(r) ==
    /\ Looking(r)
    /\ Pending(KeyOf[r]) /\ ~Conflicts(r)
    /\ Miss(r)
    /\ UNCHANGED <<rows, reclaimed, epoch>>

FindConflict(r) ==
    /\ Looking(r)
    /\ Conflicts(r)
    /\ Goto(r, "failed")
    /\ UNCHANGED <<rows, reclaimed, epoch>>

Verify(r) ==
    /\ At(r, "verify")
    /\ \/ /\ EpochFresh(r) /\ SomeFresh(r)
          /\ reqs' = [reqs EXCEPT ![r].pc = "replayed", ![r].told = reqs[r].got, ![r].got = None]
       \/ ~EpochFresh(r) /\ Goto(r, "failed")
       \/ SomeStale(r) /\ Goto(r, "failed")
    /\ UNCHANGED <<rows, reclaimed, epoch>>

-----------------------------------------------------------------------------
(* The run: handler in a transaction, then settlement *)

\* Mutant: the lookup of the read is trusted.
AdmitUnchecked(r) ==
    /\ At(r, "admit")
    /\ Goto(r, "handler")
    /\ UNCHANGED <<rows, reclaimed, epoch>>

\* The epoch is looked up again before the handler runs: it is over, or the
\* lookup fails.
Admit(r) ==
    /\ At(r, "admit")
    /\ \/ EpochFresh(r) /\ Goto(r, "handler")
       \/ KeyOf[r] \in Owned /\ Goto(r, "release")
    /\ UNCHANGED <<rows, reclaimed, epoch>>

\* A handler that returns is asked for its epoch once more before COMMIT.
HandlerReturns(r) ==
    /\ At(r, "handler")
    /\ IF EpochFresh(r) THEN Goto(r, "commit") ELSE Goto(r, "release")
    /\ UNCHANGED <<rows, reclaimed, epoch>>

\* Mutant: the retryable failure does not release.
HandlerFailsUnreleased(r) ==
    /\ At(r, "handler")
    /\ Goto(r, "failed")
    /\ UNCHANGED <<rows, reclaimed, epoch>>

\* It throws, or fails in a way that may be retried: rolled back and released.
HandlerFails(r) ==
    /\ At(r, "handler")
    /\ Goto(r, "release")
    /\ UNCHANGED <<rows, reclaimed, epoch>>

\* It declares a failure: rolled back, and the failure is the answer.
HandlerDeclines(r) ==
    /\ At(r, "handler")
    /\ Goto(r, "settle")
    /\ UNCHANGED <<rows, reclaimed, epoch>>

Commits(r) ==
    /\ At(r, "commit")
    /\ reqs' = [reqs EXCEPT ![r].pc = "settle", ![r].effect = TRUE]
    /\ UNCHANGED <<rows, reclaimed, epoch>>

\* The adapter fails after the callback completed: nobody knows whether the
\* transaction committed, and the claim stays.
CommitAmbiguous(r) ==
    /\ At(r, "commit")
    /\ \E committed \in BOOLEAN :
          reqs' = [reqs EXCEPT ![r].pc = "stuck", ![r].effect = committed]
    /\ UNCHANGED <<rows, reclaimed, epoch>>

\* Mutant: every failed settlement releases the claim.
FailSettlementReleased(r) == Goto(r, "release")

\* A settlement that fails keeps the claim if the transaction committed.
FailSettlement(r) ==
    IF reqs[r].effect THEN Goto(r, "stuck") ELSE Goto(r, "release")

\* Rendering or streaming may fail, the token or the epoch may be over.
Settle(r) ==
    /\ At(r, "settle")
    /\ \/ EpochFresh(r) /\ SomeFresh(r) /\ Goto(r, "publish")
       \/ FailSettlement(r)
    /\ UNCHANGED <<rows, reclaimed, epoch>>

Publish(r) ==
    /\ At(r, "publish")
    /\ \/ CommitRow(r) /\ Goto(r, "answered")
       \/ UNCHANGED rows /\ FailSettlement(r)
    /\ UNCHANGED <<reclaimed, epoch>>

Abort(r) ==
    /\ At(r, "release")
    /\ AbortRow(r)
    /\ Goto(r, "failed")
    /\ UNCHANGED <<reclaimed, epoch>>

\* The process dies, or the connection of a statement does: the request ends
\* where it stands, its transaction rolled back unless COMMIT was on its way.
Crash(r) ==
    /\ reqs[r].pc \in Active \ {"new"}
    /\ \E committed \in BOOLEAN :
          /\ committed => At(r, "commit")
          /\ reqs' = [reqs EXCEPT ![r].pc = "stuck", ![r].effect = @ \/ committed]
    /\ UNCHANGED <<rows, reclaimed, epoch>>

-----------------------------------------------------------------------------
(* Operator and principal *)

\* releasePendingReplay: a confirmed orphan, whose transaction did not commit.
OperatorRelease(r) ==
    /\ At(r, "stuck") /\ ~reqs[r].effect
    /\ Holds(r)
    /\ AbortRow(r)
    /\ UNCHANGED <<reclaimed, epoch, reqs>>

\* The epoch is advanced, or tombstoned by the erasure.
EndEpoch ==
    /\ epoch = "open"
    /\ epoch' = "over"
    /\ UNCHANGED <<rows, reclaimed, reqs>>

OwnedRows == {k \in Owned : rows[k] # None}

\* erasePrincipal deletes every row of the principal, pending ones too, and
\* leaves the watermark alone.
EraseRows ==
    /\ epoch = "over"
    /\ rows' = [k \in Keys |-> IF k \in Owned THEN None ELSE rows[k]]
    /\ epoch' = "deleted"
    /\ UNCHANGED <<reclaimed, reqs>>

\* The absence probe: a receipt, or an error and another erasure.
Probe ==
    /\ epoch = "deleted"
    /\ epoch' = IF OwnedRows = {} THEN "receipt" ELSE "over"
    /\ UNCHANGED <<rows, reclaimed, reqs>>

-----------------------------------------------------------------------------
Step(r) ==
    \/ Bind(r) \/ GoStale(r) \/ Retire(r) \/ SendInsert(r) \/ InsertClaim(r)
    \/ InsertRefused(r) \/ Peek(r) \/ Find(r) \/ FindNothing(r) \/ StopWaiting(r) \/ FindConflict(r)
    \/ Verify(r) \/ Admit(r) \/ HandlerReturns(r) \/ HandlerFails(r)
    \/ HandlerDeclines(r) \/ Commits(r) \/ CommitAmbiguous(r) \/ Settle(r)
    \/ Publish(r) \/ Abort(r)

Next ==
    \/ \E r \in Requests : Step(r) \/ Crash(r) \/ OperatorRelease(r)
    \/ EndEpoch \/ EraseRows \/ Probe

Spec == Init /\ [][Next]_vars

\* A request that was sent goes on: statements return, handlers settle, polls
\* are bounded by pendingWaitMs. Crashes, operators and erasure are not fair.
FairSpec == Spec /\ \A r \in Requests : WF_vars(~At(r, "new") /\ Step(r))

-----------------------------------------------------------------------------
(* What it promises *)

Effects == [k \in Keys |-> {r \in Requests : KeyOf[r] = k /\ reqs[r].effect}]

Answered(k) == {r \in Requests : KeyOf[r] = k /\ At(r, "answered")}
AnyOf(S) == IF S = {} THEN None ELSE CHOOSE r \in S : TRUE
Answers == [k \in Keys |-> AnyOf(Answered(k))]

Told == [r \in Requests |-> reqs[r].told]

Once == INSTANCE OnceOnly WITH done <- Effects, answer <- Answers, told <- Told

\* A token is worked off at most once, and its answer tells of that work, with
\* crashes, clocks that go back, reclaimed rows and erased ones
\* (reserveReplayBeforeRun, commit and reserve of postgres-replay.ts).
EffectsOnce == Once!EffectsOnce

\* The store and the lifecycle implement what replay promises: in particular
\* every retry that is answered is told the answer of its token.
OnceImplemented == Once!OnceSpec

\* A claim outlives its request only where the outcome is unknown or cannot be
\* published: every other way to end has released it (the aborts of mutation.ts).
ClaimsReleased ==
    \A r \in Requests : Holds(r) => reqs[r].pc \in Active \cup {"stuck"}

\* An effect is never forgotten while its token could be admitted: its claim or its answer is in
\* the store, or the watermark has passed its horizon, or the epoch of its token is over
\* (the watermark of the retirement, the fences of commit and release, admission by epoch).
EffectsRemembered ==
    \A r \in Requests : reqs[r].effect =>
        \/ RowOf(r) # None /\ RowOf(r).owner = r
        \/ reclaimed >= Expires[KeyOf[r]]
        \/ ~EpochFresh(r)

\* A request that is refused, fails or is told another one's answer has changed nothing itself, so
\* a failure may be tried again: a mutation that crossed its transaction boundary never ends as a
\* failure that gives its claim back, whatever its settlement does.
FailuresChangeNothing ==
    \A r \in Requests : reqs[r].pc \in {"failed", "replayed"} => ~reqs[r].effect

\* Once the principal's rows are erased and probed, no answer of it comes back,
\* and no claim of it gets to a commit (erasePrincipal, admission by epoch).
ErasedStaysErased ==
    epoch = "receipt" =>
        \A k \in OwnedRows :
            Pending(k) /\ reqs[rows[k].owner].pc \notin {"handler", "commit", "settle", "publish"}

\* A request that was sent is answered, refused or given up, whoever holds the
\* claim it waits for (pendingWaitMs of readSettled).
RequestsEnd == \A r \in Requests : ~At(r, "new") ~> reqs[r].pc \in Over
=============================================================================
