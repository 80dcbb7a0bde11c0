----------------------------- MODULE TaskRunner -----------------------------
(***************************************************************************)
(* The runner nodes that drain the job table: DurableTaskRunner            *)
(* (packages/server/src/task-runner.ts) on every node, the request side    *)
(* that schedules and cancels (task-runtime.ts), and the table they share  *)
(* (TaskQueue).                                                            *)
(*                                                                         *)
(* A node ticks: it reaps expired leases, claims due jobs one statement at *)
(* a time while it has room, runs the batch, and ticks again when every    *)
(* job of the batch is settled.  A claim is an execution; execution t is   *)
(* the one whose lease token is the t-th minted.  Between two store calls  *)
(* of one node every other node, body, timer or request may act, and the   *)
(* node may crash.                                                         *)
(***************************************************************************)
EXTENDS TaskQueue, Sequences

CONSTANTS
    Nodes,
    OwnerOf,      \* the owner string of a node: one per pid, so nodes share it
    Registered,   \* per node, the task keys of its registry
    Retry,        \* per node, taskMaxAttempts of the definitions it registers
    Concurrency,  \* per task, its cap on one node
    BatchSize,
    MaxInFlight,
    ChildInputs,  \* what task bodies schedule
    Crashable,    \* nodes that may crash
    Faulty        \* nodes whose store calls may throw

ASSUME NodeAssumption ==
    /\ OwnerOf \in [Nodes -> Owners]
    /\ Registered \in [Nodes -> SUBSET Tasks]
    /\ Crashable \subseteq Nodes /\ Faulty \subseteq Nodes
ASSUME CapacityAssumption ==
    /\ BatchSize \in Nat \ {0} /\ MaxInFlight \in 1..BatchSize
    /\ Concurrency \in [Tasks -> Nat \ {0}]
ASSUME RetryAssumption ==
    \A n \in Nodes, t \in Tasks : Retry[n][t] \in 1..Ceiling[t]
ASSUME ChildAssumption == ChildInputs \subseteq Inputs

VARIABLES
    tick,   \* per node: "down", "idle", "claim" or "drain"
    execs   \* the executions, one per claim, in the order of their tokens

runnerVars == <<tick, execs>>
vars == <<rows, spent, minted, tick, execs>>

Exec ==
    [node : Nodes, job : Jobs, task : Tasks, args : Args, generation : Nat,
     principal : Principals \cup {NoPrincipal},
     phase : {"claimed", "running", "succeeding", "failing", "done", "lost"},
     body : {"off", "live", "ok"},  \* "ok": it returned while it was waited for
     slot : BOOLEAN,   \* it is counted in inFlight and inFlightByTask
     batch : BOOLEAN]  \* the running tick waits for it

Tokens == DOMAIN execs
ExecsOf(n, phase) == {t \in Tokens : execs[t].node = n /\ execs[t].phase = phase}
Owner(t) == OwnerOf[execs[t].node]

-----------------------------------------------------------------------------
(* Claiming: claimAvailable and claimableTaskKeys *)

\* Executions that count against a cap: slots held, and jobs claimed but not
\* started by this tick.
Busy(n) == {t \in Tokens : execs[t].node = n
                           /\ (execs[t].slot \/ execs[t].phase = "claimed")}

BusyOn(n, task) == {t \in Busy(n) : execs[t].task = task}

ClaimableKeys(n) ==
    {task \in Registered[n] : Cardinality(BusyOn(n, task)) < Concurrency[task]}

HasRoom(n) ==
    /\ Cardinality(ExecsOf(n, "claimed")) < BatchSize
    /\ Cardinality(Busy(n)) < MaxInFlight
    /\ ClaimableKeys(n) # {}

Claim(n, j, phase) ==
    [node |-> n, job |-> j, task |-> rows[j].task, args |-> rows[j].args,
     generation |-> rows[j].generation, principal |-> rows[j].principal,
     phase |-> phase, body |-> "off", slot |-> FALSE, batch |-> FALSE]

-----------------------------------------------------------------------------
(* The tick: runOnce *)

\* Mutant: ticks claim without reaping first.
StartTickUnreaped(n) ==
    /\ tick[n] = "idle"
    /\ tick' = [tick EXCEPT ![n] = "claim"]
    /\ UNCHANGED <<rows, spent, minted, execs>>

\* The tick opens with the reaper, which may take jobs of other nodes back.
StartTick(n) ==
    /\ tick[n] = "idle"
    /\ ReapExpiredLeases
    /\ tick' = [tick EXCEPT ![n] = "claim"]
    /\ UNCHANGED execs

\* A reaper that throws ends the tick before it claims anything.
AbortTick(n) ==
    /\ tick[n] = "idle"
    /\ \/ ReapRejected
       \/ n \in Faulty /\ ReapExpiredLeases
    /\ UNCHANGED runnerVars

ClaimNext(n) ==
    /\ tick[n] = "claim"
    /\ HasRoom(n)
    /\ \E j \in Present :
          /\ ClaimDue(j, ClaimableKeys(n), OwnerOf[n])
          /\ execs' = Append(execs, Claim(n, j, "claimed"))
    /\ UNCHANGED tick

\* The executions once every job n has claimed and not started is dropped.
Dropped(n) ==
    [t \in Tokens |-> IF t \in ExecsOf(n, "claimed")
                      THEN [execs[t] EXCEPT !.phase = "lost"] ELSE execs[t]]

\* A claim that throws ends the tick: the jobs it had claimed keep their lease
\* and are never run. The statement may have been applied before the error.
ClaimThrows(n) ==
    /\ n \in Faulty
    /\ tick[n] = "claim"
    /\ HasRoom(n)
    /\ \/ UNCHANGED queueVars /\ execs' = Dropped(n)
       \/ \E j \in Present :
             /\ ClaimDue(j, ClaimableKeys(n), OwnerOf[n])
             /\ execs' = Append(Dropped(n), Claim(n, j, "lost"))
    /\ tick' = [tick EXCEPT ![n] = "idle"]

\* runTrackedJob on every claimed job: each takes a slot and starts its body.
\* Nothing looks at the lease again before the bodies start. The claims end
\* when there is no room or claimDue answers no row, as it may at any time: rows
\* that are locked, or due only since the tick began, are passed over.
RunBatch(n) ==
    /\ tick[n] = "claim"
    /\ execs' = [t \in Tokens |->
                    IF t \in ExecsOf(n, "claimed")
                    THEN [execs[t] EXCEPT !.phase = "running", !.body = "live",
                                          !.slot = TRUE, !.batch = TRUE]
                    ELSE execs[t]]
    /\ tick' = [tick EXCEPT ![n] = "drain"]
    /\ UNCHANGED queueVars

\* Nobody waits for the batch of n any more.
Unbatched(table, n) ==
    [t \in DOMAIN table |-> IF table[t].node = n
                            THEN [table[t] EXCEPT !.batch = FALSE] ELSE table[t]]

\* Promise.all over the batch resolved: the next tick may start.
EndTick(n) ==
    /\ tick[n] = "drain"
    /\ \A t \in Tokens : (execs[t].node = n /\ execs[t].batch)
                            => execs[t].phase = "done"
    /\ tick' = [tick EXCEPT ![n] = "idle"]
    /\ execs' = Unbatched(execs, n)
    /\ UNCHANGED queueVars

-----------------------------------------------------------------------------
(* One execution: runWithDeadline and its timers *)

\* The body returns, or throws; a rejected input is a body that throws at once.
BodyEnds(t, body, phase) ==
    /\ execs[t].phase = "running"
    /\ execs' = [execs EXCEPT ![t].body = body, ![t].phase = phase]
    /\ UNCHANGED <<rows, spent, minted, tick>>

BodyReturns(t) == BodyEnds(t, "ok", "succeeding")
BodyThrows(t) == BodyEnds(t, "off", "failing")

\* Mutant: the settling of an abandoned body releases nothing.
ZombieKeepsSlot(t) ==
    /\ execs[t].body = "live"
    /\ execs[t].phase # "running"
    /\ execs' = [execs EXCEPT ![t].body = "off"]
    /\ UNCHANGED <<rows, spent, minted, tick>>

\* A body nobody waits for any more settles: its outcome is ignored, and its
\* slot is given back if the job is settled too.
ZombieSettles(t) ==
    /\ execs[t].body = "live"
    /\ execs[t].phase # "running"
    /\ execs' = [execs EXCEPT ![t].body = "off",
                              ![t].slot = @ /\ execs[t].phase # "done"]
    /\ UNCHANGED <<rows, spent, minted, tick>>

\* The deadline or a lost lease aborts the signal and stops waiting for the
\* body, which runs on.
Interrupt(t) ==
    /\ execs[t].phase = "running"
    /\ execs' = [execs EXCEPT ![t].phase = "failing"]
    /\ UNCHANGED <<rows, spent, minted, tick>>

TimesOut(t) == Interrupt(t)

\* A heartbeat that finds the fence broken, or throws, is a lost lease.
LosesLease(t) ==
    /\ ~Holds(execs[t].job, Owner(t), t) \/ execs[t].node \in Faulty
    /\ Interrupt(t)

\* A heartbeat sent while the body ran may reach the table after it settled.
Beats(t) ==
    /\ execs[t].phase \in {"running", "succeeding", "failing"}
    /\ Heartbeat(execs[t].job, Owner(t), t)
    /\ UNCHANGED runnerVars

\* ctx.schedule is refused once the signal is aborted or the body has settled; what
\* was sent before may reach the table long after.
BodySchedules(t) ==
    /\ execs[t].phase \in {"running", "succeeding", "failing", "done"}
    /\ \E in \in ChildInputs :
          /\ in.task \in Registered[execs[t].node]
          /\ Enqueue(in, execs[t].generation + 1, execs[t].principal)
    /\ UNCHANGED runnerVars

-----------------------------------------------------------------------------
(* Settlements: runJob after the body *)

\* Mutant: the slot is released as soon as the job is settled.
SettledFreesSlot(t) ==
    execs' = [execs EXCEPT ![t].phase = "done", ![t].slot = FALSE]

\* The slot is released now, or when the abandoned body settles.
Settled(t) ==
    execs' = [execs EXCEPT ![t].phase = "done", ![t].slot = @ /\ execs[t].body = "live"]

\* false from the store is reported and otherwise ignored.
Succeeds(t) ==
    /\ execs[t].phase = "succeeding"
    /\ \/ MarkSucceeded(execs[t].job, Owner(t), t)
       \/ ~Holds(execs[t].job, Owner(t), t) /\ UNCHANGED queueVars
    /\ Settled(t)
    /\ UNCHANGED tick

\* markSucceeded is inside the try block: an error of the store, which may
\* have applied the statement, sends the job to markFailed.
SucceedThrows(t) ==
    /\ execs[t].phase = "succeeding"
    /\ execs[t].node \in Faulty
    /\ MarkSucceeded(execs[t].job, Owner(t), t) \/ UNCHANGED queueVars
    /\ execs' = [execs EXCEPT ![t].phase = "failing"]
    /\ UNCHANGED tick

\* Mutant: one attempt too many.
RetryCeilingOneMore(t) == Retry[execs[t].node][execs[t].task] + 1

RetryCeiling(t) == Retry[execs[t].node][execs[t].task]

\* Mutant: the failure is reported and never persisted.
FailsUnpersisted(t) ==
    /\ execs[t].phase = "failing"
    /\ Settled(t)
    /\ UNCHANGED <<rows, spent, minted, tick>>

\* A retry is at least a second away, so it is not due yet.
Fails(t) ==
    /\ execs[t].phase = "failing"
    /\ \/ MarkFailed(execs[t].job, Owner(t), t, RetryCeiling(t), FALSE)
       \/ ~Holds(execs[t].job, Owner(t), t) /\ UNCHANGED queueVars
    /\ Settled(t)
    /\ UNCHANGED tick

\* markFailed throws: the unique index refuses the retry, or the store fails
\* before or after it applied the statement.
MarkFailedThrows(t) ==
    \/ MarkFailedRejected(execs[t].job, Owner(t), t, RetryCeiling(t), FALSE)
    \/ /\ execs[t].node \in Faulty
       /\ \/ UNCHANGED queueVars
          \/ MarkFailed(execs[t].job, Owner(t), t, RetryCeiling(t), FALSE)

\* runJob then rejects: the slot is released even if the body runs on, and
\* Promise.all ends the tick that waits for the batch.
FailThrows(t) ==
    LET n == execs[t].node
        done == [execs EXCEPT ![t].phase = "done", ![t].slot = FALSE]
    IN  /\ execs[t].phase = "failing"
        /\ MarkFailedThrows(t)
        /\ IF execs[t].batch
           THEN tick' = [tick EXCEPT ![n] = "idle"] /\ execs' = Unbatched(done, n)
           ELSE UNCHANGED tick /\ execs' = done

-----------------------------------------------------------------------------
(* Crashes, requests and time *)

\* The process dies with its bodies; its rows keep their leases.
Crash(n) ==
    /\ n \in Crashable
    /\ tick[n] # "down"
    /\ tick' = [tick EXCEPT ![n] = "down"]
    /\ execs' = [t \in Tokens |->
                    IF execs[t].node # n THEN execs[t]
                    ELSE [execs[t] EXCEPT
                            !.phase = IF @ = "done" THEN @ ELSE "lost",
                            !.body = IF @ = "live" THEN "off" ELSE @,
                            !.slot = FALSE, !.batch = FALSE]]
    /\ UNCHANGED queueVars

Boot(n) ==
    /\ tick[n] = "down"
    /\ tick' = [tick EXCEPT ![n] = "idle"]
    /\ UNCHANGED <<rows, spent, minted, execs>>

\* request.schedule and request.cancel, at the commit of their transaction.
RequestSchedules ==
    /\ \E in \in Inputs, who \in Principals \cup {NoPrincipal} : Enqueue(in, 0, who)
    /\ UNCHANGED runnerVars

RequestCancels == (\E j \in Present : Cancel(j)) /\ UNCHANGED runnerVars

Erases == (\E who \in Principals : ErasePrincipal(who)) /\ UNCHANGED runnerVars

JobComesDue(j) == BecomesDue(j) /\ UNCHANGED runnerVars
JobLeaseExpires(j) == LeaseExpires(j) /\ UNCHANGED runnerVars

-----------------------------------------------------------------------------
Init ==
    /\ QueueInit
    /\ tick = [n \in Nodes |-> "idle"]
    /\ execs = <<>>

NodeStep(n) ==
    \/ StartTick(n) \/ AbortTick(n) \/ ClaimNext(n) \/ ClaimThrows(n)
    \/ RunBatch(n) \/ EndTick(n) \/ Crash(n) \/ Boot(n)

ExecStep(t) ==
    \/ BodyReturns(t) \/ BodyThrows(t) \/ ZombieSettles(t) \/ TimesOut(t) \/ LosesLease(t) \/ Beats(t)
    \/ BodySchedules(t) \/ Succeeds(t) \/ SucceedThrows(t)
    \/ Fails(t) \/ FailThrows(t)

Next ==
    \/ \E n \in Nodes : NodeStep(n)
    \/ \E t \in Tokens : ExecStep(t)
    \/ RequestSchedules \/ RequestCancels \/ Erases
    \/ \E j \in Present : JobComesDue(j) \/ JobLeaseExpires(j)

Spec == Init /\ [][Next]_vars

\* What liveness rests on. One node neither crashes nor meets store errors, and
\* its event loop turns (the timers of scheduleTick); no transaction has a due
\* row locked at every poll, so polls that could claim one do; every body that started
\* settles, since the code cannot preempt it; what runJob does next is
\* synchronous or a store call that returns or throws; wall clocks advance.
\* "tokens" are the tokens a behaviour can mint.
Healthy == Nodes \ (Crashable \cup Faulty)

Fairness(tokens) ==
    /\ \A n \in Healthy :
          /\ WF_vars(StartTick(n)) /\ SF_vars(ClaimNext(n))
          /\ WF_vars(RunBatch(n)) /\ WF_vars(EndTick(n))
    /\ \A t \in tokens :
          /\ WF_vars(t \in Tokens /\ (BodyReturns(t) \/ BodyThrows(t) \/ ZombieSettles(t)))
          /\ WF_vars(t \in Tokens /\ (Succeeds(t) \/ SucceedThrows(t)))
          /\ WF_vars(t \in Tokens /\ (Fails(t) \/ FailThrows(t)))
    /\ \A j \in Jobs :
          /\ WF_vars(j \in Present /\ JobComesDue(j))
          /\ WF_vars(j \in Present /\ JobLeaseExpires(j))

-----------------------------------------------------------------------------
(* Properties *)

\* The state is well formed, and the executions are the tokens minted: claimDue
\* mints one for every claim the runner records, a claim that throws included.
TypeOK ==
    /\ QueueTypeOK
    /\ tick \in [Nodes -> {"down", "idle", "claim", "drain"}]
    /\ execs \in Seq(Exec)
    /\ Len(execs) = minted

ClaimsOf(j) == {t \in Tokens : execs[t].job = j}
Holding(t) == Holds(execs[t].job, Owner(t), t)

\* A job is recorded as succeeded only if the body of its newest claim returned
\* normally: no zombie of an earlier claim, on this node or another one with
\* the same owner string, can finish the job for its successor (the owner and
\* token fence of markSucceeded, reached through runJob).
SuccessIsEarned ==
    \A j \in With("succeeded") :
        \E t \in ClaimsOf(j) :
            execs[t].body = "ok" /\ \A u \in ClaimsOf(j) : u <= t

\* A node loses a lease only to time: if a step takes the row from execution t
\* and t did not settle it in that step, then the lease had expired (or the
\* principal was erased). Ticks of other nodes, claims, requests and the
\* zombies of the same job never do it.
LeaseLostOnlyByExpiry ==
    [][\A t \in Tokens :
          (/\ Holding(t) /\ ~Holding(t)'
           /\ execs'[t].phase = execs[t].phase)
          => \/ rows[execs[t].job].expired
             \/ execs[t].job \notin DOMAIN rows']_vars

\* Every claim costs one attempt and every attempt is a claim, so the ceiling
\* on attempts bounds the executions (claimDue against the resets that retries,
\* the reaper and coalescing schedules do not make).
AttemptsAreClaims ==
    \A j \in Present : rows[j].attempts = Cardinality(ClaimsOf(j))

\* The bodies that really run on the nodes N, the abandoned ones included, are
\* within maxInFlight and within the concurrency cap of their task.
BodiesWithinCaps(N) ==
    \A n \in N :
        LET live == {t \in Tokens : execs[t].node = n /\ execs[t].body = "live"}
        IN  /\ Cardinality(live) <= MaxInFlight
            /\ \A task \in Tasks :
                  Cardinality({t \in live : execs[t].task = task}) <= Concurrency[task]

\* While its store calls return, a node never runs more bodies than its caps
\* allow, timed out bodies included (runTrackedJob keeps the slot until the
\* abandoned body settles, and claimableTaskKeys counts the claims it holds).
HealthyBodiesCapped == BodiesWithinCaps(Nodes \ Faulty)

\* The same of every node, whatever the store does.
BodiesCapped == BodiesWithinCaps(Nodes)

\* On a node whose store calls return, the execution of an unkeyed job that is
\* over has let its row go, so only a crash leaves a row that only the reaper can
\* free (every path of runJob out of the body ends in a settlement).
FinishedClaimsReleased ==
    \A t \in Tokens :
        (execs[t].node \notin Faulty /\ execs[t].phase = "done" /\ Holding(t))
            => rows[execs[t].job].key # NoKey

\* A lineage is never executed past its generation ceiling, whatever coalesces
\* with its links (generationStatus against the debounce that keeps the
\* generation of the ready row).
GenerationsBounded ==
    \A t \in Tokens : execs[t].generation <= MaxGenerations

\* Every ready job is eventually finished, cancelled, erased or dead-lettered.
ReadyJobsSettle ==
    \A j \in Jobs :
        (j \in With("ready")) ~> (j \notin Present \/ rows[j].status \in Terminal)

\* The reaper takes back every lease that stays expired.
ExpiredLeasesReaped == \A j \in Jobs : (j \in Expired) ~> (j \notin Expired)

\* A schedule of the task may replace the arguments of a job that waits.
Debounced(task) ==
    \E in \in Inputs : in.task = task /\ in.key # NoKey /\ in.coalesce = "debounce"

\* The claims of one job run one task in one generation of its lineage, and a retry or a
\* redelivery runs the arguments of the claim before it, for the same principal, unless some
\* schedule of the task debounces: throttled schedules, erasure followed by a new schedule,
\* children and late settlements never change what a job does (enqueueThrottle writes neither,
\* and ids are not used again).
RetriesRunAlike ==
    \A t, u \in Tokens :
        execs[t].job = execs[u].job =>
            /\ execs[t].task = execs[u].task
            /\ execs[t].generation = execs[u].generation
            /\ \/ execs[t].args = execs[u].args /\ execs[t].principal = execs[u].principal
               \/ Debounced(execs[t].task)

\* The claims of one job id run the same arguments, so that the job id names
\* one effect.
JobIdNamesOneEffect ==
    \A t, u \in Tokens : execs[t].job = execs[u].job => execs[t].args = execs[u].args

=============================================================================
