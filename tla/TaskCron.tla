------------------------------ MODULE TaskCron ------------------------------
(***************************************************************************)
(* The materializer of recurring tasks (packages/server/src/task-cron.ts)  *)
(* and the loop that drives it on every node (task-runtime.ts).            *)
(*                                                                         *)
(* For each due occurrence a node sends three statements, each committed   *)
(* by itself: reserve a row of _kovo_task_cron_occurrences, enqueue a job  *)
(* in the table of TaskQueue, bind the job to the reservation.  Between    *)
(* two of them other nodes act, the job may run, the node may crash, and a *)
(* statement may throw before or after it took effect.                     *)
(*                                                                         *)
(* Instants are the minutes 1..Horizon; which of them a cron expression    *)
(* matches is the constant Fires.                                          *)
(***************************************************************************)
EXTENDS TaskQueue

CONSTANTS
    Nodes, Crashable, Faulty,  \* as in TaskRunner
    Horizon,
    Fires,          \* per task, the minutes its cron expression matches
    CatchUp,        \* per task, "skip" or "backfill"
    BackfillLimit

ASSUME CronAssumption ==
    /\ Horizon \in Nat
    /\ Fires \in [Tasks -> SUBSET (1..Horizon)]
    /\ CatchUp \in [Tasks -> {"skip", "backfill"}]
    /\ BackfillLimit \in Nat \ {0}
    /\ Crashable \subseteq Nodes /\ Faulty \subseteq Nodes

\* An occurrence is a task and a minute; its key in the job table is its frame.
Occurrences == {<<task, at>> : task \in Tasks, at \in 1..Horizon}

ASSUME KeyAssumption == Occurrences \subseteq Keys
ASSUME ArgsAssumption == Args # {}

VARIABLES
    clock,     \* the database clock, in minutes
    reserved,  \* the occurrences that have a row
    bound,     \* the job_id column, a partial function from occurrences
    mode,      \* per node: "down", "boot", "idle" or "tick"
    began,     \* per node, the time its pass read when it began; 0 without a pass
    todo,      \* per node, the occurrences its pass has not treated yet
    doing      \* per node, the statement it sends next

nodeVars == <<mode, began, todo, doing>>
vars == <<rows, spent, minted, clock, reserved, bound, mode, began, todo, doing>>

Nothing == [step |-> "none"]
Step(step, occurrence, job) ==
    [step |-> step, occurrence |-> occurrence, job |-> job]

-----------------------------------------------------------------------------
(* What is due: dueOccurrences and previousOccurrences *)

\* The last "limit" minutes up to now that the expression of the task matches.
Previous(task, now, limit) ==
    {at \in Fires[task] :
        /\ at <= now
        /\ Cardinality({later \in Fires[task] : at < later /\ later <= now}) < limit}

Limit(task) == IF CatchUp[task] = "backfill" THEN BackfillLimit ELSE 1

Due(now) ==
    {o \in Occurrences : o[2] \in Previous(o[1], now, Limit(o[1]))}

\* Each task is caught up from its oldest due minute on.
Oldest(set) ==
    {o \in set : \A p \in set : p[1] = o[1] => o[2] <= p[2]}

\* Mutant: one key for all the occurrences of a task.
CronInputByTask(o) ==
    [task |-> o[1], key |-> <<o[1], 1>>, coalesce |-> "throttle",
     args |-> CHOOSE a \in Args : TRUE, due |-> TRUE,
     maxAttempts |-> Ceiling[o[1]]]

CronInput(o) ==
    [task |-> o[1], key |-> o, coalesce |-> "throttle",
     args |-> CHOOSE a \in Args : TRUE, due |-> TRUE,
     maxAttempts |-> Ceiling[o[1]]]

CronInputs == {CronInput(o) : o \in Occurrences}

\* The keys of occurrences are framed for the framework (frameworkScopedKey), so nobody else
\* schedules with one. Null is no principal.
ASSUME ScopeAssumption ==
    /\ CronInputs \subseteq Inputs
    /\ \A in \in Inputs \ CronInputs : in.key \notin Occurrences
    /\ NoPrincipal \notin Principals

-----------------------------------------------------------------------------
(* The loop: start, scheduleCronTick *)

Begin(n) ==
    /\ began' = [began EXCEPT ![n] = clock]
    /\ todo' = [todo EXCEPT ![n] = Due(clock)]
    /\ UNCHANGED <<rows, spent, minted, clock, reserved, bound, doing>>

\* The first request makes a node start, and the start materializes first.
Boot(n) ==
    /\ mode[n] = "down"
    /\ mode' = [mode EXCEPT ![n] = "boot"]
    /\ Begin(n)

CronTick(n) ==
    /\ mode[n] = "idle"
    /\ mode' = [mode EXCEPT ![n] = "tick"]
    /\ Begin(n)

\* A pass that is over arms the timer of the next one.
EndPass(n) ==
    /\ mode[n] \in {"boot", "tick"}
    /\ todo[n] = {} /\ doing[n] = Nothing
    /\ mode' = [mode EXCEPT ![n] = "idle"]
    /\ began' = [began EXCEPT ![n] = 0]
    /\ UNCHANGED <<rows, spent, minted, clock, reserved, bound, todo, doing>>

\* Mutant: a start that failed is kept, and no request starts the node again.
DropForGood(n) ==
    /\ mode' = [mode EXCEPT ![n] = IF @ = "boot" THEN "failed" ELSE "idle"]
    /\ began' = [began EXCEPT ![n] = 0]
    /\ todo' = [todo EXCEPT ![n] = {}]
    /\ doing' = [doing EXCEPT ![n] = Nothing]

\* A pass that throws is dropped. The first one fails the start, which a later
\* request tries again; the others are retried by the timer.
Drop(n) ==
    /\ mode' = [mode EXCEPT ![n] = IF @ = "boot" THEN "down" ELSE "idle"]
    /\ began' = [began EXCEPT ![n] = 0]
    /\ todo' = [todo EXCEPT ![n] = {}]
    /\ doing' = [doing EXCEPT ![n] = Nothing]

-----------------------------------------------------------------------------
(* The three statements: materializeDue *)

\* insert ... on conflict do nothing: the row tells whose occurrence it is.
Reserve(o) ==
    /\ reserved' = reserved \cup {o}
    /\ UNCHANGED <<rows, spent, minted, bound>>

EnqueueOccurrence(o, j) ==
    /\ \/ Insert(j, CronInput(o), 0, NoPrincipal)
       \/ j \in Pending(CronInput(o)) /\ Throttle(CronInput(o), 0)
    /\ UNCHANGED <<reserved, bound>>

Bind(o, j) ==
    /\ bound' = IF o \in reserved \ DOMAIN bound
                THEN [p \in DOMAIN bound \cup {o} |-> IF p = o THEN j ELSE bound[p]]
                ELSE bound
    /\ UNCHANGED <<rows, spent, minted, reserved>>

\* Mutant: the answer of the reservation is not looked at.
ReserveNextUnchecked(n) ==
    /\ doing[n] = Nothing
    /\ \E o \in Oldest(todo[n]) :
          /\ Reserve(o)
          /\ todo' = [todo EXCEPT ![n] = @ \ {o}]
          /\ doing' = [doing EXCEPT ![n] = Step("enqueue", o, NoKey)]
    /\ UNCHANGED <<clock, mode, began>>

\* Mutant: an occurrence somebody reserved already ends the pass (break, not continue).
ReserveNextBreaking(n) ==
    /\ doing[n] = Nothing
    /\ \E o \in Oldest(todo[n]) :
          /\ Reserve(o)
          /\ todo' = [todo EXCEPT ![n] = IF o \in reserved THEN {} ELSE @ \ {o}]
          /\ doing' = IF o \in reserved THEN doing
                      ELSE [doing EXCEPT ![n] = Step("enqueue", o, NoKey)]
    /\ UNCHANGED <<clock, mode, began>>

\* An occurrence somebody reserved already is skipped.
ReserveNext(n) ==
    /\ doing[n] = Nothing
    /\ \E o \in Oldest(todo[n]) :
          /\ Reserve(o)
          /\ todo' = [todo EXCEPT ![n] = @ \ {o}]
          /\ doing' = IF o \in reserved THEN doing
                      ELSE [doing EXCEPT ![n] = Step("enqueue", o, NoKey)]
    /\ UNCHANGED <<clock, mode, began>>

EnqueueReserved(n) ==
    /\ doing[n].step = "enqueue"
    /\ \E j \in Jobs :
          /\ EnqueueOccurrence(doing[n].occurrence, j)
          /\ doing' = [doing EXCEPT ![n] = Step("bind", @.occurrence, j)]
    /\ UNCHANGED <<clock, mode, began, todo>>

BindEnqueued(n) ==
    /\ doing[n].step = "bind"
    /\ Bind(doing[n].occurrence, doing[n].job)
    /\ doing' = [doing EXCEPT ![n] = Nothing]
    /\ UNCHANGED <<clock, mode, began, todo>>

\* A statement throws, applied or not, and ends the pass.
StatementThrows(n) ==
    /\ n \in Faulty
    /\ \/ /\ doing[n] = Nothing
          /\ \E o \in Oldest(todo[n]) : Reserve(o)
       \/ /\ doing[n].step = "enqueue"
          /\ \E j \in Jobs : EnqueueOccurrence(doing[n].occurrence, j)
       \/ /\ doing[n].step = "bind"
          /\ Bind(doing[n].occurrence, doing[n].job)
       \/ /\ doing[n] # Nothing \/ todo[n] # {}
          /\ UNCHANGED <<rows, spent, minted, reserved, bound>>
    /\ Drop(n)
    /\ UNCHANGED clock

\* Mutant: the reservation is part of the pass and rolled back with it.
CrashUnreserving(n) ==
    /\ n \in Crashable
    /\ mode[n] # "down"
    /\ mode' = [mode EXCEPT ![n] = "down"]
    /\ began' = [began EXCEPT ![n] = 0]
    /\ todo' = [todo EXCEPT ![n] = {}]
    /\ doing' = [doing EXCEPT ![n] = Nothing]
    /\ reserved' = IF doing[n].step = "enqueue" THEN reserved \ {doing[n].occurrence}
                                                ELSE reserved
    /\ UNCHANGED <<rows, spent, minted, clock, bound>>

\* The process dies with its pass; what its statements committed stays.
Crash(n) ==
    /\ n \in Crashable
    /\ mode[n] # "down"
    /\ mode' = [mode EXCEPT ![n] = "down"]
    /\ began' = [began EXCEPT ![n] = 0]
    /\ todo' = [todo EXCEPT ![n] = {}]
    /\ doing' = [doing EXCEPT ![n] = Nothing]
    /\ UNCHANGED <<rows, spent, minted, clock, reserved, bound>>

-----------------------------------------------------------------------------
(* The world: the clock, and the runners that drain the job table *)

Minute ==
    /\ clock < Horizon
    /\ clock' = clock + 1
    /\ UNCHANGED <<rows, spent, minted, reserved, bound, mode, began, todo, doing>>

\* Any statement of the runners, of requests and of an erasure, in any order.
JobMoves ==
    /\ Enqueues(Inputs \ CronInputs) \/ RowsMove
    /\ UNCHANGED <<clock, reserved, bound, mode, began, todo, doing>>

Init ==
    /\ QueueInit
    /\ clock = 0
    /\ reserved = {}
    /\ bound = [o \in {} |-> NoKey]
    /\ mode = [n \in Nodes |-> "down"]
    /\ began = [n \in Nodes |-> 0]
    /\ todo = [n \in Nodes |-> {}]
    /\ doing = [n \in Nodes |-> Nothing]

NodeStep(n) ==
    \/ Boot(n) \/ CronTick(n) \/ EndPass(n)
    \/ ReserveNext(n) \/ EnqueueReserved(n) \/ BindEnqueued(n)
    \/ StatementThrows(n) \/ Crash(n)

Next ==
    \/ \E n \in Nodes : NodeStep(n)
    \/ Minute
    \/ JobMoves

Spec == Init /\ [][Next]_vars

\* Nodes that do not crash: requests reach them, their timers fire, and their statements
\* return or throw. Errors of the store are transient ("the next tick retries"): a reservation
\* that pass after pass tries goes through in one of them.
Lasting == Nodes \ Crashable

Fairness ==
    \A n \in Lasting :
        /\ WF_vars(NodeStep(n))
        /\ \A o \in Occurrences : SF_vars(ReserveNext(n) /\ o \in todo[n] \ todo'[n])

FairSpec == Spec /\ Fairness

-----------------------------------------------------------------------------
(* Properties *)

\* The state is well formed; what is bound was reserved (bindJob only updates a
\* row that reserve inserted), and a statement under way has its occurrence.
TypeOK ==
    /\ QueueTypeOK
    /\ clock \in 0..Horizon
    /\ reserved \subseteq Occurrences
    /\ DOMAIN bound \subseteq reserved /\ \A o \in DOMAIN bound : bound[o] \in Jobs
    /\ mode \in [Nodes -> {"down", "boot", "idle", "tick"}]
    /\ began \in [Nodes -> 0..Horizon]
    /\ todo \in [Nodes -> SUBSET Occurrences]
    /\ \A n \in Nodes :
          \/ doing[n] = Nothing
          \/ doing[n].step = "enqueue" /\ doing[n].occurrence \in Occurrences
          \/ doing[n].step = "bind" /\ doing[n].occurrence \in Occurrences
                                    /\ doing[n].job \in Jobs

JobsOf(o) == {j \in Present : rows[j].key = o}

\* However many nodes materialize, with whatever clocks, crashes and retried
\* passes, an occurrence has at most one job, even when that job has started or
\* finished and no longer coalesces (the reservation before the enqueue).
OneJobPerOccurrence == \A o \in Occurrences : Cardinality(JobsOf(o)) <= 1

\* A bound reservation names the job that was enqueued for it.
BindingsName == \A o \in DOMAIN bound : bound[o] \in JobsOf(o)

\* The job each occurrence has got.
JobOf == [o \in {p \in Occurrences : JobsOf(p) # {}} |-> CHOOSE j \in JobsOf(o) : TRUE]

Once == INSTANCE OccurrenceOnce WITH taken <- reserved, job <- JobOf, named <- bound

\* Every step of the materializer, of the runners and of the requests takes, serves or binds one
\* occurrence as promised, or none: no reservation is given back, no job replaced or shared, and
\* no binding changed (on conflict do nothing, and "job_id is null" in bindJob).
OccurrencesServedOnce == Once!OnceSpec

\* The occurrence has come, and fewer than the limit came after it.
InWindow(o) ==
    LET fired == {at \in Fires[o[1]] : o[2] <= at /\ at <= clock}
    IN  o[2] \in fired /\ Cardinality(fired) <= Limit(o[1])

\* However late it is, and whatever other nodes have reserved, dropped or lost, a pass has
\* reserved or still has before it all that was due when it began, also what has left the window
\* since. So an occurrence leaves the window unreserved only if no pass that began in its window
\* came to its end (the loops of materializeDue over what dueOccurrences returned).
PassesCatchUp ==
    \A n \in Nodes : Due(began[n]) \subseteq reserved \cup todo[n]

\* What stays in the window is reserved in the end, even if the passes of all nodes that last,
\* the first ones included, fail again and again: a failed start is tried again by the next
\* request, a failed pass by the next timer. What leaves it is left to PassesCatchUp.
RetriedUntilReserved ==
    \A o \in Occurrences : (<>[]InWindow(o)) => <>(o \in reserved)

\* What is reserved is enqueued sooner or later, by this pass or the next one.
ReservedIsEnqueued ==
    \A o \in Occurrences : (o \in reserved) ~> (JobsOf(o) # {})

=============================================================================
