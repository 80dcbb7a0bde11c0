----------------------------- MODULE TaskQueue -----------------------------
(***************************************************************************)
(* The durable job table _kovo_jobs and the statements that                *)
(* PostgresDurableTaskQueue (packages/server/src/task-queue.ts) sends to   *)
(* it.  One action is one SQL statement: Postgres runs each of them        *)
(* atomically, and row locks make two statements on one row follow each    *)
(* other.  The client is the most general one: any node may send any       *)
(* statement at any moment, with any lease token that was ever minted.     *)
(* TaskRunner composes this table with the real client.                    *)
(*                                                                         *)
(* Instants are abstracted to what a statement compares them with:         *)
(* "due" is run_at <= now, "expired" is leased_until <= now.  Time makes a *)
(* row due (BecomesDue) and a lease expired (LeaseExpires) at any moment,  *)
(* so a claim made with a stale "now" is a claim whose lease expires at    *)
(* once.  The order in which due rows are claimed (priority, run_at,       *)
(* created_at) is left open: "for update skip locked" passes over every    *)
(* row that an open transaction has locked, whatever its rank.             *)
(***************************************************************************)
EXTENDS Integers, FiniteSets

CONSTANTS
    Jobs,           \* job ids (128-bit random in the code: never reused)
    Tasks,          \* task keys
    Keys, NoKey,    \* logical_key frames, and SQL null
    Args,           \* serialized arguments
    Principals, NoPrincipal,
    Owners, NoOwner,
    MaxGenerations, \* task({ maxGenerations }), 64 unless declared
    Ceiling,        \* per task, the largest retry.maxAttempts of any deployment
    Inputs          \* the schedules the clients make, a subset of Schedule

ASSUME NullAssumption == NoKey \notin Keys /\ NoOwner \notin Owners
ASSUME CeilingAssumption == Ceiling \in [Tasks -> Nat \ {0}]
ASSUME NumberAssumption == MaxGenerations \in Nat

\* What a schedule carries. A rolling deployment may register the same task
\* with different retry ceilings, so maxAttempts is part of the input.
Schedule ==
    [task : Tasks, key : Keys \cup {NoKey}, coalesce : {"debounce", "throttle"},
     args : Args, due : BOOLEAN, maxAttempts : Nat \ {0}]

ASSUME InputAssumption ==
    /\ Inputs \subseteq Schedule
    /\ \A in \in Inputs : in.maxAttempts <= Ceiling[in.task]

VARIABLES
    rows,    \* the table: a function from the ids present to their row
    spent,   \* ids that have been inserted, erased rows included
    minted   \* how many lease tokens were minted; token n is the n-th

queueVars == <<rows, spent, minted>>

\* 'failed' is declared by the table's check constraint, and no statement
\* ever writes it.
Statuses == {"ready", "running", "succeeded", "dead", "cancelled"}
Terminal == {"succeeded", "dead", "cancelled"}

Row ==
    [task : Tasks, key : Keys \cup {NoKey}, args : Args,
     principal : Principals \cup {NoPrincipal}, generation : Nat,
     status : Statuses, attempts : Nat, maxAttempts : Nat \ {0}, due : BOOLEAN,
     owner : Owners \cup {NoOwner}, token : Nat, expired : BOOLEAN]

Present == DOMAIN rows

With(status) == {j \in Present : rows[j].status = status}

-----------------------------------------------------------------------------
(* The unique index and the insert it arbitrates *)

\* The partial unique index on (task_key, logical_key) where ready and keyed.
ReadyKeysUnique(table) ==
    \A i, j \in DOMAIN table :
        (/\ table[i].status = "ready" /\ table[j].status = "ready"
         /\ table[i].key # NoKey
         /\ table[i].key = table[j].key
         /\ table[i].task = table[j].task) => i = j

\* Mutant: without "where status = 'ready'" in the arbiter of the insert.
PendingAnyStatus(in) ==
    {j \in Present :
        in.key # NoKey /\ rows[j].key = in.key /\ rows[j].task = in.task}

\* The ready rows an insert of this schedule would conflict with.
Pending(in) ==
    {j \in With("ready") :
        in.key # NoKey /\ rows[j].key = in.key /\ rows[j].task = in.task}

\* A lineage past its generation ceiling is written dead, outside the index.
GenerationStatus(generation) ==
    IF generation <= MaxGenerations THEN "ready" ELSE "dead"

NewRow(in, generation, who) ==
    [task |-> in.task, key |-> in.key, args |-> in.args,
     principal |-> who, generation |-> generation,
     status |-> GenerationStatus(generation), attempts |-> 0,
     maxAttempts |-> in.maxAttempts, due |-> in.due,
     owner |-> NoOwner, token |-> 0, expired |-> FALSE]

Coalesces(in, generation) ==
    GenerationStatus(generation) = "ready" /\ Pending(in) # {}

Insert(j, in, generation, who) ==
    /\ j \notin spent
    /\ ~Coalesces(in, generation)
    /\ rows' = [i \in Present \cup {j} |->
                   IF i = j THEN NewRow(in, generation, who) ELSE rows[i]]
    /\ spent' = spent \cup {j}
    /\ UNCHANGED minted

\* Mutant: a debounced schedule brings its generation along, and only an insert
\* looks at the ceiling.
DebounceRenumbering(in, generation, who) ==
    /\ Pending(in) # {}
    /\ in.coalesce = "debounce"
    /\ rows' = [i \in Present |->
                   IF i \in Pending(in)
                   THEN [rows[i] EXCEPT !.args = in.args, !.due = in.due,
                                        !.principal = who, !.generation = generation,
                                        !.maxAttempts = in.maxAttempts]
                   ELSE rows[i]]
    /\ UNCHANGED <<spent, minted>>

\* on conflict do update: the ready row takes the latest args and run_at, and
\* keeps its id, its attempts and its generation.
Debounce(in, generation, who) ==
    /\ Coalesces(in, generation)
    /\ in.coalesce = "debounce"
    /\ rows' = [i \in Present |->
                   IF i \in Pending(in)
                   THEN [rows[i] EXCEPT !.args = in.args, !.due = in.due,
                                        !.principal = who,
                                        !.maxAttempts = in.maxAttempts]
                   ELSE rows[i]]
    /\ UNCHANGED <<spent, minted>>

\* Mutant: a throttled schedule replaces the arguments like a debounced one.
ThrottleReplacing(in, generation) ==
    /\ Coalesces(in, generation)
    /\ in.coalesce = "throttle"
    /\ rows' = [i \in Present |->
                   IF i \in Pending(in)
                   THEN [rows[i] EXCEPT !.args = in.args, !.maxAttempts = in.maxAttempts]
                   ELSE rows[i]]
    /\ UNCHANGED <<spent, minted>>

\* on conflict do update: the ready row keeps its args and its run_at.
Throttle(in, generation) ==
    /\ Coalesces(in, generation)
    /\ in.coalesce = "throttle"
    /\ rows' = [i \in Present |->
                   IF i \in Pending(in)
                   THEN [rows[i] EXCEPT !.maxAttempts = in.maxAttempts]
                   ELSE rows[i]]
    /\ UNCHANGED <<spent, minted>>

Enqueue(in, generation, who) ==
    \/ \E j \in Jobs : Insert(j, in, generation, who)
    \/ Debounce(in, generation, who)
    \/ Throttle(in, generation)

Cancel(j) ==
    /\ j \in With("ready")
    /\ rows' = [rows EXCEPT ![j].status = "cancelled"]
    /\ UNCHANGED <<spent, minted>>

-----------------------------------------------------------------------------
(* Claims, leases and settlements *)

\* Mutant: a claim takes over expired leases by itself.
ClaimableExpired(keys) ==
    {j \in Present : /\ rows[j].status = "ready" \/ rows[j].expired
                     /\ rows[j].due /\ rows[j].task \in keys}

Claimable(keys) == {j \in With("ready") : rows[j].due /\ rows[j].task \in keys}

\* claimDue with limit 1, the only limit the runner asks for.
ClaimDue(j, keys, owner) ==
    /\ j \in Claimable(keys)
    /\ minted' = minted + 1
    /\ rows' = [rows EXCEPT ![j].status = "running",
                            ![j].attempts = @ + 1,
                            ![j].owner = owner,
                            ![j].token = minted + 1,
                            ![j].expired = FALSE]
    /\ UNCHANGED spent

\* Mutant: the fence compares the owner and forgets the token.
HoldsByOwner(j, owner, token) ==
    j \in With("running") /\ rows[j].owner = owner

\* The fence of every statement a claimant sends: id, status, owner, token.
Holds(j, owner, token) ==
    /\ j \in With("running")
    /\ rows[j].owner = owner
    /\ rows[j].token = token

\* Mutant: the lease columns are not cleared.
ReleasedUncleared(row, status) == [row EXCEPT !.status = status]

Released(row, status) ==
    [row EXCEPT !.status = status, !.owner = NoOwner, !.token = 0,
                !.expired = FALSE]

\* The extension does not ask whether the lease it extends had expired.
Heartbeat(j, owner, token) ==
    /\ Holds(j, owner, token)
    /\ rows' = [rows EXCEPT ![j].expired = FALSE]
    /\ UNCHANGED <<spent, minted>>

MarkSucceeded(j, owner, token) ==
    /\ Holds(j, owner, token)
    /\ rows' = [rows EXCEPT ![j] = Released(@, "succeeded")]
    /\ UNCHANGED <<spent, minted>>

\* Mutant: the exhausted row takes the status the table also declares.
FailedRowFailed(row, ceiling, due) ==
    IF row.attempts >= ceiling
    THEN Released(row, "failed")
    ELSE [Released(row, "ready") EXCEPT !.due = due]

\* The ceiling is the caller's, not the row's; dead rows keep their run_at.
FailedRow(row, ceiling, due) ==
    IF row.attempts >= ceiling
    THEN Released(row, "dead")
    ELSE [Released(row, "ready") EXCEPT !.due = due]

FailedTable(j, ceiling, due) ==
    [rows EXCEPT ![j] = FailedRow(@, ceiling, due)]

MarkFailed(j, owner, token, ceiling, due) ==
    /\ Holds(j, owner, token)
    /\ ReadyKeysUnique(FailedTable(j, ceiling, due))
    /\ rows' = FailedTable(j, ceiling, due)
    /\ UNCHANGED <<spent, minted>>

\* The unique index aborts a retry whose key has a newer ready row.
MarkFailedRejected(j, owner, token, ceiling, due) ==
    /\ Holds(j, owner, token)
    /\ ~ReadyKeysUnique(FailedTable(j, ceiling, due))
    /\ UNCHANGED queueVars

\* Mutant: the reaper does not compare leased_until.
ExpiredOrNot == With("running")

Expired == {j \in With("running") : rows[j].expired}

\* Mutant: the reaper redelivers whatever the attempts.
ReapedRowAlways(row) == Released(row, "ready")

\* Mutant: a crash is not the fault of the job, so its attempt is given back.
ReapedRowForgiven(row) == [Released(row, "ready") EXCEPT !.attempts = @ - 1]

ReapedRow(row) ==
    Released(row, IF row.attempts >= row.maxAttempts THEN "dead" ELSE "ready")

ReapedTable ==
    [j \in Present |-> IF j \in Expired THEN ReapedRow(rows[j]) ELSE rows[j]]

\* One statement for every expired lease: all of them move, or none.
ReapExpiredLeases ==
    /\ ReadyKeysUnique(ReapedTable)
    /\ rows' = ReapedTable
    /\ UNCHANGED <<spent, minted>>

ReapRejected ==
    /\ ~ReadyKeysUnique(ReapedTable)
    /\ UNCHANGED queueVars

\* erasePrincipal deletes the rows of one principal, whatever their status.
ErasePrincipal(who) ==
    /\ rows' = [j \in {i \in Present : rows[i].principal # who} |-> rows[j]]
    /\ UNCHANGED <<spent, minted>>

-----------------------------------------------------------------------------
(* Time *)

BecomesDue(j) ==
    /\ j \in With("ready")
    /\ ~rows[j].due
    /\ rows' = [rows EXCEPT ![j].due = TRUE]
    /\ UNCHANGED <<spent, minted>>

LeaseExpires(j) ==
    /\ j \in With("running")
    /\ ~rows[j].expired
    /\ rows' = [rows EXCEPT ![j].expired = TRUE]
    /\ UNCHANGED <<spent, minted>>

-----------------------------------------------------------------------------
QueueInit ==
    /\ rows = [j \in {} |-> {}]
    /\ spent = {}
    /\ minted = 0

Settle(j, owner, token) ==
    \/ Heartbeat(j, owner, token)
    \/ MarkSucceeded(j, owner, token)
    \/ \E ceiling \in 1..Ceiling[rows[j].task], due \in BOOLEAN :
          MarkFailed(j, owner, token, ceiling, due)

Enqueues(inputs) ==
    \E in \in inputs, generation \in 0..(MaxGenerations + 1),
       who \in Principals \cup {NoPrincipal} : Enqueue(in, generation, who)

RowsMove ==
    \/ \E j \in Present : Cancel(j)
    \/ \E j \in Present, keys \in SUBSET Tasks, owner \in Owners :
          ClaimDue(j, keys, owner)
    \/ \E j \in Present, owner \in Owners, token \in 1..minted :
          Settle(j, owner, token)
    \/ ReapExpiredLeases
    \/ \E who \in Principals : ErasePrincipal(who)
    \/ \E j \in Present : BecomesDue(j) \/ LeaseExpires(j)

QueueNext == Enqueues(Inputs) \/ RowsMove

QueueSpec == QueueInit /\ [][QueueNext]_queueVars

-----------------------------------------------------------------------------
(* Properties *)

\* The table holds well-formed rows under ids that were minted for them.
QueueTypeOK ==
    /\ Present \subseteq spent
    /\ spent \subseteq Jobs
    /\ minted \in Nat
    /\ \A j \in Present : rows[j] \in Row

\* However retries, reaped leases, coalescing schedules and redeployments with
\* other ceilings interleave, no job is claimed more often than the largest
\* ceiling its task ever declared (maxAttempts in claimDue, markFailed and
\* reapExpiredLeases): a task that kills its worker is not redelivered forever.
AttemptsBounded ==
    \A j \in Present :
        /\ rows[j].attempts <= Ceiling[rows[j].task]
        /\ rows[j].status = "ready" => rows[j].attempts < Ceiling[rows[j].task]

\* The lease columns are the lease: exactly the running rows carry a token, it
\* is one that was minted, and no two rows share one (claimDue, and the
\* clearing in markSucceeded, markFailed and reapExpiredLeases).
LeaseConsistent ==
    /\ \A j \in Present :
          IF rows[j].status = "running"
          THEN rows[j].token \in 1..minted /\ rows[j].owner # NoOwner
                                           /\ rows[j].attempts >= 1
          ELSE rows[j].token = 0 /\ rows[j].owner = NoOwner /\ ~rows[j].expired
    /\ \A i, j \in With("running") : rows[i].token = rows[j].token => i = j

\* What a started job keeps, and a finished one altogether.
Untouched(row, next) ==
    row.status # "ready" =>
        /\ next.args = row.args
        /\ next.principal = row.principal
        /\ next.generation = row.generation
        /\ row.status \in Terminal => next = row

\* A running or finished job is never rescheduled in place: schedules with its
\* key leave its arguments, principal and generation alone, and a finished job
\* is final (only erasure removes it). The arbiter of enqueueDebounce and
\* enqueueThrottle is the partial index on ready rows.
ScheduleNeverTouchesStarted ==
    [][\A j \in Present \cap DOMAIN rows' : Untouched(rows[j], rows'[j])]_queueVars

\* A token stays while its row runs, and a row that starts running was ready and
\* takes a token newer than every other.
LeaseSucceeds(row, next) ==
    /\ (row.status = "running" /\ next.status = "running") => next.token = row.token
    /\ (row.status # "running" /\ next.status = "running")
          => /\ row.status = "ready"
             /\ \A i \in Present : rows[i].token < next.token

\* A lease changes hands only through the ready state: a second claimant appears
\* only after the settlement of the first one or the reaping of its expired
\* lease, and with a token no zombie can hold (claimDue skips running rows).
NoTakeover ==
    [][\A j \in Present \cap DOMAIN rows' : LeaseSucceeds(rows[j], rows'[j])]_queueVars

=============================================================================
