------------------------ MODULE TaskSettlementProofs ------------------------
(***************************************************************************)
(* The ends of executions, on nodes whose store calls return: an execution *)
(* that is over has let its row go, and the bodies that run are within the *)
(* caps of their node.                                                     *)
(*                                                                         *)
(* A row cannot be held again under its old token, and the one settlement  *)
(* that fails on such a node is a retry the unique index refuses, which    *)
(* needs a key.  Slots only grow by a claim that had room; a body has its  *)
(* slot until it settles, unless a settlement fails.                       *)
(***************************************************************************)
EXTENDS TaskRunnerProofs, FiniteSetTheorems

\* A row that was there is the same schedule, and runs only under the lease it
\* had or under a new token; a new row does not run.
Follows(j) ==
    \/ /\ j \in Present
       /\ rows'[j].key = rows[j].key /\ rows'[j].task = rows[j].task
       /\ rows'[j].status = "running" =>
             \/ /\ rows[j].status = "running"
                /\ rows'[j].owner = rows[j].owner /\ rows'[j].token = rows[j].token
             \/ rows'[j].token = minted + 1
    \/ /\ j \notin spent /\ rows'[j].status # "running"
       /\ \E in \in Inputs : rows'[j].key = in.key

\* A statement that makes no row ready keeps the unique index.
Settling(j) ==
    /\ j \in Present
    /\ rows'[j].key = rows[j].key /\ rows'[j].task = rows[j].task
    /\ rows'[j].status = "ready" => rows[j].status = "ready"

Continued == (\A j \in DOMAIN rows' : Follows(j)) /\ ReadyKeysUnique(rows')

LEMMA SettlingKeepsIndex ==
  ASSUME ReadyKeysUnique(rows), \A j \in DOMAIN rows' : Settling(j)
  PROVE  ReadyKeysUnique(rows')
  BY DEF ReadyKeysUnique, Settling, Present

\* A statement that rewrites one row, and keeps what schedule it is.
LEMMA RewriteFollows ==
  ASSUME NEW j \in Present, NEW row, rows' = [rows EXCEPT ![j] = row],
         row.key = rows[j].key, row.task = rows[j].task,
         row.status = "running" =>
            \/ rows[j].status = "running" /\ row.owner = rows[j].owner /\ row.token = rows[j].token
            \/ row.token = minted + 1
  PROVE  /\ \A i \in DOMAIN rows' : Follows(i)
         /\ ReadyKeysUnique(rows) /\ (row.status = "ready" => rows[j].status = "ready")
               => ReadyKeysUnique(rows')
<1>1. \A i \in DOMAIN rows' : Follows(i)
  BY DEF Follows, Present
<1>2. ASSUME row.status = "ready" => rows[j].status = "ready"
      PROVE  \A i \in DOMAIN rows' : Settling(i)
  BY <1>2 DEF Settling, Present
<1>. QED
  BY <1>1, <1>2, SettlingKeepsIndex

LEMMA EnqueueFollows ==
  ASSUME QueueInv, ReadyKeysUnique(rows), NEW in \in Inputs, NEW generation, NEW who,
         Enqueue(in, generation, who)
  PROVE  Continued
<1>a. \A j \in Present : rows[j] \in Row
  BY DEF QueueInv, RowInv
<1>1. CASE \E j \in Jobs : Insert(j, in, generation, who)
  <2>1. PICK j \in Jobs : Insert(j, in, generation, who)
    BY <1>1
  <2>2. /\ j \notin spent /\ j \notin Present
        /\ DOMAIN rows' = Present \cup {j}
        /\ rows'[j] = NewRow(in, generation, who)
        /\ \A i \in Present : rows'[i] = rows[i]
    BY <2>1 DEF Insert, QueueInv
  <2>3. /\ rows'[j].status = GenerationStatus(generation)
        /\ rows'[j].key = in.key /\ rows'[j].task = in.task
        /\ rows'[j].status # "running"
    BY <2>2 DEF NewRow, GenerationStatus
  <2>4. \A i \in DOMAIN rows' : Follows(i)
    BY <2>2, <2>3 DEF Follows
  <2>5. ASSUME rows'[j].status = "ready", NEW i \in Present,
               rows[i].status = "ready", rows[i].key = in.key, rows[i].task = in.task
        PROVE  in.key = NoKey
    BY <2>1, <2>3, <2>5 DEF Insert, Coalesces, Pending, With
  <2>6. ReadyKeysUnique(rows')
    <3>. SUFFICES ASSUME NEW i \in DOMAIN rows', NEW k \in DOMAIN rows',
                         rows'[i].status = "ready", rows'[k].status = "ready",
                         rows'[i].key # NoKey, rows'[i].key = rows'[k].key,
                         rows'[i].task = rows'[k].task
                  PROVE  i = k
      BY DEF ReadyKeysUnique
    <3>1. CASE i \in Present /\ k \in Present
      BY <2>2, <3>1 DEF ReadyKeysUnique, Present
    <3>2. CASE i = j /\ k \in Present
      BY <2>2, <2>3, <2>5, <3>2
    <3>3. CASE k = j /\ i \in Present
      BY <2>2, <2>3, <2>5, <3>3
    <3>. QED
      BY <2>2, <3>1, <3>2, <3>3
  <2>. QED
    BY <2>4, <2>6 DEF Continued
<1>2. CASE Debounce(in, generation, who) \/ Throttle(in, generation)
  <2>1. DOMAIN rows' = Present
    BY <1>2 DEF Debounce, Throttle
  <2>2. \A j \in Present : /\ rows'[j].key = rows[j].key
                           /\ rows'[j].task = rows[j].task
                           /\ rows'[j].status = rows[j].status
                           /\ rows'[j].owner = rows[j].owner
                           /\ rows'[j].token = rows[j].token
    <3>1. CASE Debounce(in, generation, who)
      BY <3>1, <1>a DEF Debounce, Row
    <3>2. CASE Throttle(in, generation)
      BY <3>2, <1>a DEF Throttle, Row
    <3>. QED
      BY <1>2, <3>1, <3>2
  <2>3. \A j \in DOMAIN rows' : Follows(j) /\ Settling(j)
    BY <2>1, <2>2 DEF Follows, Settling
  <2>. QED
    BY <2>3, SettlingKeepsIndex DEF Continued
<1>. QED
  BY <1>1, <1>2 DEF Enqueue

LEMMA SettleFollows ==
  ASSUME QueueInv, ReadyKeysUnique(rows), NEW j \in Present, NEW owner, NEW token,
         Settle(j, owner, token)
  PROVE  Continued
<1>a. rows[j] \in Row
  BY DEF QueueInv, RowInv
<1>1. CASE Heartbeat(j, owner, token)
  <2> DEFINE row == [rows[j] EXCEPT !.expired = FALSE]
  <2>1. rows' = [rows EXCEPT ![j] = row]
    BY <1>1 DEF Heartbeat
  <2>2. /\ row.key = rows[j].key /\ row.task = rows[j].task /\ row.status = rows[j].status
        /\ row.owner = rows[j].owner /\ row.token = rows[j].token
    BY <1>a DEF Row
  <2>. HIDE DEF row
  <2>. QED
    BY <2>1, <2>2, RewriteFollows DEF Continued
<1>2. CASE MarkSucceeded(j, owner, token)
  <2>1. rows' = [rows EXCEPT ![j] = Released(rows[j], "succeeded")]
    BY <1>2 DEF MarkSucceeded
  <2>2. LET row == Released(rows[j], "succeeded")
        IN  row.key = rows[j].key /\ row.task = rows[j].task /\ row.status = "succeeded"
    BY <1>a DEF Released, Row
  <2>. QED
    BY <2>1, <2>2, RewriteFollows DEF Continued
<1>3. ASSUME NEW ceiling, NEW due, MarkFailed(j, owner, token, ceiling, due)
      PROVE  Continued
  <2>1. rows' = [rows EXCEPT ![j] = FailedRow(rows[j], ceiling, due)] /\ ReadyKeysUnique(rows')
    BY <1>3 DEF MarkFailed, FailedTable
  <2>2. /\ FailedRow(rows[j], ceiling, due).key = rows[j].key
        /\ FailedRow(rows[j], ceiling, due).task = rows[j].task
        /\ FailedRow(rows[j], ceiling, due).status \in {"ready", "dead"}
    BY <1>a DEF FailedRow, Released, Row
  <2>. QED
    BY <2>1, <2>2, RewriteFollows DEF Continued
<1>. QED
  BY <1>1, <1>2, <1>3 DEF Settle

LEMMA StatementFollows ==
  ASSUME QueueInv, ReadyKeysUnique(rows), [QueueNext]_queueVars
  PROVE  Continued
<1>a. \A j \in Present : rows[j] \in Row
  BY DEF QueueInv, RowInv
<1>0. CASE UNCHANGED queueVars
  BY <1>0 DEF queueVars, Continued, Follows, Present
<1>1. CASE \E in \in Inputs, generation \in 0..(MaxGenerations + 1),
              who \in Principals \cup {NoPrincipal} : Enqueue(in, generation, who)
  BY <1>1, EnqueueFollows
<1>2. CASE \E j \in Present : Cancel(j)
  <2>1. PICK j \in Present : Cancel(j)
    BY <1>2
  <2> DEFINE row == [rows[j] EXCEPT !.status = "cancelled"]
  <2>2. rows' = [rows EXCEPT ![j] = row]
    BY <2>1 DEF Cancel
  <2>3. row.key = rows[j].key /\ row.task = rows[j].task /\ row.status = "cancelled"
    BY <1>a DEF Row
  <2>. HIDE DEF row
  <2>. QED
    BY <2>2, <2>3, RewriteFollows DEF Continued
<1>3. CASE \E j \in Present, keys \in SUBSET Tasks, owner \in Owners :
              ClaimDue(j, keys, owner)
  <2>1. PICK j \in Present, keys \in SUBSET Tasks, owner \in Owners :
            ClaimDue(j, keys, owner)
    BY <1>3
  <2> DEFINE row == [rows[j] EXCEPT !.status = "running", !.attempts = rows[j].attempts + 1,
                        !.owner = owner, !.token = minted + 1, !.expired = FALSE]
  <2>2. rows' = [rows EXCEPT ![j] = row]
    BY <2>1 DEF ClaimDue
  <2>3. /\ row.key = rows[j].key /\ row.task = rows[j].task /\ row.status = "running"
        /\ row.token = minted + 1
    BY <1>a DEF Row
  <2>. HIDE DEF row
  <2>. QED
    BY <2>2, <2>3, RewriteFollows DEF Continued
<1>4. CASE \E j \in Present, owner \in Owners, token \in 1..minted :
              Settle(j, owner, token)
  BY <1>4, SettleFollows
<1>5. CASE ReapExpiredLeases
  <2>1. \A j \in Present : /\ ReapedRow(rows[j]).key = rows[j].key
                           /\ ReapedRow(rows[j]).task = rows[j].task
                           /\ ReapedRow(rows[j]).status \in {"ready", "dead"}
    BY <1>a DEF ReapedRow, Released, Row
  <2>2. ReadyKeysUnique(rows') /\ DOMAIN rows' = Present
    BY <1>5 DEF ReapExpiredLeases, ReapedTable
  <2>. QED
    BY <1>5, <2>1, <2>2 DEF ReapExpiredLeases, ReapedTable, Follows, Continued
<1>6. CASE \E who \in Principals : ErasePrincipal(who)
  <2>1. \A j \in DOMAIN rows' : j \in Present /\ rows'[j] = rows[j]
    BY <1>6 DEF ErasePrincipal, Present
  <2>2. \A j \in DOMAIN rows' : Follows(j) /\ Settling(j)
    BY <2>1 DEF Follows, Settling
  <2>. QED
    BY <2>2, SettlingKeepsIndex DEF Continued
<1>7. CASE \E j \in Present : BecomesDue(j) \/ LeaseExpires(j)
  <2>1. PICK j \in Present : BecomesDue(j) \/ LeaseExpires(j)
    BY <1>7
  <2>2. \/ rows' = [rows EXCEPT ![j] = [rows[j] EXCEPT !.due = TRUE]]
        \/ rows' = [rows EXCEPT ![j] = [rows[j] EXCEPT !.expired = TRUE]]
    BY <2>1 DEF BecomesDue, LeaseExpires
  <2>3. ASSUME NEW row, rows' = [rows EXCEPT ![j] = row],
               row.key = rows[j].key, row.task = rows[j].task, row.status = rows[j].status,
               row.owner = rows[j].owner, row.token = rows[j].token
        PROVE  Continued
    BY <2>3, RewriteFollows DEF Continued
  <2>4. CASE rows' = [rows EXCEPT ![j] = [rows[j] EXCEPT !.due = TRUE]]
    BY <1>a, <2>3, <2>4 DEF Row
  <2>5. CASE rows' = [rows EXCEPT ![j] = [rows[j] EXCEPT !.expired = TRUE]]
    BY <1>a, <2>3, <2>5 DEF Row
  <2>. QED
    BY <2>2, <2>4, <2>5
<1>. QED
  BY <1>0, <1>1, <1>2, <1>3, <1>4, <1>5, <1>6, <1>7 DEF QueueNext, Enqueues, RowsMove

\* The index holds in every run: no two ready rows share a task and a key.
THEOREM ReadyKeysStayUnique == Spec => []ReadyKeysUnique(rows)
<1>1. Init => ReadyKeysUnique(rows)
  BY DEF Init, QueueInit, ReadyKeysUnique
<1>2. RunnerInv /\ ReadyKeysUnique(rows) /\ [Next]_vars => ReadyKeysUnique(rows)'
  BY StepRefines, StatementFollows DEF RunnerInv, Continued, ReadyKeysUnique
<1>. QED
  BY <1>1, <1>2, RunnerInvHolds, PTL DEF Spec

\* A retry that the index refuses is one of a keyed job.
LEMMA RejectedIsKeyed ==
  ASSUME QueueInv, ReadyKeysUnique(rows), NEW j \in Present, NEW ceiling, NEW due,
         ~ReadyKeysUnique(FailedTable(j, ceiling, due))
  PROVE  rows[j].key # NoKey
<1>. SUFFICES ASSUME rows[j].key = NoKey
              PROVE  ReadyKeysUnique(FailedTable(j, ceiling, due))
  OBVIOUS
<1>1. FailedRow(rows[j], ceiling, due).key = NoKey
  BY DEF FailedRow, Released, Row, QueueInv, RowInv
<1> DEFINE table == FailedTable(j, ceiling, due)
<1>2. /\ DOMAIN table = Present /\ table[j].key = NoKey
      /\ \A i \in Present \ {j} : table[i] = rows[i]
  BY <1>1 DEF FailedTable, Present
<1>. HIDE DEF table
<1>3. ReadyKeysUnique(table)
  BY <1>2 DEF ReadyKeysUnique, Present
<1>. QED
  BY <1>3 DEF table

\* An expired row, and another row that is ready or expired too, with its task and key.
ReapTwins ==
    \E i \in Expired : \E j \in (Expired \cup With("ready")) \ {i} :
        /\ rows[i].key # NoKey
        /\ rows[j].key = rows[i].key /\ rows[j].task = rows[i].task

\* The reaper is refused only over such a pair, whatever nodes, requests and erasures did: tables
\* without keyed jobs are always reaped, and so are those where no job was scheduled again while
\* it ran (the reaper stalls on the index of ready rows and on nothing else).
THEOREM RefusedReapsHaveTwins ==
  Spec => [](~ReadyKeysUnique(ReapedTable) => ReapTwins)
<1>1. ASSUME RunnerInv, ReadyKeysUnique(rows), ~ReadyKeysUnique(ReapedTable)
      PROVE  ReapTwins
  <2>1. DOMAIN ReapedTable = Present
    BY DEF ReapedTable
  <2>2. \A j \in Present : /\ ReapedRow(rows[j]).key = rows[j].key
                           /\ ReapedRow(rows[j]).task = rows[j].task
    BY <1>1 DEF ReapedRow, Released, Row, RunnerInv, QueueInv, RowInv
  <2>3. \A j \in Present : /\ ReapedTable[j].key = rows[j].key
                           /\ ReapedTable[j].task = rows[j].task
                           /\ j \notin Expired => ReapedTable[j] = rows[j]
    BY <2>2 DEF ReapedTable
  <2>4. PICK i \in Present, j \in Present :
           /\ i # j /\ rows[i].key # NoKey
           /\ rows[i].key = rows[j].key /\ rows[i].task = rows[j].task
           /\ ReapedTable[i].status = "ready" /\ ReapedTable[j].status = "ready"
    BY <1>1, <2>1, <2>3 DEF ReadyKeysUnique
  <2>5. i \in Expired \cup With("ready") /\ j \in Expired \cup With("ready")
    BY <2>3, <2>4 DEF With
  <2>6. ~(i \in With("ready") /\ j \in With("ready"))
    BY <1>1, <2>4 DEF ReadyKeysUnique, With, Present
  <2>. QED
    BY <2>4, <2>5, <2>6 DEF ReapTwins
<1>2. RunnerInv /\ ReadyKeysUnique(rows) => (~ReadyKeysUnique(ReapedTable) => ReapTwins)
  BY <1>1
<1>. QED
  BY <1>2, RunnerInvHolds, ReadyKeysStayUnique, PTL

-----------------------------------------------------------------------------
(* Executions *)

\* The execution counts against the caps; a body that runs has its slot.
Counts(e) == e.slot \/ e.phase = "claimed"
Covered(e) == e.body = "live" => e.slot

Kept(t) ==
    /\ t \in Tokens
    /\ Identity(execs'[t]) = Identity(execs[t])
    /\ Counts(execs'[t]) => Counts(execs[t])

\* In this step t starts.
Starts(t) ==
    /\ t \notin Tokens
    /\ execs'[t].phase \in {"claimed", "lost"}
    /\ execs'[t].body = "off" /\ ~execs'[t].slot

\* In this step t does not finish.
GoesOn(t) ==
    /\ Kept(t)
    /\ execs'[t].phase = "done" => execs[t].phase = "done"
    /\ Covered(execs[t]) => Covered(execs'[t])

\* In this step t finishes: its row is let go and a body that runs on keeps its slot, unless the
\* store or the unique index failed.
Finishes(t) ==
    /\ Kept(t)
    /\ \/ execs[t].node \in Faulty
       \/ /\ execs[t].job \in Present /\ rows[execs[t].job].key # NoKey
          /\ rows' = rows
       \/ /\ ~Holding(t)'
          /\ Covered(execs[t]) => Covered(execs'[t])

\* A lease that was lost is never held again: its token is not minted twice.
LEMMA HeldIsHeldBefore ==
  ASSUME RunnerInv, ReadyKeysUnique(rows), [Next]_vars, NEW t \in Tokens,
         Identity(execs'[t]) = Identity(execs[t]), Holding(t)'
  PROVE  Holding(t) /\ rows'[execs[t].job].key = rows[execs[t].job].key
<1> DEFINE j == execs[t].job
<1>1. /\ j \in DOMAIN rows' /\ rows'[j].status = "running"
      /\ rows'[j].owner = Owner(t) /\ rows'[j].token = t
  BY DEF Holding, Holds, With, Present, Owner, Identity
<1>2. Follows(j)
  BY <1>1, StepRefines, StatementFollows DEF RunnerInv, Continued
<1>3. t # minted + 1
  BY ExecFacts DEF RunnerInv, QueueInv
<1>. QED
  BY <1>1, <1>2, <1>3, ExecFacts DEF Follows, Holding, Holds, With, RunnerInv, QueueInv

LEMMA UnbatchedIs ==
  ASSUME NEW e \in Exec, NEW f, f = [e EXCEPT !.batch = FALSE]
  PROVE  /\ Identity(f) = Identity(e)
         /\ f.phase = e.phase /\ f.slot = e.slot /\ f.body = e.body
  BY DEF Exec, Identity

LEMMA StartedIs ==
  ASSUME NEW e \in Exec, NEW f,
         f = [e EXCEPT !.phase = "running", !.body = "live", !.slot = TRUE, !.batch = TRUE]
  PROVE  Identity(f) = Identity(e) /\ f.phase = "running" /\ f.slot = TRUE
  BY DEF Exec, Identity

LEMMA AppendGoesOn ==
  ASSUME NEW table, table \in Seq(Exec), DOMAIN table = Tokens,
         NEW n \in Nodes, NEW j \in Present,
         NEW phase \in {"claimed", "lost"}, Claim(n, j, phase) \in Exec,
         execs' = Append(table, Claim(n, j, phase)),
         \A t \in Tokens : /\ Identity(table[t]) = Identity(execs[t])
                           /\ Counts(table[t]) => Counts(execs[t])
                           /\ table[t].phase = "done" => execs[t].phase = "done"
                           /\ Covered(execs[t]) => Covered(table[t])
  PROVE  \A t \in Tokens' : GoesOn(t) \/ (Starts(t) /\ execs'[t] = Claim(n, j, phase))
<1>1. \A t \in Tokens' : \/ t \in Tokens /\ execs'[t] = table[t]
                         \/ t \notin Tokens /\ execs'[t] = Claim(n, j, phase)
  BY AppendProperties, LenProperties DEF Tokens
<1>2. /\ Claim(n, j, phase).phase = phase /\ Claim(n, j, phase).body = "off"
      /\ Claim(n, j, phase).slot = FALSE
  BY DEF Claim
<1>. QED
  BY <1>1, <1>2 DEF GoesOn, Starts, Kept

\* A node drops, runs, unbatches or loses its executions, or claims one more.
LEMMA NodeStepGoesOn ==
  ASSUME RunnerInv, NEW n \in Nodes, NodeStep(n)
  PROVE  /\ \A t \in Tokens' : GoesOn(t) \/ Starts(t)
         /\ ~ClaimNext(n) => \A t \in Tokens' : Counts(execs'[t]) => t \in Tokens
<1>a. /\ \A t \in Tokens : execs[t] \in Exec
      /\ execs \in Seq(Exec)
      /\ Tokens = 1..Len(execs) /\ Len(execs) \in Nat
  BY ExecFacts, TokensAre, LenProperties DEF RunnerInv, ExecInv
<1>b. ASSUME NEW j \in Present, NEW phase \in {"claimed", "lost"}
      PROVE  rows[j] \in Row /\ Claim(n, j, phase) \in Exec
  BY DEF Claim, Exec, Row, RunnerInv, QueueInv, RowInv
<1>c. ASSUME execs' = execs
      PROVE  Tokens' = Tokens /\ \A t \in Tokens' : GoesOn(t)
  BY <1>c DEF GoesOn, Kept, Tokens
<1>d. /\ Dropped(n) \in Seq(Exec) /\ DOMAIN Dropped(n) = Tokens
      /\ \A t \in Tokens :
            /\ Identity(Dropped(n)[t]) = Identity(execs[t])
            /\ Counts(Dropped(n)[t]) => Counts(execs[t])
            /\ Dropped(n)[t].phase = "done" => execs[t].phase = "done"
            /\ Covered(execs[t]) => Covered(Dropped(n)[t])
  <2>1. DOMAIN Dropped(n) = Tokens
    BY DEF Dropped
  <2>2. ASSUME NEW e \in Exec, NEW f, f = [e EXCEPT !.phase = "lost"]
        PROVE  /\ f \in Exec /\ Identity(f) = Identity(e)
               /\ f.slot = e.slot /\ f.phase = "lost" /\ f.body = e.body
    BY <2>2 DEF Exec, Identity
  <2>3. \A t \in Tokens : \/ Dropped(n)[t] = execs[t]
                          \/ Dropped(n)[t] = [execs[t] EXCEPT !.phase = "lost"]
    BY DEF Dropped
  <2>4. \A t \in Tokens :
           /\ Dropped(n)[t] \in Exec
           /\ Identity(Dropped(n)[t]) = Identity(execs[t])
           /\ Counts(Dropped(n)[t]) => Counts(execs[t])
           /\ Dropped(n)[t].phase = "done" => execs[t].phase = "done"
           /\ Covered(execs[t]) => Covered(Dropped(n)[t])
    <3>. TAKE t \in Tokens
    <3>1. CASE Dropped(n)[t] = execs[t]
      BY <1>a, <3>1
    <3>2. CASE Dropped(n)[t] = [execs[t] EXCEPT !.phase = "lost"]
      BY <1>a, <2>2, <3>2 DEF Counts, Covered
    <3>. QED
      BY <2>3, <3>1, <3>2
  <2>5. Dropped(n) = [t \in 1..Len(execs) |-> Dropped(n)[t]]
    BY <1>a DEF Dropped
  <2>6. Dropped(n) \in [1..Len(execs) -> Exec]
    BY <1>a, <2>4, <2>5
  <2>. QED
    BY <1>a, <2>1, <2>4, <2>6, FunctionIsSequence
<1>1. CASE StartTick(n) \/ AbortTick(n) \/ Boot(n)
  BY <1>1, <1>c DEF StartTick, AbortTick, Boot, runnerVars
<1>2. CASE ClaimNext(n)
  <2>1. PICK j \in Present : execs' = Append(execs, Claim(n, j, "claimed"))
    BY <1>2 DEF ClaimNext
  <2>2. DOMAIN execs = Tokens
    BY DEF Tokens
  <2>. QED
    BY <1>2, <1>a, <1>b, <2>1, <2>2, AppendGoesOn
<1>3. CASE ClaimThrows(n)
  <2>1. CASE execs' = Dropped(n)
    BY <1>d, <2>1 DEF GoesOn, Kept, Tokens
  <2>2. CASE \E j \in Present : execs' = Append(Dropped(n), Claim(n, j, "lost"))
    <3>1. PICK j \in Present : execs' = Append(Dropped(n), Claim(n, j, "lost"))
      BY <2>2
    <3>2. \A t \in Tokens' : GoesOn(t) \/ (Starts(t) /\ execs'[t] = Claim(n, j, "lost"))
      BY <1>b, <1>d, <3>1, AppendGoesOn
    <3>3. ~Counts(Claim(n, j, "lost"))
      BY DEF Counts, Claim
    <3>. QED
      BY <3>2, <3>3 DEF GoesOn, Kept
  <2>. QED
    BY <1>3, <2>1, <2>2 DEF ClaimThrows
<1>4. CASE RunBatch(n)
  <2>1. Tokens' = Tokens
    BY <1>4 DEF RunBatch, Tokens
  <2>2. ASSUME NEW t \in Tokens PROVE GoesOn(t)
    <3>1. CASE t \in ExecsOf(n, "claimed")
      <4>1. /\ execs[t].phase = "claimed"
            /\ execs'[t] = [execs[t] EXCEPT !.phase = "running", !.body = "live",
                                            !.slot = TRUE, !.batch = TRUE]
        BY <1>4, <3>1 DEF RunBatch, ExecsOf
      <4>2. /\ Identity(execs'[t]) = Identity(execs[t])
            /\ execs'[t].phase = "running" /\ execs'[t].slot = TRUE
        BY <1>a, <4>1, StartedIs
      <4>. QED
        BY <4>1, <4>2 DEF GoesOn, Kept, Counts, Covered
    <3>2. CASE t \notin ExecsOf(n, "claimed")
      <4>1. execs'[t] = execs[t]
        BY <1>4, <3>2 DEF RunBatch
      <4>. QED
        BY <4>1 DEF GoesOn, Kept
    <3>. QED
      BY <3>1, <3>2
  <2>. QED
    BY <2>1, <2>2 DEF GoesOn, Kept
<1>5. CASE EndTick(n)
  <2>1. Tokens' = Tokens
    BY <1>5 DEF EndTick, Unbatched, Tokens
  <2>2. \A t \in Tokens : \/ execs'[t] = execs[t]
                          \/ execs'[t] = [execs[t] EXCEPT !.batch = FALSE]
    BY <1>5 DEF EndTick, Unbatched, Tokens
  <2>3. \A t \in Tokens : /\ Identity(execs'[t]) = Identity(execs[t])
                          /\ execs'[t].phase = execs[t].phase
                          /\ execs'[t].slot = execs[t].slot
                          /\ execs'[t].body = execs[t].body
    BY <1>a, <2>2, UnbatchedIs
  <2>. QED
    BY <2>1, <2>3 DEF GoesOn, Kept, Counts, Covered
<1>6. CASE Crash(n)
  <2>1. Tokens' = Tokens
    BY <1>6 DEF Crash, Tokens
  <2>2. \A t \in Tokens :
           \/ execs'[t] = execs[t]
           \/ /\ Identity(execs'[t]) = Identity(execs[t])
              /\ execs'[t].phase = IF execs[t].phase = "done" THEN "done" ELSE "lost"
              /\ execs'[t].slot = FALSE /\ execs'[t].body # "live"
    BY <1>6, <1>a DEF Crash, Exec, Identity
  <2>. QED
    BY <2>1, <2>2 DEF GoesOn, Kept, Counts, Covered
<1>. QED
  BY <1>1, <1>2, <1>3, <1>4, <1>5, <1>6 DEF NodeStep

\* Of the steps of an execution, those that finish it are settlements: they release the
\* row, find it released, or are refused by the index.
LEMMA ExecStepEnds ==
  ASSUME RunnerInv, ReadyKeysUnique(rows), NEW u \in Tokens, ExecStep(u)
  PROVE  Tokens' = Tokens /\ \A t \in Tokens : GoesOn(t) \/ Finishes(t)
<1>a. \A t \in Tokens : execs[t] \in Exec
  BY ExecFacts
<1>b. \A j \in Present : rows[j] \in Row
  BY DEF RunnerInv, QueueInv, RowInv
<1>c. ASSUME NEW e, execs' = [execs EXCEPT ![u] = e], GoesOn(u) \/ Finishes(u)
      PROVE  Tokens' = Tokens /\ \A t \in Tokens : GoesOn(t) \/ Finishes(t)
  BY <1>c DEF GoesOn, Kept, Tokens
<1>d. ASSUME NEW e, execs' = [execs EXCEPT ![u] = e],
             Identity(e) = Identity(execs[u]),
             e.phase \notin {"done", "claimed"} \/ e.phase = execs[u].phase,
             e.slot => execs[u].slot,
             e.body = "live" => e.slot = execs[u].slot /\ execs[u].body = "live"
      PROVE  GoesOn(u)
  BY <1>d DEF GoesOn, Kept, Tokens, Counts, Covered
<1>1. CASE Beats(u) \/ BodySchedules(u)
  BY <1>1 DEF Beats, BodySchedules, runnerVars, GoesOn, Kept, Tokens
<1>2. CASE BodyReturns(u) \/ BodyThrows(u)
  <2>1. PICK body \in {"off", "ok"}, phase \in {"succeeding", "failing"} :
            execs' = [execs EXCEPT ![u] = [execs[u] EXCEPT !.body = body, !.phase = phase]]
    BY <1>2 DEF BodyReturns, BodyThrows, BodyEnds
  <2> DEFINE e == [execs[u] EXCEPT !.body = body, !.phase = phase]
  <2>2. /\ Identity(e) = Identity(execs[u]) /\ e.phase \notin {"done", "claimed"}
        /\ e.slot = execs[u].slot /\ e.body # "live"
    BY <1>a DEF Exec, Identity
  <2>3. execs' = [execs EXCEPT ![u] = e]
    BY <2>1
  <2>. HIDE DEF e
  <2>4. GoesOn(u)
    BY <1>d, <2>2, <2>3
  <2>. QED
    BY <1>c, <2>3, <2>4
<1>3. CASE ZombieSettles(u)
  <2> DEFINE slot == execs[u].slot /\ execs[u].phase # "done"
  <2> DEFINE e == [execs[u] EXCEPT !.body = "off", !.slot = slot]
  <2>1. execs' = [execs EXCEPT ![u] = e]
    BY <1>3 DEF ZombieSettles
  <2>2. slot => execs[u].slot
    OBVIOUS
  <2>. HIDE DEF slot
  <2>3. /\ Identity(e) = Identity(execs[u]) /\ e.phase = execs[u].phase
        /\ e.slot = slot /\ e.body # "live"
    BY <1>a DEF Exec, Identity
  <2>. HIDE DEF e
  <2>4. GoesOn(u)
    BY <1>d, <2>1, <2>2, <2>3
  <2>. QED
    BY <1>c, <2>1, <2>4
<1>4. CASE TimesOut(u) \/ LosesLease(u) \/ SucceedThrows(u)
  <2> DEFINE e == [execs[u] EXCEPT !.phase = "failing"]
  <2>1. execs' = [execs EXCEPT ![u] = e]
    BY <1>4 DEF TimesOut, LosesLease, Interrupt, SucceedThrows
  <2>2. /\ Identity(e) = Identity(execs[u]) /\ e.phase = "failing"
        /\ e.slot = execs[u].slot /\ e.body = execs[u].body
    BY <1>a DEF Exec, Identity
  <2>. HIDE DEF e
  <2>3. GoesOn(u)
    BY <1>d, <2>1, <2>2
  <2>. QED
    BY <1>c, <2>1, <2>3
<1>5. CASE Succeeds(u) \/ Fails(u)
  <2> DEFINE slot == execs[u].slot /\ execs[u].body = "live"
  <2> DEFINE e == [execs[u] EXCEPT !.phase = "done", !.slot = slot]
  <2>1. execs' = [execs EXCEPT ![u] = e]
    BY <1>5 DEF Succeeds, Fails, Settled
  <2>2. (slot => execs[u].slot) /\ (execs[u].body = "live" /\ execs[u].slot => slot)
    OBVIOUS
  <2>. HIDE DEF slot
  <2>3. /\ Identity(e) = Identity(execs[u]) /\ e.phase = "done"
        /\ e.slot = slot /\ e.body = execs[u].body
    BY <1>a DEF Exec, Identity
  <2>. HIDE DEF e
  <2>4. execs'[u] = e
    BY <2>1 DEF Tokens
  <2>5. Kept(u) /\ (Covered(execs[u]) => Covered(execs'[u]))
    BY <2>2, <2>3, <2>4 DEF Kept, Counts, Covered
  <2> DEFINE j == execs[u].job
  <2>6. ~Holding(u)'
    <3>0. execs'[u].node = execs[u].node /\ execs'[u].job = execs[u].job
      BY <2>3, <2>4 DEF Identity
    <3>1. CASE ~Holds(j, Owner(u), u) /\ UNCHANGED queueVars
      BY <3>0, <3>1 DEF Holding, Holds, Owner, With, Present, queueVars
    <3>2. CASE \/ MarkSucceeded(j, Owner(u), u)
               \/ MarkFailed(j, Owner(u), u, RetryCeiling(u), FALSE)
      <4>1. j \in Present
        BY <3>2 DEF MarkSucceeded, MarkFailed, Holds, With
      <4>2. \/ rows' = [rows EXCEPT ![j] = Released(rows[j], "succeeded")]
            \/ rows' = [rows EXCEPT ![j] = FailedRow(rows[j], RetryCeiling(u), FALSE)]
        BY <3>2 DEF MarkSucceeded, MarkFailed, FailedTable
      <4>3. /\ Released(rows[j], "succeeded").status = "succeeded"
            /\ FailedRow(rows[j], RetryCeiling(u), FALSE).status \in {"ready", "dead"}
        BY <1>b, <4>1 DEF FailedRow, Released, Row
      <4>4. rows'[j].status # "running"
        BY <4>1, <4>2, <4>3 DEF Present
      <4>. QED
        BY <3>0, <4>4 DEF Holding, Holds, With
    <3>. QED
      BY <1>5, <3>1, <3>2 DEF Succeeds, Fails
  <2>7. Finishes(u)
    BY <2>5, <2>6 DEF Finishes
  <2>. QED
    BY <1>c, <2>1, <2>7
<1>6. CASE FailThrows(u)
  <2> DEFINE e == [execs[u] EXCEPT !.phase = "done", !.slot = FALSE]
  <2> DEFINE done == [execs EXCEPT ![u] = e]
  <2>1. execs' \in {done, Unbatched(done, execs[u].node)}
    BY <1>6 DEF FailThrows
  <2>2. /\ e \in Exec /\ Identity(e) = Identity(execs[u]) /\ e.phase = "done"
        /\ e.slot = FALSE
    BY <1>a DEF Exec, Identity
  <2>. HIDE DEF e
  <2>3. /\ DOMAIN done = Tokens /\ done[u] = e
        /\ \A t \in Tokens : done[t] \in Exec /\ (t # u => done[t] = execs[t])
    BY <1>a, <2>2 DEF Tokens
  <2>. HIDE DEF done
  <2>4. Tokens' = Tokens
    BY <2>1, <2>3 DEF Unbatched, Tokens
  <2>5. \A t \in Tokens : /\ Identity(execs'[t]) = Identity(done[t])
                          /\ execs'[t].phase = done[t].phase
                          /\ execs'[t].slot = done[t].slot
                          /\ execs'[t].body = done[t].body
    <3>1. CASE execs' = done
      BY <3>1
    <3>2. CASE execs' = Unbatched(done, execs[u].node)
      <4>1. \A t \in Tokens : \/ execs'[t] = done[t]
                              \/ execs'[t] = [done[t] EXCEPT !.batch = FALSE]
        BY <2>3, <3>2 DEF Unbatched
      <4>. QED
        BY <2>3, <4>1, UnbatchedIs
    <3>. QED
      BY <2>1, <3>1, <3>2
  <2>6. \A t \in Tokens \ {u} : GoesOn(t)
    BY <2>3, <2>5 DEF GoesOn, Kept, Counts, Covered
  <2>7. Kept(u)
    BY <2>2, <2>3, <2>5 DEF Kept, Counts
  <2>8. CASE execs[u].node \in Faulty
    BY <2>4, <2>6, <2>7, <2>8 DEF Finishes
  <2>9. CASE execs[u].node \notin Faulty
    <3>1. MarkFailedRejected(execs[u].job, Owner(u), u, RetryCeiling(u), FALSE)
      BY <1>6, <2>9 DEF FailThrows, MarkFailedThrows
    <3>2. execs[u].job \in Present /\ rows' = rows
      BY <3>1 DEF MarkFailedRejected, Holds, With, queueVars
    <3>3. rows[execs[u].job].key # NoKey
      BY <3>1, <3>2, RejectedIsKeyed DEF MarkFailedRejected, RunnerInv
    <3>. QED
      BY <2>4, <2>6, <2>7, <3>2, <3>3 DEF Finishes
  <2>. QED
    BY <2>8, <2>9
<1>. QED
  BY <1>1, <1>2, <1>3, <1>4, <1>5, <1>6 DEF ExecStep

\* What a step does to the executions.  Only a claim that had room adds to those that count.
LEMMA StepEnds ==
  ASSUME RunnerInv, ReadyKeysUnique(rows), [Next]_vars
  PROVE  /\ \A t \in Tokens' : GoesOn(t) \/ Finishes(t) \/ Starts(t)
         /\ \/ \E n \in Nodes : ClaimNext(n)
            \/ \A t \in Tokens' : Counts(execs'[t]) => t \in Tokens
<1>1. CASE \E n \in Nodes : NodeStep(n)
  BY <1>1, NodeStepGoesOn
<1>2. CASE \E t \in Tokens : ExecStep(t)
  BY <1>2, ExecStepEnds
<1>3. CASE execs' = execs
  BY <1>3 DEF GoesOn, Kept, Tokens
<1>. QED
  BY <1>1, <1>2, <1>3
     DEF Next, RequestSchedules, RequestCancels, Erases, JobComesDue, JobLeaseExpires,
         runnerVars, vars

-----------------------------------------------------------------------------
(* Rows are let go *)

LEMMA StepReleases ==
  ASSUME RunnerInv, ReadyKeysUnique(rows), FinishedClaimsReleased, [Next]_vars
  PROVE  FinishedClaimsReleased'
<1>. SUFFICES ASSUME NEW t \in Tokens', execs'[t].node \notin Faulty,
                     execs'[t].phase = "done", Holding(t)'
              PROVE  rows'[execs'[t].job].key # NoKey
  BY DEF FinishedClaimsReleased
<1>1. GoesOn(t) \/ Finishes(t)
  BY StepEnds DEF Starts
<1>2. /\ t \in Tokens /\ Identity(execs'[t]) = Identity(execs[t])
      /\ execs'[t].node = execs[t].node /\ execs'[t].job = execs[t].job
  BY <1>1 DEF GoesOn, Finishes, Kept, Identity
<1>3. CASE Finishes(t)
  BY <1>2, <1>3 DEF Finishes
<1>4. CASE GoesOn(t)
  <2>1. Holding(t) /\ rows'[execs[t].job].key = rows[execs[t].job].key
    BY <1>2, HeldIsHeldBefore
  <2>. QED
    BY <1>2, <1>4, <2>1 DEF GoesOn, FinishedClaimsReleased
<1>. QED
  BY <1>1, <1>3, <1>4

\* Every path of runJob out of the body ends in a settlement: on a node whose store calls
\* return, the execution of an unkeyed job that is over has let its row go.
THEOREM FinishedClaimsAreReleased == Spec => []FinishedClaimsReleased
<1>1. Init => FinishedClaimsReleased
  BY DEF Init, Tokens, FinishedClaimsReleased
<1>2. RunnerInv /\ ReadyKeysUnique(rows) /\ FinishedClaimsReleased /\ [Next]_vars
      => FinishedClaimsReleased'
  BY StepReleases
<1>. QED
  BY <1>1, <1>2, RunnerInvHolds, ReadyKeysStayUnique, PTL DEF Spec

-----------------------------------------------------------------------------
(* Caps *)

\* Claims and slots are within the caps, on every node.
SlotsCapped ==
    \A n \in Nodes :
        /\ Cardinality(Busy(n)) <= MaxInFlight
        /\ \A task \in Tasks : Cardinality(BusyOn(n, task)) <= Concurrency[task]

LEMMA BusyFinite ==
  ASSUME RunnerInv
  PROVE  /\ IsFiniteSet(Tokens)
         /\ \A n, task : IsFiniteSet(Busy(n)) /\ IsFiniteSet(BusyOn(n, task))
         /\ \A n, task : Cardinality(Busy(n)) \in Nat /\ Cardinality(BusyOn(n, task)) \in Nat
<1>1. IsFiniteSet(Tokens)
  BY TokensAre, FS_Interval DEF RunnerInv, QueueInv
<1>2. \A n, task : Busy(n) \in SUBSET Tokens /\ BusyOn(n, task) \in SUBSET Tokens
  BY DEF Busy, BusyOn
<1>. QED
  BY <1>1, <1>2, FS_Subset, FS_CardinalityType

LEMMA ClaimKeepsCaps ==
  ASSUME RunnerInv, SlotsCapped, NEW m \in Nodes, ClaimNext(m)
  PROVE  SlotsCapped'
<1>1. PICK j \in Present : /\ ClaimDue(j, ClaimableKeys(m), OwnerOf[m])
                           /\ execs' = Append(execs, Claim(m, j, "claimed"))
  BY DEF ClaimNext
<1> DEFINE e == Claim(m, j, "claimed")
<1> DEFINE new == Len(execs) + 1
<1>2. /\ e \in Exec /\ e.node = m /\ e.task = rows[j].task /\ e.phase = "claimed"
      /\ rows[j].task \in ClaimableKeys(m)
  <2>1. rows[j] \in Row
    BY DEF RunnerInv, QueueInv, RowInv
  <2>2. rows[j].task \in ClaimableKeys(m)
    BY <1>1 DEF ClaimDue, Claimable
  <2>3. /\ e.node = m /\ e.task = rows[j].task /\ e.phase = "claimed"
    BY DEF Claim
  <2>4. e \in Exec
    BY <2>1 DEF Claim, Exec, Row, RunnerInv, QueueInv
  <2>. QED
    BY <2>2, <2>3, <2>4
<1>. HIDE DEF e
<1>3. /\ Tokens' = Tokens \cup {new} /\ new \notin Tokens
      /\ execs'[new] = e /\ \A t \in Tokens : execs'[t] = execs[t]
  BY <1>1, <1>2, TokensAre, AppendProperties, LenProperties DEF Tokens, e, RunnerInv, ExecInv
<1>. HIDE DEF new
<1>4. PICK k \in Tasks : k = e.task
  BY <1>2 DEF Exec
<1>5. /\ Busy(m)' = Busy(m) \cup {new}
      /\ BusyOn(m, k)' = BusyOn(m, k) \cup {new}
      /\ \A task : task # k => BusyOn(m, task)' = BusyOn(m, task)
  <2>1. Busy(m)' = Busy(m) \cup {new}
    BY <1>2, <1>3 DEF Busy
  <2>2. \A t \in Busy(m) : t # new /\ execs'[t].task = execs[t].task
    BY <1>3 DEF Busy
  <2>3. execs'[new].task = k
    BY <1>3, <1>4
  <2>4. BusyOn(m, k)' = BusyOn(m, k) \cup {new}
    <3>1. \A t \in Busy(m) : t \in BusyOn(m, k)' <=> t \in BusyOn(m, k)
      BY <2>1, <2>2 DEF BusyOn
    <3>2. new \in BusyOn(m, k)'
      BY <2>1, <2>3 DEF BusyOn
    <3>3. /\ BusyOn(m, k)' \subseteq Busy(m) \cup {new}
          /\ BusyOn(m, k) \subseteq Busy(m)
      BY <2>1 DEF BusyOn
    <3>. QED
      BY <3>1, <3>2, <3>3
  <2>5. ASSUME NEW task, task # k
        PROVE  BusyOn(m, task)' = BusyOn(m, task)
    <3>1. \A t \in Busy(m) : t \in BusyOn(m, task)' <=> t \in BusyOn(m, task)
      BY <2>1, <2>2 DEF BusyOn
    <3>2. new \notin BusyOn(m, task)'
      BY <2>3, <2>5 DEF BusyOn
    <3>3. /\ BusyOn(m, task)' \subseteq Busy(m) \cup {new}
          /\ BusyOn(m, task) \subseteq Busy(m)
      BY <2>1 DEF BusyOn
    <3>. QED
      BY <3>1, <3>2, <3>3
  <2>. QED
    BY <2>1, <2>4, <2>5
<1>6. \A n : n # m => /\ Busy(n)' = Busy(n)
                      /\ \A task : BusyOn(n, task)' = BusyOn(n, task)
  BY <1>2, <1>3 DEF Busy, BusyOn
<1>7. /\ Cardinality(Busy(m)) < MaxInFlight
      /\ Cardinality(BusyOn(m, k)) < Concurrency[k]
  BY <1>2, <1>4 DEF ClaimNext, HasRoom, ClaimableKeys
<1>8. /\ new \notin Busy(m) /\ new \notin BusyOn(m, k)
  BY <1>3 DEF Busy, BusyOn
<1>9. /\ Cardinality(Busy(m)') = Cardinality(Busy(m)) + 1
      /\ Cardinality(BusyOn(m, k)') = Cardinality(BusyOn(m, k)) + 1
  <2>1. IsFiniteSet(Busy(m)) /\ IsFiniteSet(BusyOn(m, k))
    BY BusyFinite
  <2>2. Cardinality(Busy(m) \cup {new}) = Cardinality(Busy(m)) + 1
    BY <1>8, <2>1, FS_AddElement
  <2>3. Cardinality(BusyOn(m, k) \cup {new}) = Cardinality(BusyOn(m, k)) + 1
    BY <1>8, <2>1, FS_AddElement
  <2>. QED
    BY <1>5, <2>2, <2>3
<1>10. /\ Cardinality(Busy(m)') <= MaxInFlight
      /\ \A task \in Tasks : Cardinality(BusyOn(m, task)') <= Concurrency[task]
  <2>1. Concurrency[k] \in Nat /\ MaxInFlight \in Nat
    BY CapacityAssumption
  <2>2. Cardinality(Busy(m)') <= MaxInFlight
    BY <1>7, <1>9, <2>1, BusyFinite
  <2>3. Cardinality(BusyOn(m, k)') <= Concurrency[k]
    BY <1>7, <1>9, <2>1, BusyFinite
  <2>4. ASSUME NEW task \in Tasks, task # k
        PROVE  Cardinality(BusyOn(m, task)') <= Concurrency[task]
    BY <1>5, <2>4 DEF SlotsCapped
  <2>5. ASSUME NEW task \in Tasks
        PROVE  Cardinality(BusyOn(m, task)') <= Concurrency[task]
    <3>1. CASE task = k
      BY <2>3, <3>1
    <3>2. CASE task # k
      BY <2>4, <3>2
    <3>. QED
      BY <3>1, <3>2
  <2>. QED
    BY <2>2, <2>5
<1>. QED
  BY <1>6, <1>10 DEF SlotsCapped

LEMMA StepKeepsCaps ==
  ASSUME RunnerInv, ReadyKeysUnique(rows), SlotsCapped, [Next]_vars
  PROVE  SlotsCapped'
<1>1. CASE \E n \in Nodes : ClaimNext(n)
  BY <1>1, ClaimKeepsCaps
<1>2. CASE \A t \in Tokens' : Counts(execs'[t]) => t \in Tokens
  <2>1. ASSUME NEW t \in Tokens', Counts(execs'[t])
        PROVE  /\ t \in Tokens /\ Counts(execs[t])
               /\ execs'[t].node = execs[t].node /\ execs'[t].task = execs[t].task
    BY <1>2, <2>1, StepEnds DEF GoesOn, Finishes, Starts, Kept, Identity
  <2>2. \A n : Busy(n)' \subseteq Busy(n)
    BY <2>1 DEF Busy, Counts
  <2>3. \A n, task : BusyOn(n, task)' \subseteq BusyOn(n, task) /\ BusyOn(n, task) \subseteq Busy(n)
    BY <2>1 DEF Busy, BusyOn, Counts
  <2>4. ASSUME NEW n \in Nodes
        PROVE  /\ Cardinality(Busy(n)') <= MaxInFlight
               /\ \A task \in Tasks : Cardinality(BusyOn(n, task)') <= Concurrency[task]
    <3>1. MaxInFlight \in Nat /\ \A task \in Tasks : Concurrency[task] \in Nat
      BY CapacityAssumption
    <3>2. Cardinality(Busy(n)') <= Cardinality(Busy(n)) /\ Cardinality(Busy(n)') \in Nat
      BY <2>2, BusyFinite, FS_Subset, FS_CardinalityType
    <3>3. \A task : /\ Cardinality(BusyOn(n, task)') <= Cardinality(BusyOn(n, task))
                    /\ Cardinality(BusyOn(n, task)') \in Nat
      BY <2>3, BusyFinite, FS_Subset, FS_CardinalityType
    <3>. QED
      BY <3>1, <3>2, <3>3, BusyFinite DEF SlotsCapped
  <2>. QED
    BY <2>4 DEF SlotsCapped
<1>. QED
  BY <1>1, <1>2, StepEnds

\* claimableTaskKeys and the batch loop never claim past a cap, whatever the store does: the
\* slots that are counted are always within them.
THEOREM SlotsStayCapped == Spec => []SlotsCapped
<1>1. Init => SlotsCapped
  <2>. SUFFICES ASSUME Init PROVE SlotsCapped
    OBVIOUS
  <2>1. \A n, task : Busy(n) = {} /\ BusyOn(n, task) = {}
    BY DEF Init, Busy, BusyOn, Tokens
  <2>2. MaxInFlight >= 0 /\ \A task \in Tasks : Concurrency[task] >= 0
    BY CapacityAssumption
  <2>. QED
    BY <2>1, <2>2, FS_EmptySet DEF SlotsCapped
<1>2. RunnerInv /\ ReadyKeysUnique(rows) /\ SlotsCapped /\ [Next]_vars => SlotsCapped'
  BY StepKeepsCaps
<1>. QED
  BY <1>1, <1>2, RunnerInvHolds, ReadyKeysStayUnique, PTL DEF Spec

\* Without keys no settlement is refused, and every body that runs has its slot.
Unkeyed == \A in \in Inputs : in.key = NoKey

BodiesCovered ==
    /\ \A j \in Present : rows[j].key = NoKey
    /\ \A t \in Tokens : execs[t].node \notin Faulty => Covered(execs[t])

LEMMA StepKeepsCover ==
  ASSUME Unkeyed, RunnerInv, ReadyKeysUnique(rows), BodiesCovered, [Next]_vars
  PROVE  BodiesCovered'
<1>1. \A j \in Present' : rows'[j].key = NoKey
  <2>1. \A j \in Present' : Follows(j)
    BY StepRefines, StatementFollows DEF RunnerInv, Continued, Present
  <2>. QED
    BY <2>1 DEF Follows, Unkeyed, BodiesCovered
<1>2. ASSUME NEW t \in Tokens', execs'[t].node \notin Faulty
      PROVE  Covered(execs'[t])
  <2>1. CASE Starts(t)
    BY <2>1 DEF Starts, Covered
  <2>2. CASE GoesOn(t) \/ Finishes(t)
    <3>1. t \in Tokens /\ execs'[t].node = execs[t].node
      BY <2>2 DEF GoesOn, Finishes, Kept, Identity
    <3>. QED
      BY <1>2, <2>2, <3>1 DEF GoesOn, Finishes, BodiesCovered
  <2>. QED
    BY <2>1, <2>2, StepEnds
<1>. QED
  BY <1>1, <1>2 DEF BodiesCovered

\* On a node whose store calls return, the bodies that really run, timed out ones included, are
\* within the caps of the node as long as no schedule has a key (runTrackedJob keeps the slot
\* until the abandoned body settles; a retry that the index refuses would free it).
THEOREM UnkeyedBodiesCapped ==
  ASSUME Unkeyed
  PROVE  Spec => []HealthyBodiesCapped
<1>1. Init => BodiesCovered
  BY DEF Init, QueueInit, BodiesCovered, Present, Tokens
<1>2. RunnerInv /\ ReadyKeysUnique(rows) /\ BodiesCovered /\ [Next]_vars => BodiesCovered'
  BY StepKeepsCover
<1>3. ASSUME RunnerInv, BodiesCovered, SlotsCapped PROVE HealthyBodiesCapped
  <2>. SUFFICES ASSUME NEW n \in Nodes \ Faulty
                PROVE  LET live == {t \in Tokens : execs[t].node = n /\ execs[t].body = "live"}
                       IN  /\ Cardinality(live) <= MaxInFlight
                           /\ \A task \in Tasks :
                                 Cardinality({t \in live : execs[t].task = task})
                                    <= Concurrency[task]
    BY DEF HealthyBodiesCapped, BodiesWithinCaps
  <2> DEFINE live == {t \in Tokens : execs[t].node = n /\ execs[t].body = "live"}
  <2> DEFINE liveOn(task) == {t \in live : execs[t].task = task}
  <2>1. live \subseteq Busy(n)
    BY <1>3 DEF BodiesCovered, Covered, Busy
  <2>2. \A task : liveOn(task) \subseteq BusyOn(n, task)
    BY <2>1 DEF BusyOn
  <2>. HIDE DEF live, liveOn
  <2>3. /\ Cardinality(live) <= Cardinality(Busy(n)) /\ Cardinality(live) \in Nat
        /\ \A task : /\ Cardinality(liveOn(task)) <= Cardinality(BusyOn(n, task))
                     /\ Cardinality(liveOn(task)) \in Nat
    BY <1>3, <2>1, <2>2, BusyFinite, FS_Subset, FS_CardinalityType
  <2>4. MaxInFlight \in Nat /\ \A task \in Tasks : Concurrency[task] \in Nat
    BY CapacityAssumption
  <2>5. /\ Cardinality(live) <= MaxInFlight
        /\ \A task \in Tasks : Cardinality(liveOn(task)) <= Concurrency[task]
    BY <1>3, <2>3, <2>4, BusyFinite DEF SlotsCapped
  <2>. QED
    BY <2>5 DEF live, liveOn
<1>. QED
  BY <1>1, <1>2, <1>3, RunnerInvHolds, ReadyKeysStayUnique, SlotsStayCapped, PTL DEF Spec

=============================================================================
