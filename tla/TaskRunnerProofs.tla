-------------------------- MODULE TaskRunnerProofs --------------------------
(***************************************************************************)
(* The runner nodes use the job table the way TaskQueue's general client   *)
(* may, so whatever is proved of the table holds while they drain it.      *)
(*                                                                         *)
(* The general client is limited to what a claimant may send: a token that *)
(* was minted, an owner, a ceiling of the row's task, a generation at most *)
(* one above the largest.  RunnerInv says why the runner stays within it:  *)
(* the executions are the tokens, an execution still describes the row it  *)
(* claimed (ids are never reused), and neither a row that may run nor an   *)
(* execution is past the generation ceiling.                               *)
(***************************************************************************)
EXTENDS TaskRunner, TaskQueueProofs, SequenceTheorems

Identity(e) == <<e.node, e.job, e.task, e.generation, e.principal>>

LiveGenerations ==
    \A j \in Present :
        rows[j].status \in {"ready", "running"} => rows[j].generation <= MaxGenerations

ExecInv ==
    /\ tick \in [Nodes -> {"down", "idle", "claim", "drain"}]
    /\ execs \in Seq(Exec)
    /\ Len(execs) = minted
    /\ \A t \in 1..Len(execs) :
          /\ execs[t].generation <= MaxGenerations
          /\ execs[t].job \in spent
          /\ execs[t].job \in Present => rows[execs[t].job].task = execs[t].task

RunnerInv == QueueInv /\ LiveGenerations /\ ExecInv

-----------------------------------------------------------------------------
(* Sequences of executions *)

LEMMA FunctionIsSequence ==
  ASSUME NEW S, NEW n \in Nat, NEW f \in [1..n -> S]
  PROVE  f \in Seq(S) /\ Len(f) = n
  OBVIOUS

LEMMA TokensAre == ASSUME ExecInv PROVE Tokens = 1..minted /\ Tokens = 1..Len(execs)
  BY LenProperties DEF ExecInv, Tokens

-----------------------------------------------------------------------------
(* What the table keeps of a row while it exists *)

\* A row that is there before and after is the same job, and is live afterwards
\* only if it was live before; a new row has an id that was never used, and is
\* live only within the generation ceiling.
Continues(j) ==
    \/ /\ j \in Present
       /\ rows'[j].task = rows[j].task
       /\ rows'[j].generation = rows[j].generation
       /\ rows'[j].status \in {"ready", "running"}
             => rows[j].status \in {"ready", "running"}
    \/ /\ j \notin spent
       /\ rows'[j].status \in {"ready", "running"}
             => rows'[j].generation <= MaxGenerations

LEMMA EnqueueContinues ==
  ASSUME QueueInv, NEW in \in Inputs, NEW generation, NEW who,
         Enqueue(in, generation, who)
  PROVE  /\ \A j \in DOMAIN rows' : Continues(j)
         /\ spent \subseteq spent'
<1>a. \A j \in Present : rows[j] \in Row
  BY DEF QueueInv, RowInv
<1>1. CASE \E j \in Jobs : Insert(j, in, generation, who)
  <2>1. PICK j \in Jobs : Insert(j, in, generation, who)
    BY <1>1
  <2>2. \A i \in Present : rows'[i] = rows[i]
    BY <2>1 DEF Insert, QueueInv, Present
  <2>3. rows'[j] = NewRow(in, generation, who) /\ j \notin spent
    BY <2>1 DEF Insert, Present
  <2>4. rows'[j].status \in {"ready", "running"} => rows'[j].generation <= MaxGenerations
    BY <2>3 DEF NewRow, GenerationStatus
  <2>. QED
    BY <2>1, <2>2, <2>3, <2>4 DEF Insert, Continues, Present
<1>2. CASE Debounce(in, generation, who)
  <2>1. DOMAIN rows' = Present /\ spent' = spent
    BY <1>2 DEF Debounce
  <2>2. \A j \in Present : /\ rows'[j].task = rows[j].task
                           /\ rows'[j].generation = rows[j].generation
                           /\ rows'[j].status = rows[j].status
    BY <1>2, <1>a DEF Debounce, Row
  <2>. QED
    BY <2>1, <2>2 DEF Continues
<1>3. CASE Throttle(in, generation)
  <2>1. DOMAIN rows' = Present /\ spent' = spent
    BY <1>3 DEF Throttle
  <2>2. \A j \in Present : /\ rows'[j].task = rows[j].task
                           /\ rows'[j].generation = rows[j].generation
                           /\ rows'[j].status = rows[j].status
    BY <1>3, <1>a DEF Throttle, Row
  <2>. QED
    BY <2>1, <2>2 DEF Continues
<1>. QED
  BY <1>1, <1>2, <1>3 DEF Enqueue

\* A statement that changes status, lease and attempts of one row.
LEMMA RewriteContinues ==
  ASSUME NEW j \in Present, NEW row, rows' = [rows EXCEPT ![j] = row],
         rows[j].status \in {"ready", "running"},
         row.task = rows[j].task, row.generation = rows[j].generation,
         UNCHANGED spent
  PROVE  /\ \A i \in DOMAIN rows' : Continues(i)
         /\ spent \subseteq spent'
  BY DEF Continues, Present

LEMMA SettleContinues ==
  ASSUME QueueInv, NEW j \in Present, NEW owner, NEW token,
         Settle(j, owner, token)
  PROVE  /\ \A i \in DOMAIN rows' : Continues(i)
         /\ spent \subseteq spent'
<1>1. /\ rows[j] \in Row /\ rows[j].status = "running" /\ spent' = spent
  BY DEF QueueInv, RowInv, Settle, Heartbeat, MarkSucceeded, MarkFailed, Holds, With
<1>2. CASE rows' = [rows EXCEPT ![j] = [rows[j] EXCEPT !.expired = FALSE]]
  BY <1>1, <1>2, RewriteContinues DEF Row
<1>3. \A status : /\ Released(rows[j], status).task = rows[j].task
                  /\ Released(rows[j], status).generation = rows[j].generation
  BY <1>1 DEF Released, Row
<1>4. CASE rows' = [rows EXCEPT ![j] = Released(rows[j], "succeeded")]
  BY <1>1, <1>3, <1>4, RewriteContinues
<1>5. \A ceiling, due :
         /\ FailedRow(rows[j], ceiling, due).task = rows[j].task
         /\ FailedRow(rows[j], ceiling, due).generation = rows[j].generation
  BY <1>1 DEF FailedRow, Released, Row
<1>6. ASSUME NEW ceiling, NEW due,
             rows' = [rows EXCEPT ![j] = FailedRow(rows[j], ceiling, due)]
      PROVE  \A i \in DOMAIN rows' : Continues(i)
  BY <1>1, <1>5, <1>6, RewriteContinues
<1>7. \/ rows' = [rows EXCEPT ![j] = [rows[j] EXCEPT !.expired = FALSE]]
      \/ rows' = [rows EXCEPT ![j] = Released(rows[j], "succeeded")]
      \/ \E ceiling, due : rows' = [rows EXCEPT ![j] = FailedRow(rows[j], ceiling, due)]
  BY DEF Settle, Heartbeat, MarkSucceeded, MarkFailed, FailedTable
<1>. QED
  BY <1>1, <1>2, <1>4, <1>6, <1>7

LEMMA StepContinues ==
  ASSUME QueueInv, [QueueNext]_queueVars
  PROVE  /\ \A j \in DOMAIN rows' : Continues(j)
         /\ spent \subseteq spent'
<1>a. \A j \in Present : rows[j] \in Row
  BY DEF QueueInv, RowInv
<1>0. CASE UNCHANGED queueVars
  BY <1>0 DEF queueVars, Continues, Present
<1>1. CASE \E in \in Inputs, generation \in 0..(MaxGenerations + 1),
              who \in Principals \cup {NoPrincipal} : Enqueue(in, generation, who)
  BY <1>1, EnqueueContinues
<1>2. CASE \E j \in Present : Cancel(j)
  <2>1. PICK j \in Present : Cancel(j)
    BY <1>2
  <2>2. /\ rows' = [rows EXCEPT ![j] = [rows[j] EXCEPT !.status = "cancelled"]]
        /\ rows[j].status = "ready" /\ UNCHANGED spent
    BY <2>1 DEF Cancel, With
  <2>. QED
    BY <1>a, <2>2, RewriteContinues DEF Row
<1>3. CASE \E j \in Present, keys \in SUBSET Tasks, owner \in Owners :
              ClaimDue(j, keys, owner)
  <2>1. PICK j \in Present, keys \in SUBSET Tasks, owner \in Owners :
            ClaimDue(j, keys, owner)
    BY <1>3
  <2>2. /\ rows' = [rows EXCEPT ![j] = [rows[j] EXCEPT
                        !.status = "running", !.attempts = rows[j].attempts + 1,
                        !.owner = owner, !.token = minted + 1, !.expired = FALSE]]
        /\ rows[j].status = "ready" /\ UNCHANGED spent
    BY <2>1 DEF ClaimDue, Claimable, With
  <2>. QED
    BY <1>a, <2>2, RewriteContinues DEF Row
<1>4. CASE \E j \in Present, owner \in Owners, token \in 1..minted :
              Settle(j, owner, token)
  BY <1>4, SettleContinues
<1>5. CASE ReapExpiredLeases
  <2>1. \A j \in Expired : rows[j].status = "running"
    BY DEF Expired, With
  <2>2. \A j \in Present : /\ ReapedRow(rows[j]).task = rows[j].task
                           /\ ReapedRow(rows[j]).generation = rows[j].generation
    BY <1>a DEF ReapedRow, Released, Row
  <2>. QED
    BY <1>5, <2>1, <2>2 DEF ReapExpiredLeases, ReapedTable, Continues
<1>6. CASE \E who \in Principals : ErasePrincipal(who)
  BY <1>6 DEF ErasePrincipal, Continues, Present
<1>7. CASE \E j \in Present : BecomesDue(j)
  <2>1. PICK j \in Present : BecomesDue(j)
    BY <1>7
  <2>2. /\ rows' = [rows EXCEPT ![j] = [rows[j] EXCEPT !.due = TRUE]]
        /\ rows[j].status = "ready" /\ UNCHANGED spent
    BY <2>1 DEF BecomesDue, With
  <2>. QED
    BY <1>a, <2>2, RewriteContinues DEF Row
<1>8. CASE \E j \in Present : LeaseExpires(j)
  <2>1. PICK j \in Present : LeaseExpires(j)
    BY <1>8
  <2>2. /\ rows' = [rows EXCEPT ![j] = [rows[j] EXCEPT !.expired = TRUE]]
        /\ rows[j].status = "running" /\ UNCHANGED spent
    BY <2>1 DEF LeaseExpires, With
  <2>. QED
    BY <1>a, <2>2, RewriteContinues DEF Row
<1>. QED
  BY <1>0, <1>1, <1>2, <1>3, <1>4, <1>5, <1>6, <1>7, <1>8 DEF QueueNext, Enqueues, RowsMove

LEMMA LiveGenerationsKept ==
  ASSUME QueueInv, LiveGenerations, [QueueNext]_queueVars
  PROVE  LiveGenerations'
  BY StepContinues DEF LiveGenerations, Continues, Present

-----------------------------------------------------------------------------
(* Every step is a step of the general client, or none *)

LEMMA ExecFacts ==
  ASSUME RunnerInv, NEW t \in Tokens
  PROVE  /\ execs[t] \in Exec /\ t \in 1..minted
         /\ Owner(t) \in Owners
         /\ execs[t].generation \in Nat /\ execs[t].generation <= MaxGenerations
         /\ execs[t].job \in spent
         /\ execs[t].job \in Present => rows[execs[t].job].task = execs[t].task
         /\ RetryCeiling(t) \in 1..Ceiling[execs[t].task]
<1>1. t \in 1..minted /\ t \in 1..Len(execs) /\ execs \in Seq(Exec)
  BY TokensAre DEF RunnerInv, ExecInv
<1>2. execs[t] \in Exec
  BY <1>1, ElementOfSeq
<1>3. execs[t].node \in Nodes /\ execs[t].task \in Tasks /\ execs[t].generation \in Nat
  BY <1>2 DEF Exec
<1>. QED
  BY <1>1, <1>2, <1>3, NodeAssumption, RetryAssumption
     DEF Owner, RetryCeiling, RunnerInv, ExecInv

\* A claimant that holds its row sends what QueueNext lets a claimant send.
LEMMA SettlesLikeAClient ==
  ASSUME RunnerInv, NEW t \in Tokens,
         \/ Heartbeat(execs[t].job, Owner(t), t)
         \/ MarkSucceeded(execs[t].job, Owner(t), t)
         \/ MarkFailed(execs[t].job, Owner(t), t, RetryCeiling(t), FALSE)
  PROVE  QueueNext
<1>1. execs[t].job \in Present
  BY DEF Heartbeat, MarkSucceeded, MarkFailed, Holds, With
<1>2. /\ t \in 1..minted /\ Owner(t) \in Owners
      /\ RetryCeiling(t) \in 1..Ceiling[rows[execs[t].job].task]
  BY <1>1, ExecFacts
<1>3. Settle(execs[t].job, Owner(t), t)
  BY <1>2 DEF Settle
<1>. QED
  BY <1>1, <1>2, <1>3 DEF QueueNext, Enqueues, RowsMove

LEMMA ClaimsLikeAClient ==
  ASSUME NEW n \in Nodes, NEW j \in Present, ClaimDue(j, ClaimableKeys(n), OwnerOf[n])
  PROVE  QueueNext
<1>1. OwnerOf[n] \in Owners /\ ClaimableKeys(n) \in SUBSET Tasks
  BY NodeAssumption DEF ClaimableKeys
<1>. QED
  BY <1>1 DEF QueueNext, Enqueues, RowsMove

LEMMA NodeStepRefines ==
  ASSUME RunnerInv, NEW n \in Nodes, NodeStep(n)
  PROVE  [QueueNext]_queueVars
<1>1. CASE StartTick(n) \/ AbortTick(n)
  BY <1>1 DEF StartTick, AbortTick, ReapRejected, QueueNext, Enqueues, RowsMove
<1>2. CASE ClaimNext(n) \/ ClaimThrows(n)
  BY <1>2, ClaimsLikeAClient DEF ClaimNext, ClaimThrows
<1>3. CASE RunBatch(n) \/ EndTick(n) \/ Crash(n) \/ Boot(n)
  BY <1>3 DEF RunBatch, EndTick, Crash, Boot, queueVars
<1>. QED
  BY <1>1, <1>2, <1>3 DEF NodeStep

LEMMA ExecStepRefines ==
  ASSUME RunnerInv, NEW t \in Tokens, ExecStep(t)
  PROVE  [QueueNext]_queueVars
<1>1. CASE \/ BodyReturns(t) \/ BodyThrows(t) \/ ZombieSettles(t)
           \/ TimesOut(t) \/ LosesLease(t)
  BY <1>1 DEF BodyReturns, BodyThrows, BodyEnds, ZombieSettles, TimesOut,
              LosesLease, Interrupt, queueVars
<1>2. CASE BodySchedules(t)
  <2>1. PICK in \in ChildInputs :
            Enqueue(in, execs[t].generation + 1, execs[t].principal)
    BY <1>2 DEF BodySchedules
  <2>2. /\ in \in Inputs
        /\ execs[t].generation + 1 \in 0..(MaxGenerations + 1)
        /\ execs[t].principal \in Principals \cup {NoPrincipal}
    BY ExecFacts, ChildAssumption, NumberAssumption DEF Exec
  <2>. QED
    BY <2>1, <2>2 DEF QueueNext, Enqueues, RowsMove
<1>3. CASE Beats(t)
  BY <1>3, SettlesLikeAClient DEF Beats
<1>4. CASE Succeeds(t) \/ SucceedThrows(t)
  BY <1>4, SettlesLikeAClient DEF Succeeds, SucceedThrows
<1>5. CASE Fails(t) \/ FailThrows(t)
  BY <1>5, SettlesLikeAClient DEF Fails, FailThrows, MarkFailedThrows, MarkFailedRejected
<1>. QED
  BY <1>1, <1>2, <1>3, <1>4, <1>5 DEF ExecStep

LEMMA StepRefines ==
  ASSUME RunnerInv, [Next]_vars
  PROVE  [QueueNext]_queueVars
<1>1. CASE \E n \in Nodes : NodeStep(n)
  BY <1>1, NodeStepRefines
<1>2. CASE \E t \in Tokens : ExecStep(t)
  BY <1>2, ExecStepRefines
<1>3. CASE RequestSchedules
  <2>1. 0 \in 0..(MaxGenerations + 1)
    BY NumberAssumption
  <2>. QED
    BY <1>3, <2>1 DEF RequestSchedules, QueueNext, Enqueues, RowsMove
<1>4. CASE RequestCancels \/ Erases
  BY <1>4 DEF RequestCancels, Erases, QueueNext, Enqueues, RowsMove
<1>5. CASE \E j \in Present : JobComesDue(j) \/ JobLeaseExpires(j)
  BY <1>5 DEF JobComesDue, JobLeaseExpires, QueueNext, Enqueues, RowsMove
<1>6. CASE UNCHANGED vars
  BY <1>6 DEF vars, queueVars
<1>. QED
  BY <1>1, <1>2, <1>3, <1>4, <1>5, <1>6 DEF Next

-----------------------------------------------------------------------------
(* The invariant *)

\* Rewritten executions that stay about the same claims.
Rewrites(table) ==
    /\ table \in Seq(Exec) /\ Len(table) = Len(execs)
    /\ \A t \in 1..Len(execs) : Identity(table[t]) = Identity(execs[t])

LEMMA RewriteExecs ==
  ASSUME RunnerInv, [QueueNext]_queueVars, minted' = minted, Rewrites(execs'),
         tick' \in [Nodes -> {"down", "idle", "claim", "drain"}]
  PROVE  ExecInv'
<1>1. /\ \A j \in DOMAIN rows' : Continues(j)
      /\ spent \subseteq spent'
  BY StepContinues DEF RunnerInv
<1>2. \A t \in 1..Len(execs) : /\ execs'[t].generation = execs[t].generation
                              /\ execs'[t].job = execs[t].job
                              /\ execs'[t].task = execs[t].task
  BY DEF Rewrites, Identity
<1>3. \A t \in 1..Len(execs) :
         execs[t].job \in DOMAIN rows' => rows'[execs[t].job].task = execs[t].task
  BY <1>1 DEF RunnerInv, ExecInv, Continues
<1>. QED
  BY <1>1, <1>2, <1>3 DEF RunnerInv, ExecInv, Rewrites, Present

\* A new claim describes the row it claimed, on top of rewritten executions.
LEMMA AppendExec ==
  ASSUME RunnerInv, NEW n \in Nodes, NEW j \in Present,
         ClaimDue(j, ClaimableKeys(n), OwnerOf[n]),
         NEW table, Rewrites(table), NEW phase \in {"claimed", "lost"},
         execs' = Append(table, Claim(n, j, phase)),
         tick' \in [Nodes -> {"down", "idle", "claim", "drain"}]
  PROVE  ExecInv'
<1>1. /\ QueueInv /\ rows[j] \in Row /\ j \in Jobs /\ j \in spent
      /\ rows[j].status = "ready" /\ rows[j].generation <= MaxGenerations
  BY DEF RunnerInv, QueueInv, RowInv, LiveGenerations, ClaimDue, Claimable, With
<1>2. Claim(n, j, phase) \in Exec
  BY <1>1 DEF Claim, Exec, Row
<1>3. /\ execs' \in Seq(Exec) /\ Len(execs') = Len(execs) + 1
      /\ \A t \in 1..Len(execs) : execs'[t] = table[t]
      /\ execs'[Len(execs) + 1] = Claim(n, j, phase)
  BY <1>2, AppendProperties DEF Rewrites
<1>4. minted' = minted + 1 /\ spent' = spent /\ DOMAIN rows' = Present
      /\ \A i \in Present : rows'[i].task = rows[i].task
  <2>1. /\ minted' = minted + 1 /\ spent' = spent
        /\ rows' = [rows EXCEPT ![j] = [rows[j] EXCEPT
                        !.status = "running", !.attempts = rows[j].attempts + 1,
                        !.owner = OwnerOf[n], !.token = minted + 1, !.expired = FALSE]]
    BY DEF ClaimDue
  <2>. QED
    BY <1>1, <2>1 DEF Present, Row
<1>5. \A t \in 1..Len(execs) : /\ table[t].generation = execs[t].generation
                              /\ table[t].job = execs[t].job
                              /\ table[t].task = execs[t].task
  BY DEF Rewrites, Identity
<1>6. \A t \in 1..(Len(execs) + 1) :
         /\ execs'[t].generation <= MaxGenerations
         /\ execs'[t].job \in spent
         /\ execs'[t].job \in Present => rows[execs'[t].job].task = execs'[t].task
  <2>. SUFFICES ASSUME NEW t \in 1..(Len(execs) + 1)
                PROVE  /\ execs'[t].generation <= MaxGenerations
                       /\ execs'[t].job \in spent
                       /\ execs'[t].job \in Present
                             => rows[execs'[t].job].task = execs'[t].task
    OBVIOUS
  <2>1. Len(execs) \in Nat
    BY LenProperties DEF RunnerInv, ExecInv
  <2>2. CASE t \in 1..Len(execs)
    BY <1>3, <1>5, <2>2 DEF RunnerInv, ExecInv
  <2>3. CASE t = Len(execs) + 1
    <3>1. execs'[t] = Claim(n, j, phase)
      BY <1>3, <2>3
    <3>2. /\ Claim(n, j, phase).generation = rows[j].generation
          /\ Claim(n, j, phase).job = j
          /\ Claim(n, j, phase).task = rows[j].task
      BY DEF Claim
    <3>. QED
      BY <1>1, <3>1, <3>2
  <2>4. t \in 1..Len(execs) \/ t = Len(execs) + 1
    BY <2>1
  <2>. QED
    BY <2>2, <2>3, <2>4
<1>. QED
  BY <1>3, <1>4, <1>6 DEF RunnerInv, ExecInv, Present

\* The function updates the actions write are such rewritings.
LEMMA MapRewrites ==
  ASSUME RunnerInv, NEW table, table = [t \in Tokens |-> table[t]],
         \A t \in Tokens : table[t] \in Exec /\ Identity(table[t]) = Identity(execs[t])
  PROVE  Rewrites(table)
<1>1. Tokens = 1..Len(execs) /\ Len(execs) \in Nat
  BY TokensAre, LenProperties DEF RunnerInv, ExecInv
<1>2. table \in [1..Len(execs) -> Exec]
  BY <1>1
<1>3. table \in Seq(Exec) /\ Len(table) = Len(execs)
  BY <1>1, <1>2, FunctionIsSequence
<1>. QED
  BY <1>1, <1>3 DEF Rewrites

LEMMA ExceptRewrites ==
  ASSUME RunnerInv, NEW t \in Tokens, NEW e \in Exec, Identity(e) = Identity(execs[t])
  PROVE  Rewrites([execs EXCEPT ![t] = e])
<1> DEFINE table == [execs EXCEPT ![t] = e]
<1>1. \A u \in Tokens : execs[u] \in Exec
  BY ExecFacts
<1>2. table = [u \in Tokens |-> table[u]]
  BY DEF Tokens
<1>3. \A u \in Tokens : table[u] \in Exec /\ Identity(table[u]) = Identity(execs[u])
  BY <1>1 DEF Tokens
<1>. HIDE DEF table
<1>4. Rewrites(table)
  BY <1>2, <1>3, MapRewrites
<1>. QED
  BY <1>4 DEF table

LEMMA NodeStepKeepsExecs ==
  ASSUME RunnerInv, NEW n \in Nodes, NodeStep(n)
  PROVE  ExecInv'
<1>a. [QueueNext]_queueVars
  BY NodeStepRefines
<1>b. tick \in [Nodes -> {"down", "idle", "claim", "drain"}]
  BY DEF RunnerInv, ExecInv
<1>c. \A t \in Tokens : execs[t] \in Exec
  BY ExecFacts
<1>d. Rewrites(execs)
  BY DEF Rewrites, RunnerInv, ExecInv
<1>e. Rewrites(Dropped(n))
  <2>1. Dropped(n) = [t \in Tokens |-> Dropped(n)[t]]
    BY DEF Dropped
  <2>2. \A t \in Tokens : Dropped(n)[t] \in Exec
                         /\ Identity(Dropped(n)[t]) = Identity(execs[t])
    BY <1>c DEF Dropped, Exec, Identity
  <2>. QED
    BY <2>1, <2>2, MapRewrites
<1>1. CASE StartTick(n) \/ AbortTick(n) \/ Boot(n)
  <2>1. execs' = execs /\ minted' = minted
        /\ tick' \in [Nodes -> {"down", "idle", "claim", "drain"}]
    BY <1>1, <1>b DEF StartTick, AbortTick, Boot, ReapExpiredLeases, ReapRejected,
                      runnerVars, queueVars
  <2>. QED
    BY <1>a, <1>d, <2>1, RewriteExecs
<1>2. CASE ClaimNext(n)
  BY <1>2, <1>b, <1>d, AppendExec DEF ClaimNext
<1>3. CASE ClaimThrows(n)
  <2>1. tick' \in [Nodes -> {"down", "idle", "claim", "drain"}]
    BY <1>3, <1>b DEF ClaimThrows
  <2>2. CASE UNCHANGED queueVars /\ execs' = Dropped(n)
    BY <1>a, <1>e, <2>1, <2>2, RewriteExecs DEF queueVars
  <2>3. CASE \E j \in Present : /\ ClaimDue(j, ClaimableKeys(n), OwnerOf[n])
                               /\ execs' = Append(Dropped(n), Claim(n, j, "lost"))
    BY <1>e, <2>1, <2>3, AppendExec
  <2>. QED
    BY <1>3, <2>2, <2>3 DEF ClaimThrows
<1>4. CASE RunBatch(n)
  <2>1. execs' = [t \in Tokens |-> execs'[t]]
        /\ tick' \in [Nodes -> {"down", "idle", "claim", "drain"}] /\ minted' = minted
    BY <1>4, <1>b DEF RunBatch, queueVars
  <2>2. \A t \in Tokens : execs'[t] \in Exec /\ Identity(execs'[t]) = Identity(execs[t])
    BY <1>4, <1>c DEF RunBatch, Exec, Identity
  <2>3. Rewrites(execs')
    BY <2>1, <2>2, MapRewrites
  <2>. QED
    BY <1>a, <2>1, <2>3, RewriteExecs
<1>5. CASE EndTick(n)
  <2>1. execs' = [t \in Tokens |-> execs'[t]]
        /\ tick' \in [Nodes -> {"down", "idle", "claim", "drain"}] /\ minted' = minted
    BY <1>5, <1>b DEF EndTick, Unbatched, Tokens, queueVars
  <2>2. \A t \in Tokens : execs'[t] \in Exec /\ Identity(execs'[t]) = Identity(execs[t])
    BY <1>5, <1>c DEF EndTick, Unbatched, Tokens, Exec, Identity
  <2>3. Rewrites(execs')
    BY <2>1, <2>2, MapRewrites
  <2>. QED
    BY <1>a, <2>1, <2>3, RewriteExecs
<1>6. CASE Crash(n)
  <2>1. execs' = [t \in Tokens |-> execs'[t]]
        /\ tick' \in [Nodes -> {"down", "idle", "claim", "drain"}] /\ minted' = minted
    BY <1>6, <1>b DEF Crash, queueVars
  <2>2. \A t \in Tokens : execs'[t] \in Exec /\ Identity(execs'[t]) = Identity(execs[t])
    BY <1>6, <1>c DEF Crash, Exec, Identity
  <2>3. Rewrites(execs')
    BY <2>1, <2>2, MapRewrites
  <2>. QED
    BY <1>a, <2>1, <2>3, RewriteExecs
<1>. QED
  BY <1>1, <1>2, <1>3, <1>4, <1>5, <1>6 DEF NodeStep

LEMMA UnbatchedExec ==
  ASSUME NEW e \in Exec
  PROVE  /\ [e EXCEPT !.batch = FALSE] \in Exec
         /\ Identity([e EXCEPT !.batch = FALSE]) = Identity(e)
  BY DEF Exec, Identity

\* Every step of an execution rewrites that execution, or lets them all be; the
\* step that ends the tick of a node rewrites the node's batch too.
LEMMA ExecStepKeepsExecs ==
  ASSUME RunnerInv, NEW t \in Tokens, ExecStep(t)
  PROVE  ExecInv'
<1>a. [QueueNext]_queueVars
  BY ExecStepRefines
<1>b. tick \in [Nodes -> {"down", "idle", "claim", "drain"}]
  BY DEF RunnerInv, ExecInv
<1>c. \A u \in Tokens : execs[u] \in Exec
  BY ExecFacts
<1>d. Rewrites(execs)
  BY DEF Rewrites, RunnerInv, ExecInv
<1>e. minted' = minted
  BY DEF ExecStep, BodyReturns, BodyThrows, BodyEnds, ZombieSettles, TimesOut,
         LosesLease, Interrupt, Beats, BodySchedules, Enqueue, Insert, Debounce,
         Throttle, Succeeds, SucceedThrows, Fails, FailThrows, MarkFailedThrows,
         MarkFailedRejected, Heartbeat, MarkSucceeded, MarkFailed, queueVars
<1>1. CASE BodyReturns(t) \/ BodyThrows(t)
  <2>1. PICK body \in {"off", "ok"}, phase \in {"succeeding", "failing"} :
            execs' = [execs EXCEPT ![t] = [execs[t] EXCEPT !.body = body, !.phase = phase]]
    BY <1>1 DEF BodyReturns, BodyThrows, BodyEnds
  <2>2. /\ [execs[t] EXCEPT !.body = body, !.phase = phase] \in Exec
        /\ Identity([execs[t] EXCEPT !.body = body, !.phase = phase]) = Identity(execs[t])
    BY <1>c DEF Exec, Identity
  <2>3. Rewrites(execs')
    BY <2>1, <2>2, ExceptRewrites
  <2>4. tick' = tick
    BY <1>1 DEF BodyReturns, BodyThrows, BodyEnds
  <2>. QED
    BY <1>a, <1>b, <1>e, <2>3, <2>4, RewriteExecs
<1>2. CASE ZombieSettles(t)
  <2> DEFINE e == [execs[t] EXCEPT !.body = "off",
                                   !.slot = execs[t].slot /\ execs[t].phase # "done"]
  <2>1. execs' = [execs EXCEPT ![t] = e] /\ tick' = tick
    BY <1>2 DEF ZombieSettles
  <2>2. e \in Exec /\ Identity(e) = Identity(execs[t])
    BY <1>c DEF Exec, Identity
  <2>. HIDE DEF e
  <2>3. Rewrites(execs')
    BY <2>1, <2>2, ExceptRewrites
  <2>. QED
    BY <1>a, <1>b, <1>e, <2>1, <2>3, RewriteExecs
<1>3. CASE TimesOut(t) \/ LosesLease(t) \/ SucceedThrows(t)
  <2> DEFINE e == [execs[t] EXCEPT !.phase = "failing"]
  <2>1. execs' = [execs EXCEPT ![t] = e] /\ tick' = tick
    BY <1>3 DEF TimesOut, LosesLease, Interrupt, SucceedThrows
  <2>2. e \in Exec /\ Identity(e) = Identity(execs[t])
    BY <1>c DEF Exec, Identity
  <2>. HIDE DEF e
  <2>3. Rewrites(execs')
    BY <2>1, <2>2, ExceptRewrites
  <2>. QED
    BY <1>a, <1>b, <1>e, <2>1, <2>3, RewriteExecs
<1>4. CASE Beats(t) \/ BodySchedules(t)
  <2>1. execs' = execs /\ tick' = tick
    BY <1>4 DEF Beats, BodySchedules, runnerVars
  <2>. QED
    BY <1>a, <1>b, <1>d, <1>e, <2>1, RewriteExecs
<1>5. CASE Succeeds(t) \/ Fails(t)
  <2> DEFINE e == [execs[t] EXCEPT !.phase = "done",
                                   !.slot = execs[t].slot /\ execs[t].body = "live"]
  <2>1. execs' = [execs EXCEPT ![t] = e] /\ tick' = tick
    BY <1>5 DEF Succeeds, Fails, Settled
  <2>2. e \in Exec /\ Identity(e) = Identity(execs[t])
    BY <1>c DEF Exec, Identity
  <2>. HIDE DEF e
  <2>3. Rewrites(execs')
    BY <2>1, <2>2, ExceptRewrites
  <2>. QED
    BY <1>a, <1>b, <1>e, <2>1, <2>3, RewriteExecs
<1>6. CASE FailThrows(t)
  <2> DEFINE e == [execs[t] EXCEPT !.phase = "done", !.slot = FALSE]
  <2> DEFINE over == [execs EXCEPT ![t] = e]
  <2>1. e \in Exec /\ Identity(e) = Identity(execs[t])
    BY <1>c DEF Exec, Identity
  <2>2. \A u \in Tokens : over[u] \in Exec /\ Identity(over[u]) = Identity(execs[u])
    <3>. HIDE DEF e
    <3>. QED
      BY <1>c, <2>1 DEF Tokens
  <2>3. DOMAIN over = Tokens
    BY DEF Tokens
  <2>4. \/ tick' = tick /\ execs' = over
        \/ /\ tick' = [tick EXCEPT ![execs[t].node] = "idle"]
           /\ execs' = Unbatched(over, execs[t].node)
    BY <1>6 DEF FailThrows
  <2>. HIDE DEF over
  <2>5. tick' \in [Nodes -> {"down", "idle", "claim", "drain"}]
    BY <1>b, <2>4
  <2>6. Rewrites(execs')
    <3>1. CASE execs' = over
      BY <2>1, <3>1, ExceptRewrites DEF over
    <3>2. CASE execs' = Unbatched(over, execs[t].node)
      <4>1. execs' = [u \in Tokens |-> execs'[u]]
        BY <2>3, <3>2 DEF Unbatched
      <4>2. \A u \in Tokens : execs'[u] \in Exec /\ Identity(execs'[u]) = Identity(execs[u])
        <5>1. \A u \in Tokens : \/ execs'[u] = over[u]
                               \/ execs'[u] = [over[u] EXCEPT !.batch = FALSE]
          BY <2>3, <3>2 DEF Unbatched
        <5>2. \A u \in Tokens :
                 /\ [over[u] EXCEPT !.batch = FALSE] \in Exec
                 /\ Identity([over[u] EXCEPT !.batch = FALSE]) = Identity(over[u])
          BY <2>2, UnbatchedExec
        <5>. QED
          BY <2>2, <5>1, <5>2
      <4>. QED
        BY <4>1, <4>2, MapRewrites
    <3>. QED
      BY <2>4, <3>1, <3>2
  <2>. QED
    BY <1>a, <1>e, <2>5, <2>6, RewriteExecs
<1>. QED
  BY <1>1, <1>2, <1>3, <1>4, <1>5, <1>6 DEF ExecStep

LEMMA OtherStepKeepsExecs ==
  ASSUME RunnerInv, [Next]_vars, UNCHANGED runnerVars, minted' = minted
  PROVE  ExecInv'
<1>1. [QueueNext]_queueVars
  BY StepRefines
<1>2. Rewrites(execs') /\ tick' \in [Nodes -> {"down", "idle", "claim", "drain"}]
  BY DEF runnerVars, Rewrites, RunnerInv, ExecInv
<1>. QED
  BY <1>1, <1>2, RewriteExecs

LEMMA RunnerInit == Init => RunnerInv
<1>. SUFFICES ASSUME Init PROVE RunnerInv
  OBVIOUS
<1>1. QueueInv
  BY InitInv DEF Init
<1>2. LiveGenerations
  BY DEF Init, QueueInit, LiveGenerations, Present
<1>3. ExecInv
  BY EmptySeq DEF Init, QueueInit, ExecInv
<1>. QED
  BY <1>1, <1>2, <1>3 DEF RunnerInv

LEMMA RunnerStep == RunnerInv /\ [Next]_vars => RunnerInv'
<1>. SUFFICES ASSUME RunnerInv, [Next]_vars PROVE RunnerInv'
  OBVIOUS
<1>1. [QueueNext]_queueVars
  BY StepRefines
<1>2. QueueInv' /\ LiveGenerations'
  BY <1>1, StepInv, LiveGenerationsKept DEF RunnerInv
<1>3. ExecInv'
  <2>1. CASE \E n \in Nodes : NodeStep(n)
    BY <2>1, NodeStepKeepsExecs
  <2>2. CASE \E t \in Tokens : ExecStep(t)
    BY <2>2, ExecStepKeepsExecs
  <2>3. CASE RequestSchedules
    BY <2>3, OtherStepKeepsExecs
       DEF RequestSchedules, Enqueue, Insert, Debounce, Throttle
  <2>4. CASE RequestCancels \/ Erases
    BY <2>4, OtherStepKeepsExecs DEF RequestCancels, Erases, Cancel, ErasePrincipal
  <2>5. CASE \E j \in Present : JobComesDue(j) \/ JobLeaseExpires(j)
    BY <2>5, OtherStepKeepsExecs DEF JobComesDue, JobLeaseExpires, BecomesDue, LeaseExpires
  <2>6. CASE UNCHANGED vars
    BY <2>6, OtherStepKeepsExecs DEF vars, runnerVars
  <2>. QED
    BY <2>1, <2>2, <2>3, <2>4, <2>5, <2>6 DEF Next
<1>. QED
  BY <1>2, <1>3 DEF RunnerInv

\* The runners stay within the general client: one execution per token, each
\* about the row it claimed, and nothing live past the generation ceiling.
THEOREM RunnerInvHolds == Spec => []RunnerInv
  BY RunnerInit, RunnerStep, PTL DEF Spec

\* The state of the nodes is well formed and the executions are the tokens.
THEOREM RunnerTypeCorrect == Spec => []TypeOK
<1>1. RunnerInv => TypeOK
  BY DEF RunnerInv, QueueInv, RowInv, ExecInv, TypeOK, QueueTypeOK
<1>. QED
  BY <1>1, RunnerInvHolds, PTL

\* No execution is past the generation ceiling, whatever its lineage coalesced
\* with.
THEOREM GenerationsStayBounded == Spec => []GenerationsBounded
<1>1. RunnerInv => GenerationsBounded
  BY TokensAre DEF RunnerInv, ExecInv, GenerationsBounded
<1>. QED
  BY <1>1, RunnerInvHolds, PTL

\* The nodes implement the general client of the job table.
THEOREM RunnerImplementsQueue == Spec => QueueSpec
<1>1. Init => QueueInit
  BY DEF Init
<1>2. RunnerInv /\ [Next]_vars => [QueueNext]_queueVars
  BY StepRefines
<1>. QED
  BY <1>1, <1>2, RunnerInvHolds, PTL DEF Spec, QueueSpec

\* Hence no job is executed more often than its ceiling allows,
THEOREM RunnerAttemptsBounded == Spec => []AttemptsBounded
  BY RunnerImplementsQueue, AttemptsStayBounded, PTL

\* and leases change hands only through the ready state.
THEOREM RunnerLeasesNeverTakenOver == Spec => NoTakeover
  BY RunnerImplementsQueue, LeasesNeverTakenOver, PTL

=============================================================================
