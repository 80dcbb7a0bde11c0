-------------------------- MODULE TaskClaimsProofs --------------------------
(***************************************************************************)
(* What the executions of TaskRunner and the rows they claimed say of each *)
(* other: a job succeeds only by its newest claim, its attempts are its    *)
(* claims, and a healthy lease is lost only to time.                       *)
(*                                                                         *)
(* ClaimsInv ties the two together: the token of a running row is the      *)
(* newest claim of that row, and an execution whose body returned in time  *)
(* is past its run.  A statement is "quiet" if it makes no row run or      *)
(* succeed; only ClaimDue and MarkSucceeded are not quiet.                 *)
(***************************************************************************)
EXTENDS TaskRunnerProofs, FiniteSetTheorems

\* An execution reaches "succeeding" with a body that returned, and a body that
\* returned is neither started again nor still waited for.
Sound(e) ==
    /\ e.phase = "succeeding" => e.body = "ok"
    /\ e.body = "ok" => e.phase \notin {"claimed", "running"}

Newest(t, j) == t \in ClaimsOf(j) /\ \A u \in ClaimsOf(j) : u <= t

ClaimsInv ==
    /\ \A t \in Tokens : Sound(execs[t])
    /\ \A j \in With("running") : Newest(rows[j].token, j)
    /\ SuccessIsEarned
    /\ \A j \in Present : IsFiniteSet(ClaimsOf(j))
    /\ AttemptsAreClaims

-----------------------------------------------------------------------------
(* Quiet statements *)

\* Row j is no claim and no success of this step.
QuietRow(j) ==
    \/ /\ j \in Present
       /\ rows'[j].attempts = rows[j].attempts
       /\ rows'[j].status = "running"
             => rows[j].status = "running" /\ rows'[j].token = rows[j].token
       /\ rows'[j].status = "succeeded" => rows[j].status = "succeeded"
    \/ /\ j \notin spent
       /\ rows'[j].attempts = 0
       /\ rows'[j].status \notin {"running", "succeeded"}

Quiet == minted' = minted /\ \A j \in DOMAIN rows' : QuietRow(j)

\* No lease is taken away before it expired.
LeaseStays(j) ==
    \/ rows[j].expired
    \/ j \notin DOMAIN rows'
    \/ /\ rows'[j].status = "running"
       /\ rows'[j].owner = rows[j].owner
       /\ rows'[j].token = rows[j].token

LeasesStay == \A j \in With("running") : LeaseStays(j)

LEMMA RowsTyped == ASSUME QueueInv PROVE \A j \in Present : rows[j] \in Row
  BY DEF QueueInv, RowInv

LEMMA UnchangedQuiet == ASSUME UNCHANGED queueVars PROVE Quiet /\ LeasesStay
  BY DEF queueVars, Quiet, QuietRow, LeasesStay, LeaseStays, Present, With

LEMMA EnqueueQuiet ==
  ASSUME QueueInv, NEW in, NEW generation, NEW who, Enqueue(in, generation, who)
  PROVE  Quiet /\ LeasesStay
<1>a. \A j \in Present : rows[j] \in Row
  BY RowsTyped
<1>1. CASE \E j \in Jobs : Insert(j, in, generation, who)
  <2>1. PICK j \in Jobs : Insert(j, in, generation, who)
    BY <1>1
  <2>2. /\ j \notin spent /\ j \notin Present
        /\ DOMAIN rows' = Present \cup {j}
        /\ rows'[j] = NewRow(in, generation, who)
        /\ \A i \in Present : rows'[i] = rows[i]
        /\ minted' = minted
    BY <2>1 DEF Insert, QueueInv
  <2>3. /\ NewRow(in, generation, who).attempts = 0
        /\ NewRow(in, generation, who).status \in {"ready", "dead"}
    BY DEF NewRow, GenerationStatus
  <2>. QED
    BY <2>2, <2>3 DEF Quiet, QuietRow, LeasesStay, LeaseStays, With
<1>2. CASE Debounce(in, generation, who) \/ Throttle(in, generation)
  <2>1. /\ DOMAIN rows' = Present /\ minted' = minted
        /\ \A j \in Pending(in) : rows[j].status = "ready"
        /\ \A j \in Present \ Pending(in) : rows'[j] = rows[j]
    BY <1>2 DEF Debounce, Throttle, Pending, With
  <2>2. \A j \in Pending(in) : /\ rows'[j].attempts = rows[j].attempts
                               /\ rows'[j].status = rows[j].status
    BY <1>2, <1>a DEF Debounce, Throttle, Pending, With, Row
  <2>3. Pending(in) \subseteq Present
    BY DEF Pending, With
  <2>. QED
    BY <2>1, <2>2, <2>3 DEF Quiet, QuietRow, LeasesStay, LeaseStays, With
<1>. QED
  BY <1>1, <1>2 DEF Enqueue

\* An update of one row that changes nothing but its status, run_at and lease.
LEMMA UpdateQuiet ==
  ASSUME NEW j \in Present, NEW row, rows' = [rows EXCEPT ![j] = row],
         minted' = minted, row.attempts = rows[j].attempts,
         row.status # "succeeded",
         row.status = "running" => rows[j].status = "running" /\ row.token = rows[j].token
  PROVE  /\ Quiet
         /\ \/ rows[j].status # "running"
            \/ row.status = "running" /\ row.owner = rows[j].owner
            => LeasesStay
  BY DEF Quiet, QuietRow, LeasesStay, LeaseStays, Present, With

LEMMA HeartbeatQuiet ==
  ASSUME QueueInv, NEW j, NEW owner, NEW token, Heartbeat(j, owner, token)
  PROVE  Quiet /\ LeasesStay
<1>1. j \in Present /\ rows[j] \in Row /\ rows[j].status = "running"
  BY RowsTyped DEF Heartbeat, Holds, With
<1>2. /\ rows' = [rows EXCEPT ![j] = [rows[j] EXCEPT !.expired = FALSE]]
      /\ minted' = minted
  BY DEF Heartbeat
<1> DEFINE row == [rows[j] EXCEPT !.expired = FALSE]
<1>3. /\ row.attempts = rows[j].attempts /\ row.status = "running"
      /\ row.token = rows[j].token /\ row.owner = rows[j].owner
  BY <1>1 DEF Row
<1>. HIDE DEF row
<1>4. rows' = [rows EXCEPT ![j] = row] /\ minted' = minted
  BY <1>2 DEF row
<1>. QED
  BY <1>1, <1>3, <1>4, UpdateQuiet

LEMMA MarkFailedQuiet ==
  ASSUME QueueInv, NEW j, NEW owner, NEW token, NEW ceiling, NEW due,
         MarkFailed(j, owner, token, ceiling, due)
  PROVE  Quiet
<1>1. j \in Present /\ rows[j] \in Row
  BY RowsTyped DEF MarkFailed, Holds, With
<1>2. rows' = [rows EXCEPT ![j] = FailedRow(rows[j], ceiling, due)] /\ minted' = minted
  BY DEF MarkFailed, FailedTable
<1>3. /\ FailedRow(rows[j], ceiling, due).attempts = rows[j].attempts
      /\ FailedRow(rows[j], ceiling, due).status \in {"ready", "dead"}
  BY <1>1 DEF FailedRow, Released, Row
<1>. QED
  BY <1>1, <1>2, <1>3, UpdateQuiet

LEMMA ReapQuiet ==
  ASSUME QueueInv, ReapExpiredLeases
  PROVE  Quiet /\ LeasesStay
<1>1. DOMAIN rows' = Present /\ minted' = minted
  BY DEF ReapExpiredLeases, ReapedTable
<1>2. \A j \in Present \ Expired : rows'[j] = rows[j]
  BY DEF ReapExpiredLeases, ReapedTable
<1>3. \A j \in Expired : rows'[j] = ReapedRow(rows[j]) /\ rows[j].expired /\ j \in Present
  BY DEF ReapExpiredLeases, ReapedTable, Expired, With
<1>4. \A j \in Present : /\ ReapedRow(rows[j]).attempts = rows[j].attempts
                         /\ ReapedRow(rows[j]).status \in {"ready", "dead"}
  BY RowsTyped DEF ReapedRow, Released, Row
<1>. QED
  BY <1>1, <1>2, <1>3, <1>4 DEF Quiet, QuietRow, LeasesStay, LeaseStays, With

\* The statements of requests, of erasure and of time.
LEMMA RequestQuiet ==
  ASSUME QueueInv,
         \/ \E j \in Present : Cancel(j) \/ BecomesDue(j) \/ LeaseExpires(j)
         \/ \E who \in Principals : ErasePrincipal(who)
  PROVE  Quiet /\ LeasesStay
<1>1. CASE \E j \in Present : Cancel(j) \/ BecomesDue(j) \/ LeaseExpires(j)
  <2>1. PICK j \in Present : Cancel(j) \/ BecomesDue(j) \/ LeaseExpires(j)
    BY <1>1
  <2>2. rows[j] \in Row
    BY RowsTyped
  <2>3. CASE Cancel(j)
    <3> DEFINE row == [rows[j] EXCEPT !.status = "cancelled"]
    <3>1. /\ rows' = [rows EXCEPT ![j] = row] /\ minted' = minted
          /\ rows[j].status = "ready"
      BY <2>3 DEF Cancel, With
    <3>2. /\ row.attempts = rows[j].attempts
          /\ row.status = "cancelled"
          /\ row.token = rows[j].token /\ row.owner = rows[j].owner
      BY <2>2 DEF Row
    <3>. HIDE DEF row
    <3>. QED
      BY <3>1, <3>2, UpdateQuiet
  <2>4. CASE BecomesDue(j)
    <3> DEFINE row == [rows[j] EXCEPT !.due = TRUE]
    <3>1. /\ rows' = [rows EXCEPT ![j] = row] /\ minted' = minted
          /\ rows[j].status = "ready"
      BY <2>4 DEF BecomesDue, With
    <3>2. /\ row.attempts = rows[j].attempts
          /\ row.status = rows[j].status
          /\ row.token = rows[j].token /\ row.owner = rows[j].owner
      BY <2>2 DEF Row
    <3>. HIDE DEF row
    <3>. QED
      BY <3>1, <3>2, UpdateQuiet
  <2>5. CASE LeaseExpires(j)
    <3> DEFINE row == [rows[j] EXCEPT !.expired = TRUE]
    <3>1. /\ rows' = [rows EXCEPT ![j] = row] /\ minted' = minted
          /\ rows[j].status = "running"
      BY <2>5 DEF LeaseExpires, With
    <3>2. /\ row.attempts = rows[j].attempts
          /\ row.status = rows[j].status
          /\ row.token = rows[j].token /\ row.owner = rows[j].owner
      BY <2>2 DEF Row
    <3>. HIDE DEF row
    <3>. QED
      BY <3>1, <3>2, UpdateQuiet
  <2>. QED
    BY <2>1, <2>3, <2>4, <2>5
<1>2. CASE \E who \in Principals : ErasePrincipal(who)
  BY <1>2 DEF ErasePrincipal, Quiet, QuietRow, LeasesStay, LeaseStays, Present, With
<1>. QED
  BY <1>1, <1>2

-----------------------------------------------------------------------------
(* What the executions keep *)

\* The executions after a step that starts none: each is still about its claim,
\* and a body that returned in time has returned.
Keeps(table) ==
    /\ DOMAIN table = Tokens
    /\ \A t \in Tokens : /\ table[t].node = execs[t].node
                         /\ table[t].job = execs[t].job
                         /\ execs[t].body = "ok" => table[t].body = "ok"
                         /\ Sound(table[t])

LEMMA TokensBelow ==
  ASSUME RunnerInv
  PROVE  /\ \A t \in Tokens : t \in Nat /\ t <= minted /\ execs[t].job \in spent
         /\ minted \in Nat
  BY ExecFacts DEF RunnerInv, QueueInv

LEMMA QuietKeeps ==
  ASSUME RunnerInv, ClaimsInv, Quiet, Keeps(execs')
  PROVE  ClaimsInv'
<1>1. Tokens' = Tokens /\ \A j : ClaimsOf(j)' = ClaimsOf(j)
  BY DEF Keeps, ClaimsOf, Tokens
<1>2. \A t \in Tokens' : Sound(execs[t])'
  BY <1>1 DEF Keeps, Sound
<1>3. \A j \in With("running")' : Newest(rows[j].token, j)'
  <2>. SUFFICES ASSUME NEW j \in With("running")'
                PROVE  Newest(rows[j].token, j)'
    OBVIOUS
  <2>1. j \in With("running") /\ rows'[j].token = rows[j].token
    BY DEF Quiet, QuietRow, With, Present
  <2>2. Newest(rows[j].token, j)
    BY <2>1 DEF ClaimsInv
  <2>. QED
    BY <1>1, <2>1, <2>2 DEF Newest
<1>4. SuccessIsEarned'
  <2>. SUFFICES ASSUME NEW j \in With("succeeded")'
                PROVE  \E t \in ClaimsOf(j)' :
                           execs'[t].body = "ok" /\ \A u \in ClaimsOf(j)' : u <= t
    BY DEF SuccessIsEarned
  <2>1. j \in With("succeeded")
    BY DEF Quiet, QuietRow, With, Present
  <2>2. PICK t \in ClaimsOf(j) : execs[t].body = "ok" /\ \A u \in ClaimsOf(j) : u <= t
    BY <2>1 DEF ClaimsInv, SuccessIsEarned
  <2>3. execs'[t].body = "ok"
    BY <2>2 DEF Keeps, ClaimsOf
  <2>. QED
    BY <1>1, <2>2, <2>3
<1>5. \A j \in Present' : /\ IsFiniteSet(ClaimsOf(j)')
                          /\ rows'[j].attempts = Cardinality(ClaimsOf(j)')
  <2>. SUFFICES ASSUME NEW j \in Present'
                PROVE  /\ IsFiniteSet(ClaimsOf(j)')
                       /\ rows'[j].attempts = Cardinality(ClaimsOf(j)')
    OBVIOUS
  <2>1. QuietRow(j)
    BY DEF Quiet, Present
  <2>2. CASE j \in Present /\ rows'[j].attempts = rows[j].attempts
    BY <1>1, <2>2 DEF ClaimsInv, AttemptsAreClaims
  <2>3. CASE j \notin spent /\ rows'[j].attempts = 0
    <3>1. ClaimsOf(j) = {}
      BY <2>3, TokensBelow DEF ClaimsOf
    <3>. QED
      BY <1>1, <2>3, <3>1, FS_EmptySet
  <2>. QED
    BY <2>1, <2>2, <2>3 DEF QuietRow
<1>. QED
  BY <1>2, <1>3, <1>4, <1>5 DEF ClaimsInv, AttemptsAreClaims

LEMMA IntervalLength ==
  ASSUME NEW a \in Nat, NEW b \in Nat, 1..a = 1..b
  PROVE  a = b
<1>1. a \in 1..a <=> a \in 1..b
  OBVIOUS
<1>2. b \in 1..a <=> b \in 1..b
  OBVIOUS
<1>. QED
  BY <1>1, <1>2

\* A claim adds the newest token to the claims of its job, and one attempt.
LEMMA ClaimKeeps ==
  ASSUME RunnerInv, ClaimsInv, NEW j \in Present, NEW keys, NEW owner,
         ClaimDue(j, keys, owner),
         NEW table, table \in Seq(Exec), Keeps(table),
         NEW n \in Nodes, NEW phase \in {"claimed", "lost"},
         execs' = Append(table, Claim(n, j, phase))
  PROVE  ClaimsInv' /\ LeasesStay /\ \A t \in Tokens : execs'[t] = table[t]
<1> DEFINE new == minted + 1
<1>a. /\ minted \in Nat /\ Tokens = 1..minted
      /\ rows[j] \in Row /\ rows[j].status = "ready"
  BY TokensAre, RowsTyped DEF RunnerInv, QueueInv, ClaimDue, Claimable, With
<1>b. Len(table) = minted
  <2>1. Len(table) \in Nat /\ DOMAIN table = 1..Len(table)
    BY LenProperties
  <2>. QED
    BY <1>a, <2>1, IntervalLength DEF Keeps
<1>1. /\ Tokens' = Tokens \cup {new}
      /\ \A t \in Tokens : execs'[t] = table[t]
      /\ execs'[new] = Claim(n, j, phase)
      /\ new \notin Tokens /\ new \in Nat
  <2>1. Claim(n, j, phase) \in Exec
    BY <1>a DEF Claim, Exec, Row, RunnerInv, QueueInv
  <2>2. /\ DOMAIN execs' = 1..(minted + 1)
        /\ \A t \in 1..minted : execs'[t] = table[t]
        /\ execs'[minted + 1] = Claim(n, j, phase)
    BY <1>a, <1>b, <2>1, AppendProperties, LenProperties
  <2>. QED
    BY <1>a, <2>2 DEF Tokens
<1>2. /\ rows' = [rows EXCEPT ![j] = rows'[j]]
      /\ rows'[j].status = "running" /\ rows'[j].token = new
      /\ rows'[j].attempts = rows[j].attempts + 1
      /\ DOMAIN rows' = Present /\ \A i \in Present \ {j} : rows'[i] = rows[i]
  <2>1. rows' = [rows EXCEPT ![j] = [rows[j] EXCEPT
                    !.status = "running", !.attempts = rows[j].attempts + 1,
                    !.owner = owner, !.token = new, !.expired = FALSE]]
    BY DEF ClaimDue
  <2>. QED
    BY <1>a, <2>1 DEF Row, Present
<1>3. /\ Claim(n, j, phase).job = j /\ Claim(n, j, phase).phase = phase
      /\ Claim(n, j, phase).body = "off"
  BY DEF Claim
<1>. HIDE DEF new
<1>4. /\ ClaimsOf(j)' = ClaimsOf(j) \cup {new}
      /\ \A i \in Present \ {j} : ClaimsOf(i)' = ClaimsOf(i)
  <2>1. /\ \A t \in Tokens : execs'[t].job = execs[t].job
        /\ execs'[new].job = j
    BY <1>1, <1>3 DEF Keeps
  <2>2. ClaimsOf(j)' = ClaimsOf(j) \cup {new}
    BY <1>1, <2>1 DEF ClaimsOf
  <2>3. \A i \in Present \ {j} : ClaimsOf(i)' = ClaimsOf(i)
    BY <1>1, <2>1 DEF ClaimsOf
  <2>. QED
    BY <2>2, <2>3
<1>5. \A t \in Tokens' : Sound(execs[t])'
  BY <1>1, <1>3 DEF Keeps, Sound
<1>6. \A i \in With("running")' : Newest(rows[i].token, i)'
  <2>. SUFFICES ASSUME NEW i \in With("running")'
                PROVE  Newest(rows[i].token, i)'
    OBVIOUS
  <2>1. CASE i = j
    <3>1. \A u \in ClaimsOf(j)' : u <= new
      BY <1>a, <1>1, <1>4 DEF ClaimsOf, new
    <3>. QED
      BY <1>2, <1>4, <2>1, <3>1 DEF Newest
  <2>2. CASE i # j
    <3>1. i \in With("running") /\ i \in Present \ {j} /\ rows'[i] = rows[i]
      BY <1>2, <2>2 DEF With, Present
    <3>. QED
      BY <1>4, <3>1 DEF Newest, ClaimsInv
  <2>. QED
    BY <2>1, <2>2
<1>7. SuccessIsEarned'
  <2>. SUFFICES ASSUME NEW i \in With("succeeded")'
                PROVE  \E t \in ClaimsOf(i)' :
                           execs'[t].body = "ok" /\ \A u \in ClaimsOf(i)' : u <= t
    BY DEF SuccessIsEarned
  <2>1. i \in With("succeeded") /\ i \in Present \ {j}
    BY <1>2 DEF With, Present
  <2>2. PICK t \in ClaimsOf(i) : execs[t].body = "ok" /\ \A u \in ClaimsOf(i) : u <= t
    BY <2>1 DEF ClaimsInv, SuccessIsEarned
  <2>3. execs'[t].body = "ok"
    BY <1>1, <2>2 DEF Keeps, ClaimsOf
  <2>. QED
    BY <1>4, <2>1, <2>2, <2>3
<1>8. \A i \in Present' : /\ IsFiniteSet(ClaimsOf(i)')
                          /\ rows'[i].attempts = Cardinality(ClaimsOf(i)')
  <2>. SUFFICES ASSUME NEW i \in Present'
                PROVE  /\ IsFiniteSet(ClaimsOf(i)')
                       /\ rows'[i].attempts = Cardinality(ClaimsOf(i)')
    OBVIOUS
  <2>1. i \in Present
    BY <1>2 DEF Present
  <2>2. IsFiniteSet(ClaimsOf(i)) /\ rows[i].attempts = Cardinality(ClaimsOf(i))
    BY <2>1 DEF ClaimsInv, AttemptsAreClaims
  <2>3. CASE i = j
    <3>1. new \notin ClaimsOf(j)
      BY <1>1 DEF ClaimsOf
    <3>. QED
      BY <1>2, <1>4, <2>2, <2>3, <3>1, FS_AddElement
  <2>4. CASE i # j
    BY <1>2, <1>4, <2>1, <2>2, <2>4
  <2>. QED
    BY <2>3, <2>4
<1>9. LeasesStay
  BY <1>a, <1>2 DEF LeasesStay, LeaseStays, With
<1>. QED
  BY <1>1, <1>5, <1>6, <1>7, <1>8, <1>9 DEF ClaimsInv, AttemptsAreClaims

\* The fence holds the token of the row, so the claim that succeeds is the newest.
LEMMA SuccessKeeps ==
  ASSUME RunnerInv, ClaimsInv, NEW t \in Tokens, execs[t].phase = "succeeding",
         MarkSucceeded(execs[t].job, Owner(t), t), Keeps(execs')
  PROVE  ClaimsInv'
<1> DEFINE j == execs[t].job
<1>1. Tokens' = Tokens /\ \A i : ClaimsOf(i)' = ClaimsOf(i)
  BY DEF Keeps, ClaimsOf, Tokens
<1>2. /\ j \in With("running") /\ rows[j].token = t /\ rows[j] \in Row
      /\ j \in Present
  BY RowsTyped DEF RunnerInv, MarkSucceeded, Holds, With
<1>3. /\ DOMAIN rows' = Present
      /\ \A i \in Present \ {j} : rows'[i] = rows[i]
      /\ rows'[j].status = "succeeded" /\ rows'[j].attempts = rows[j].attempts
  <2>1. rows' = [rows EXCEPT ![j] = Released(rows[j], "succeeded")]
    BY DEF MarkSucceeded
  <2>2. /\ Released(rows[j], "succeeded").status = "succeeded"
        /\ Released(rows[j], "succeeded").attempts = rows[j].attempts
    BY <1>2 DEF Released, Row
  <2>. QED
    BY <1>2, <2>1, <2>2 DEF Present
<1>4. Newest(t, j) /\ execs'[t].body = "ok"
  BY <1>2 DEF ClaimsInv, Sound, Keeps
<1>. HIDE DEF j
<1>5. \A u \in Tokens' : Sound(execs[u])'
  BY <1>1 DEF Keeps, Sound
<1>6. \A i \in With("running")' : Newest(rows[i].token, i)'
  <2>. SUFFICES ASSUME NEW i \in With("running")'
                PROVE  Newest(rows[i].token, i)'
    OBVIOUS
  <2>1. i \in With("running") /\ rows'[i] = rows[i]
    BY <1>3 DEF With, Present
  <2>. QED
    BY <1>1, <2>1 DEF Newest, ClaimsInv
<1>7. SuccessIsEarned'
  <2>. SUFFICES ASSUME NEW i \in With("succeeded")'
                PROVE  \E u \in ClaimsOf(i)' :
                           execs'[u].body = "ok" /\ \A v \in ClaimsOf(i)' : v <= u
    BY DEF SuccessIsEarned
  <2>1. CASE i = j
    BY <1>1, <1>4, <2>1 DEF Newest
  <2>2. CASE i # j
    <3>1. i \in With("succeeded")
      BY <1>3, <2>2 DEF With, Present
    <3>2. PICK u \in ClaimsOf(i) : execs[u].body = "ok" /\ \A v \in ClaimsOf(i) : v <= u
      BY <3>1 DEF ClaimsInv, SuccessIsEarned
    <3>3. execs'[u].body = "ok"
      BY <3>2 DEF Keeps, ClaimsOf
    <3>. QED
      BY <1>1, <3>2, <3>3
  <2>. QED
    BY <2>1, <2>2
<1>8. \A i \in Present' : /\ IsFiniteSet(ClaimsOf(i)')
                          /\ rows'[i].attempts = Cardinality(ClaimsOf(i)')
  <2>1. \A i \in Present : rows'[i].attempts = rows[i].attempts
    BY <1>3
  <2>. QED
    BY <1>1, <1>3, <2>1 DEF ClaimsInv, AttemptsAreClaims, Present
<1>. QED
  BY <1>5, <1>6, <1>7, <1>8 DEF ClaimsInv, AttemptsAreClaims

-----------------------------------------------------------------------------
(* Leases *)

Justified(t) ==
    (/\ Holding(t) /\ ~Holding(t)'
     /\ execs'[t].phase = execs[t].phase)
    => \/ rows[execs[t].job].expired
       \/ execs[t].job \notin DOMAIN rows'

SameClaims ==
    \A t \in Tokens : execs'[t].node = execs[t].node /\ execs'[t].job = execs[t].job

LEMMA StayJustifies ==
  ASSUME LeasesStay, SameClaims
  PROVE  \A t \in Tokens : Justified(t)
<1>. SUFFICES ASSUME NEW t \in Tokens, Holding(t), ~rows[execs[t].job].expired,
                     execs[t].job \in DOMAIN rows'
              PROVE  Holding(t)'
  BY DEF Justified
<1>1. LeaseStays(execs[t].job)
  BY DEF LeasesStay, Holding, Holds
<1>. QED
  BY <1>1 DEF LeaseStays, SameClaims, Holding, Holds, Owner, With, Present

\* A settlement takes the row from the execution that settles, and no other.
LEMMA SettleJustifies ==
  ASSUME NEW u \in Tokens, Holding(u), NEW row,
         rows' = [rows EXCEPT ![execs[u].job] = row],
         execs'[u].phase # execs[u].phase, SameClaims
  PROVE  \A t \in Tokens : Justified(t)
<1>. SUFFICES ASSUME NEW t \in Tokens, Holding(t),
                     execs'[t].phase = execs[t].phase
              PROVE  Holding(t)'
  BY DEF Justified
<1>1. execs[t].job # execs[u].job
  BY DEF Holding, Holds
<1>2. rows'[execs[t].job] = rows[execs[t].job] /\ execs[t].job \in DOMAIN rows'
  BY <1>1 DEF Holding, Holds, With, Present
<1>. QED
  BY <1>2 DEF SameClaims, Holding, Holds, Owner, With, Present

-----------------------------------------------------------------------------
(* Every step *)

StepGood == ClaimsInv' /\ \A t \in Tokens : Justified(t)

LEMMA QuietIsGood ==
  ASSUME RunnerInv, ClaimsInv, Quiet, LeasesStay, Keeps(execs')
  PROVE  StepGood
<1>1. SameClaims
  BY DEF Keeps, SameClaims
<1>. QED
  BY <1>1, QuietKeeps, StayJustifies DEF StepGood

LEMMA SuccessIsGood ==
  ASSUME RunnerInv, ClaimsInv, NEW t \in Tokens, execs[t].phase = "succeeding",
         MarkSucceeded(execs[t].job, Owner(t), t), Keeps(execs'),
         execs'[t].phase # execs[t].phase
  PROVE  StepGood
<1>1. SameClaims
  BY DEF Keeps, SameClaims
<1>2. Holding(t) /\ rows' = [rows EXCEPT ![execs[t].job] = Released(@, "succeeded")]
  BY DEF MarkSucceeded, Holding
<1>. QED
  BY <1>1, <1>2, SuccessKeeps, SettleJustifies DEF StepGood

LEMMA FailureIsGood ==
  ASSUME RunnerInv, ClaimsInv, NEW t \in Tokens,
         MarkFailed(execs[t].job, Owner(t), t, RetryCeiling(t), FALSE), Keeps(execs'),
         execs'[t].phase # execs[t].phase
  PROVE  StepGood
<1>1. SameClaims
  BY DEF Keeps, SameClaims
<1>2. /\ Holding(t)
      /\ rows' = [rows EXCEPT ![execs[t].job] = FailedRow(@, RetryCeiling(t), FALSE)]
  BY DEF MarkFailed, FailedTable, Holding
<1>3. Quiet
  BY MarkFailedQuiet DEF RunnerInv
<1>. QED
  BY <1>1, <1>2, <1>3, QuietKeeps, SettleJustifies DEF StepGood

LEMMA ClaimIsGood ==
  ASSUME RunnerInv, ClaimsInv, NEW n \in Nodes, NEW j \in Present,
         ClaimDue(j, ClaimableKeys(n), OwnerOf[n]),
         NEW table, table \in Seq(Exec), Keeps(table), NEW phase \in {"claimed", "lost"},
         execs' = Append(table, Claim(n, j, phase))
  PROVE  StepGood
<1>1. ClaimsInv' /\ LeasesStay /\ \A t \in Tokens : execs'[t] = table[t]
  BY ClaimKeeps
<1>2. SameClaims
  BY <1>1 DEF Keeps, SameClaims
<1>. QED
  BY <1>1, <1>2, StayJustifies DEF StepGood

LEMMA AlwaysKeeps == ASSUME ClaimsInv PROVE Keeps(execs)
  BY DEF ClaimsInv, Keeps, Tokens

LEMMA ExceptKeeps ==
  ASSUME ClaimsInv, NEW t \in Tokens, NEW e, e.node = execs[t].node,
         e.job = execs[t].job, execs[t].body = "ok" => e.body = "ok", Sound(e)
  PROVE  /\ Keeps([execs EXCEPT ![t] = e])
         /\ [execs EXCEPT ![t] = e][t] = e
  BY DEF ClaimsInv, Keeps, Tokens

LEMMA UnbatchedKeeps ==
  ASSUME NEW table, Keeps(table), \A t \in Tokens : table[t] \in Exec, NEW n
  PROVE  /\ Keeps(Unbatched(table, n))
         /\ \A t \in Tokens : Unbatched(table, n)[t].phase = table[t].phase
<1>1. DOMAIN Unbatched(table, n) = Tokens
  BY DEF Unbatched, Keeps
<1>2. \A t \in Tokens :
         LET e == Unbatched(table, n)[t]
         IN  /\ e.node = table[t].node /\ e.job = table[t].job
             /\ e.body = table[t].body /\ e.phase = table[t].phase
  BY DEF Unbatched, Keeps, Exec
<1>. QED
  BY <1>1, <1>2 DEF Keeps, Sound

LEMMA NodeStepIsGood ==
  ASSUME RunnerInv, ClaimsInv, NEW n \in Nodes, NodeStep(n)
  PROVE  StepGood
<1>a. QueueInv /\ \A t \in Tokens : execs[t] \in Exec /\ Sound(execs[t])
  BY ExecFacts DEF RunnerInv, ClaimsInv
<1>b. Keeps(execs) /\ execs \in Seq(Exec)
  BY AlwaysKeeps DEF RunnerInv, ExecInv
<1>c. Keeps(Dropped(n)) /\ Dropped(n) \in Seq(Exec)
  <2>1. DOMAIN Dropped(n) = Tokens
    BY DEF Dropped
  <2>2. \A t \in Tokens : /\ Dropped(n)[t].node = execs[t].node
                          /\ Dropped(n)[t].job = execs[t].job
                          /\ Dropped(n)[t].body = execs[t].body
                          /\ Dropped(n)[t].phase \in {execs[t].phase, "lost"}
                          /\ Dropped(n)[t] \in Exec
    BY <1>a DEF Dropped, Exec
  <2>3. Tokens = 1..Len(execs) /\ Len(execs) \in Nat
    BY TokensAre, LenProperties DEF RunnerInv, ExecInv
  <2>4. Dropped(n) = [t \in 1..Len(execs) |-> Dropped(n)[t]]
    BY <2>3 DEF Dropped
  <2>5. Dropped(n) \in [1..Len(execs) -> Exec]
    BY <2>2, <2>3, <2>4
  <2>. QED
    BY <1>a, <2>1, <2>2, <2>3, <2>5, FunctionIsSequence DEF Keeps, Sound
<1>1. CASE StartTick(n) \/ AbortTick(n) \/ Boot(n)
  <2>1. execs' = execs /\ (ReapExpiredLeases \/ UNCHANGED queueVars)
    BY <1>1 DEF StartTick, AbortTick, Boot, ReapRejected, runnerVars, queueVars
  <2>2. Quiet /\ LeasesStay
    BY <1>a, <2>1, ReapQuiet, UnchangedQuiet
  <2>. QED
    BY <1>b, <2>1, <2>2, QuietIsGood
<1>2. CASE ClaimNext(n)
  BY <1>2, <1>b, ClaimIsGood DEF ClaimNext
<1>3. CASE ClaimThrows(n)
  <2>1. CASE UNCHANGED queueVars /\ execs' = Dropped(n)
    BY <1>c, <2>1, UnchangedQuiet, QuietIsGood
  <2>2. CASE \E j \in Present : /\ ClaimDue(j, ClaimableKeys(n), OwnerOf[n])
                               /\ execs' = Append(Dropped(n), Claim(n, j, "lost"))
    BY <1>c, <2>2, ClaimIsGood
  <2>. QED
    BY <1>3, <2>1, <2>2 DEF ClaimThrows
<1>4. CASE RunBatch(n)
  <2>1. DOMAIN execs' = Tokens /\ UNCHANGED queueVars
    BY <1>4 DEF RunBatch
  <2>2. \A t \in Tokens :
           \/ execs'[t] = execs[t]
           \/ /\ execs[t].phase = "claimed"
              /\ execs'[t].node = execs[t].node /\ execs'[t].job = execs[t].job
              /\ execs'[t].body = "live" /\ execs'[t].phase = "running"
    BY <1>4, <1>a DEF RunBatch, ExecsOf, Exec
  <2>3. Keeps(execs')
    BY <1>a, <2>1, <2>2 DEF Keeps, Sound
  <2>. QED
    BY <2>1, <2>3, UnchangedQuiet, QuietIsGood
<1>5. CASE EndTick(n)
  BY <1>5, <1>a, <1>b, UnbatchedKeeps, UnchangedQuiet, QuietIsGood DEF EndTick
<1>6. CASE Crash(n)
  <2>1. DOMAIN execs' = Tokens /\ UNCHANGED queueVars
    BY <1>6 DEF Crash
  <2>2. \A t \in Tokens :
           \/ execs'[t] = execs[t]
           \/ /\ execs'[t].node = execs[t].node /\ execs'[t].job = execs[t].job
              /\ execs'[t].phase \in {"done", "lost"}
              /\ execs[t].body = "ok" => execs'[t].body = "ok"
    BY <1>6, <1>a DEF Crash, Exec
  <2>3. Keeps(execs')
    BY <1>a, <2>1, <2>2 DEF Keeps, Sound
  <2>. QED
    BY <2>1, <2>3, UnchangedQuiet, QuietIsGood
<1>. QED
  BY <1>1, <1>2, <1>3, <1>4, <1>5, <1>6 DEF NodeStep

LEMMA ExecStepIsGood ==
  ASSUME RunnerInv, ClaimsInv, NEW t \in Tokens, ExecStep(t)
  PROVE  StepGood
<1>a. QueueInv /\ \A u \in Tokens : execs[u] \in Exec /\ Sound(execs[u])
  BY ExecFacts DEF RunnerInv, ClaimsInv
<1>b. Keeps(execs)
  BY AlwaysKeeps
<1>1. CASE BodyReturns(t) \/ BodyThrows(t) \/ ZombieSettles(t)
           \/ TimesOut(t) \/ LosesLease(t)
  <2>1. UNCHANGED queueVars
    BY <1>1 DEF BodyReturns, BodyThrows, BodyEnds, ZombieSettles, TimesOut, LosesLease,
                Interrupt, queueVars
  <2>2. CASE BodyReturns(t)
    <3> DEFINE e == [execs[t] EXCEPT !.body = "ok", !.phase = "succeeding"]
    <3>1. execs' = [execs EXCEPT ![t] = e]
      BY <2>2 DEF BodyReturns, BodyEnds
    <3>2. /\ e.node = execs[t].node /\ e.job = execs[t].job
          /\ e.body = "ok" /\ e.phase = "succeeding"
      BY <1>a DEF Exec
    <3>. HIDE DEF e
    <3>. QED
      BY <2>1, <3>1, <3>2, ExceptKeeps, UnchangedQuiet, QuietIsGood DEF Sound
  <2>3. CASE BodyThrows(t)
    <3> DEFINE e == [execs[t] EXCEPT !.body = "off", !.phase = "failing"]
    <3>1. execs' = [execs EXCEPT ![t] = e] /\ execs[t].phase = "running"
      BY <2>3 DEF BodyThrows, BodyEnds
    <3>2. /\ e.node = execs[t].node /\ e.job = execs[t].job
          /\ e.body = "off" /\ e.phase = "failing"
      BY <1>a DEF Exec
    <3>. HIDE DEF e
    <3>. QED
      BY <1>a, <2>1, <3>1, <3>2, ExceptKeeps, UnchangedQuiet, QuietIsGood DEF Sound
  <2>4. CASE ZombieSettles(t)
    <3> DEFINE e == [execs[t] EXCEPT !.body = "off",
                                     !.slot = execs[t].slot /\ execs[t].phase # "done"]
    <3>1. execs' = [execs EXCEPT ![t] = e] /\ execs[t].body = "live"
      BY <2>4 DEF ZombieSettles
    <3>2. /\ e.node = execs[t].node /\ e.job = execs[t].job
          /\ e.body = "off" /\ e.phase = execs[t].phase
      BY <1>a DEF Exec
    <3>. HIDE DEF e
    <3>. QED
      BY <1>a, <2>1, <3>1, <3>2, ExceptKeeps, UnchangedQuiet, QuietIsGood DEF Sound
  <2>5. CASE TimesOut(t) \/ LosesLease(t)
    <3> DEFINE e == [execs[t] EXCEPT !.phase = "failing"]
    <3>1. execs' = [execs EXCEPT ![t] = e]
      BY <2>5 DEF TimesOut, LosesLease, Interrupt
    <3>2. /\ e.node = execs[t].node /\ e.job = execs[t].job
          /\ e.body = execs[t].body /\ e.phase = "failing"
      BY <1>a DEF Exec
    <3>. HIDE DEF e
    <3>. QED
      BY <2>1, <3>1, <3>2, ExceptKeeps, UnchangedQuiet, QuietIsGood DEF Sound
  <2>. QED
    BY <1>1, <2>2, <2>3, <2>4, <2>5
<1>2. CASE Beats(t) \/ BodySchedules(t)
  <2>1. execs' = execs
    BY <1>2 DEF Beats, BodySchedules, runnerVars
  <2>2. Quiet /\ LeasesStay
    BY <1>2, <1>a, HeartbeatQuiet, EnqueueQuiet DEF Beats, BodySchedules
  <2>. QED
    BY <1>b, <2>1, <2>2, QuietIsGood
<1>3. CASE Succeeds(t) \/ SucceedThrows(t) \/ Fails(t)
  <2> DEFINE settled == [execs[t] EXCEPT !.phase = "done",
                                         !.slot = execs[t].slot /\ execs[t].body = "live"]
  <2> DEFINE failing == [execs[t] EXCEPT !.phase = "failing"]
  <2>1. /\ \/ execs' = [execs EXCEPT ![t] = settled]
           \/ execs' = [execs EXCEPT ![t] = failing] /\ execs[t].phase # "failing"
        /\ execs[t].phase \in {"succeeding", "failing"}
    BY <1>3 DEF Succeeds, SucceedThrows, Fails, Settled
  <2>2. /\ settled.node = execs[t].node /\ settled.job = execs[t].job
        /\ settled.body = execs[t].body /\ settled.phase = "done"
        /\ failing.node = execs[t].node /\ failing.job = execs[t].job
        /\ failing.body = execs[t].body /\ failing.phase = "failing"
    BY <1>a DEF Exec
  <2>. HIDE DEF settled, failing
  <2>3. Keeps(execs') /\ execs'[t].phase # execs[t].phase
    <3>1. CASE execs' = [execs EXCEPT ![t] = settled]
      <4>1. Sound(settled) /\ execs[t].phase # "done"
        BY <2>1, <2>2 DEF Sound
      <4>2. Keeps(execs') /\ execs'[t] = settled
        BY <2>2, <3>1, <4>1, ExceptKeeps
      <4>. QED
        BY <2>2, <4>1, <4>2
    <3>2. CASE execs' = [execs EXCEPT ![t] = failing] /\ execs[t].phase # "failing"
      BY <2>2, <3>2, ExceptKeeps DEF Sound
    <3>. QED
      BY <2>1, <3>1, <3>2
  <2>4. CASE UNCHANGED queueVars
    BY <2>3, <2>4, UnchangedQuiet, QuietIsGood
  <2>5. CASE execs[t].phase = "succeeding" /\ MarkSucceeded(execs[t].job, Owner(t), t)
    BY <2>3, <2>5, SuccessIsGood
  <2>6. CASE MarkFailed(execs[t].job, Owner(t), t, RetryCeiling(t), FALSE)
    BY <2>3, <2>6, FailureIsGood
  <2>. QED
    BY <1>3, <2>4, <2>5, <2>6 DEF Succeeds, SucceedThrows, Fails
<1>4. CASE FailThrows(t)
  <2> DEFINE e == [execs[t] EXCEPT !.phase = "done", !.slot = FALSE]
  <2> DEFINE done == [execs EXCEPT ![t] = e]
  <2>1. /\ e.node = execs[t].node /\ e.job = execs[t].job /\ e.body = execs[t].body
        /\ e.phase = "done" /\ e \in Exec
    BY <1>a DEF Exec
  <2>2. execs' \in {done, Unbatched(done, execs[t].node)} /\ execs[t].phase = "failing"
    BY <1>4 DEF FailThrows
  <2>. HIDE DEF e
  <2>3. Keeps(done) /\ done[t] = e
    BY <1>a, <2>1, ExceptKeeps DEF Sound
  <2>4. \A u \in Tokens : done[u] \in Exec
    BY <1>a, <2>1 DEF Tokens
  <2>. HIDE DEF done
  <2>5. Keeps(execs') /\ execs'[t].phase # execs[t].phase
    BY <2>1, <2>2, <2>3, <2>4, UnbatchedKeeps
  <2>6. CASE UNCHANGED queueVars
    BY <2>5, <2>6, UnchangedQuiet, QuietIsGood
  <2>7. CASE MarkFailed(execs[t].job, Owner(t), t, RetryCeiling(t), FALSE)
    BY <2>5, <2>7, FailureIsGood
  <2>. QED
    BY <1>4, <2>6, <2>7 DEF FailThrows, MarkFailedThrows, MarkFailedRejected
<1>. QED
  BY <1>1, <1>2, <1>3, <1>4 DEF ExecStep

LEMMA StepIsGood ==
  ASSUME RunnerInv, ClaimsInv, [Next]_vars
  PROVE  StepGood
<1>a. QueueInv /\ Keeps(execs)
  BY AlwaysKeeps DEF RunnerInv
<1>1. CASE \E n \in Nodes : NodeStep(n)
  BY <1>1, NodeStepIsGood
<1>2. CASE \E t \in Tokens : ExecStep(t)
  BY <1>2, ExecStepIsGood
<1>3. CASE RequestSchedules
  BY <1>3, <1>a, EnqueueQuiet, QuietIsGood DEF RequestSchedules, runnerVars
<1>4. CASE RequestCancels \/ Erases
  BY <1>4, <1>a, RequestQuiet, QuietIsGood DEF RequestCancels, Erases, runnerVars
<1>5. CASE \E j \in Present : JobComesDue(j) \/ JobLeaseExpires(j)
  BY <1>5, <1>a, RequestQuiet, QuietIsGood DEF JobComesDue, JobLeaseExpires, runnerVars
<1>6. CASE UNCHANGED vars
  BY <1>6, <1>a, UnchangedQuiet, QuietIsGood DEF vars, queueVars
<1>. QED
  BY <1>1, <1>2, <1>3, <1>4, <1>5, <1>6 DEF Next

LEMMA ClaimsInit == Init => ClaimsInv
<1>. SUFFICES ASSUME Init PROVE ClaimsInv
  OBVIOUS
<1>1. Tokens = {} /\ Present = {}
  BY DEF Init, QueueInit, Tokens, Present
<1>. QED
  BY <1>1 DEF ClaimsInv, With, SuccessIsEarned, AttemptsAreClaims

\* Rows and executions agree: the token of a running row is its newest claim, its
\* attempts are its claims, and only a body that returned makes a job succeed.
THEOREM ClaimsInvHolds == Spec => []ClaimsInv
<1>1. RunnerInv /\ ClaimsInv /\ [Next]_vars => ClaimsInv'
  BY StepIsGood DEF StepGood
<1>. QED
  BY <1>1, ClaimsInit, RunnerInvHolds, PTL DEF Spec

\* A job is recorded as succeeded only if the body of its newest claim returned:
\* a zombie cannot finish a job for its successor.
THEOREM SuccessesAreEarned == Spec => []SuccessIsEarned
<1>1. ClaimsInv => SuccessIsEarned
  BY DEF ClaimsInv
<1>. QED
  BY <1>1, ClaimsInvHolds, PTL

\* Every claim costs an attempt, and nothing else does.
THEOREM AttemptsCountClaims == Spec => []AttemptsAreClaims
<1>1. ClaimsInv => AttemptsAreClaims
  BY DEF ClaimsInv
<1>. QED
  BY <1>1, ClaimsInvHolds, PTL

\* Nobody but time takes the lease of an execution that has not settled.
THEOREM LeasesLostOnlyByExpiry == Spec => LeaseLostOnlyByExpiry
<1>1. RunnerInv /\ ClaimsInv /\ [Next]_vars
      => \A t \in Tokens :
            (/\ Holding(t) /\ ~Holding(t)'
             /\ execs'[t].phase = execs[t].phase)
            => \/ rows[execs[t].job].expired
               \/ execs[t].job \notin DOMAIN rows'
  BY StepIsGood DEF StepGood, Justified
<1>. QED
  BY <1>1, RunnerInvHolds, ClaimsInvHolds, PTL DEF Spec, LeaseLostOnlyByExpiry

-----------------------------------------------------------------------------
(* What the claims of one job run *)

\* Rows and executions that run the same, up to what a debounced schedule replaces.
Alike(a, b) ==
    /\ a.task = b.task /\ a.generation = b.generation
    /\ \/ a.args = b.args /\ a.principal = b.principal
       \/ Debounced(a.task)

\* Row j runs what it ran before this step, or its id is new.
Carried(j) == (j \in Present /\ Alike(rows'[j], rows[j])) \/ j \notin spent

AlikeInv ==
    /\ \A t \in Tokens :
          execs[t].job \in Present => Alike(execs[t], rows[execs[t].job])
    /\ \A t, u \in Tokens :
          execs[t].job = execs[u].job => Alike(execs[t], execs[u])

SameRun(a, b) ==
    a.task = b.task /\ a.generation = b.generation /\ a.args = b.args
                    /\ a.principal = b.principal

LEMMA EnqueueCarries ==
  ASSUME QueueInv, NEW in \in Inputs, NEW generation, NEW who,
         Enqueue(in, generation, who)
  PROVE  \A j \in DOMAIN rows' : Carried(j)
<1>a. \A j \in Present : rows[j] \in Row
  BY RowsTyped
<1>1. CASE \E j \in Jobs : Insert(j, in, generation, who)
  BY <1>1 DEF Insert, Carried, Alike, Present, QueueInv
<1>2. CASE Debounce(in, generation, who)
  <2>. SUFFICES ASSUME NEW j \in DOMAIN rows' PROVE Carried(j)
    OBVIOUS
  <2>1. j \in Present
    BY <1>2 DEF Debounce
  <2>2. CASE j \in Pending(in)
    <3>1. /\ in.key # NoKey /\ in.coalesce = "debounce" /\ rows[j].task = in.task
      BY <1>2, <2>2 DEF Debounce, Pending
    <3>2. Debounced(rows[j].task)
      BY <3>1 DEF Debounced
    <3>3. rows'[j] = [rows[j] EXCEPT !.args = in.args, !.due = in.due,
                                     !.principal = who, !.maxAttempts = in.maxAttempts]
      BY <1>2, <2>1, <2>2 DEF Debounce
    <3>4. rows'[j].task = rows[j].task /\ rows'[j].generation = rows[j].generation
      BY <1>a, <2>1, <3>3 DEF Row
    <3>. QED
      BY <2>1, <3>2, <3>4 DEF Carried, Alike
  <2>3. CASE j \notin Pending(in)
    BY <1>2, <2>1, <2>3 DEF Debounce, Carried, Alike
  <2>. QED
    BY <2>2, <2>3
<1>3. CASE Throttle(in, generation)
  <2>1. DOMAIN rows' = Present
    BY <1>3 DEF Throttle
  <2>2. \A j \in Present : SameRun(rows'[j], rows[j])
    BY <1>3, <1>a DEF Throttle, Row, SameRun
  <2>. QED
    BY <2>1, <2>2 DEF Carried, Alike, SameRun
<1>. QED
  BY <1>1, <1>2, <1>3 DEF Enqueue

\* A statement that rewrites one row, and not what it runs.
LEMMA RewriteCarries ==
  ASSUME NEW j \in Present, NEW row, rows' = [rows EXCEPT ![j] = row],
         SameRun(row, rows[j])
  PROVE  \A i \in DOMAIN rows' : Carried(i)
  BY DEF Carried, Alike, SameRun, Present

LEMMA SettleCarries ==
  ASSUME QueueInv, NEW j \in Present, NEW owner, NEW token,
         Settle(j, owner, token)
  PROVE  \A i \in DOMAIN rows' : Carried(i)
<1>a. rows[j] \in Row
  BY RowsTyped
<1>1. CASE Heartbeat(j, owner, token)
  <2>1. SameRun([rows[j] EXCEPT !.expired = FALSE], rows[j])
    BY <1>a DEF Row, SameRun
  <2>. QED
    BY <1>1, <2>1, RewriteCarries DEF Heartbeat
<1>2. CASE MarkSucceeded(j, owner, token)
  <2>1. SameRun(Released(rows[j], "succeeded"), rows[j])
    BY <1>a DEF Row, SameRun, Released
  <2>. QED
    BY <1>2, <2>1, RewriteCarries DEF MarkSucceeded
<1>3. ASSUME NEW ceiling, NEW due, MarkFailed(j, owner, token, ceiling, due)
      PROVE  \A i \in DOMAIN rows' : Carried(i)
  <2>1. SameRun(FailedRow(rows[j], ceiling, due), rows[j])
    BY <1>a DEF Row, SameRun, FailedRow, Released
  <2>. QED
    BY <1>3, <2>1, RewriteCarries DEF MarkFailed, FailedTable
<1>. QED
  BY <1>1, <1>2, <1>3 DEF Settle

LEMMA StatementCarries ==
  ASSUME QueueInv, [QueueNext]_queueVars
  PROVE  \A j \in DOMAIN rows' : Carried(j)
<1>a. \A j \in Present : rows[j] \in Row
  BY RowsTyped
<1>0. CASE UNCHANGED queueVars
  BY <1>0 DEF queueVars, Carried, Alike, Present
<1>1. CASE \E in \in Inputs, generation \in 0..(MaxGenerations + 1),
              who \in Principals \cup {NoPrincipal} : Enqueue(in, generation, who)
  BY <1>1, EnqueueCarries
<1>2. CASE \E j \in Present : Cancel(j)
  <2>1. PICK j \in Present : Cancel(j)
    BY <1>2
  <2>2. SameRun([rows[j] EXCEPT !.status = "cancelled"], rows[j])
    BY <1>a DEF Row, SameRun
  <2>. QED
    BY <2>1, <2>2, RewriteCarries DEF Cancel
<1>3. CASE \E j \in Present, keys \in SUBSET Tasks, owner \in Owners :
              ClaimDue(j, keys, owner)
  <2>1. PICK j \in Present, keys \in SUBSET Tasks, owner \in Owners :
            ClaimDue(j, keys, owner)
    BY <1>3
  <2> DEFINE row == [rows[j] EXCEPT !.status = "running", !.attempts = rows[j].attempts + 1,
                        !.owner = owner, !.token = minted + 1, !.expired = FALSE]
  <2>2. rows' = [rows EXCEPT ![j] = row]
    BY <2>1 DEF ClaimDue
  <2>3. SameRun(row, rows[j])
    BY <1>a DEF Row, SameRun
  <2>. HIDE DEF row
  <2>. QED
    BY <2>2, <2>3, RewriteCarries
<1>4. CASE \E j \in Present, owner \in Owners, token \in 1..minted :
              Settle(j, owner, token)
  BY <1>4, SettleCarries
<1>5. CASE ReapExpiredLeases
  <2>1. \A j \in Present : SameRun(ReapedRow(rows[j]), rows[j])
    BY <1>a DEF ReapedRow, Released, Row, SameRun
  <2>. QED
    BY <1>5, <2>1 DEF ReapExpiredLeases, ReapedTable, Carried, Alike, SameRun
<1>6. CASE \E who \in Principals : ErasePrincipal(who)
  BY <1>6 DEF ErasePrincipal, Carried, Alike, Present
<1>7. CASE \E j \in Present : BecomesDue(j) \/ LeaseExpires(j)
  <2>1. PICK j \in Present : BecomesDue(j) \/ LeaseExpires(j)
    BY <1>7
  <2>2. /\ SameRun([rows[j] EXCEPT !.due = TRUE], rows[j])
        /\ SameRun([rows[j] EXCEPT !.expired = TRUE], rows[j])
    BY <1>a DEF Row, SameRun
  <2>. QED
    BY <2>1, <2>2, RewriteCarries DEF BecomesDue, LeaseExpires
<1>. QED
  BY <1>0, <1>1, <1>2, <1>3, <1>4, <1>5, <1>6, <1>7 DEF QueueNext, Enqueues, RowsMove

\* In this step execution t keeps what it runs, or it is the claim of a row and takes it from there.
RunsOn(t) ==
    \/ t \in Tokens /\ execs'[t].job = execs[t].job /\ SameRun(execs'[t], execs[t])
    \/ /\ execs'[t].job \in Present
       /\ SameRun(execs'[t], rows[execs'[t].job])

LEMMA AppendRunsOn ==
  ASSUME NEW table, table \in Seq(Exec), DOMAIN table = Tokens,
         NEW n \in Nodes, NEW j \in Present, NEW phase,
         Claim(n, j, phase) \in Exec, execs' = Append(table, Claim(n, j, phase)),
         \A t \in Tokens : table[t].job = execs[t].job /\ SameRun(table[t], execs[t])
  PROVE  \A t \in Tokens' : RunsOn(t)
<1>1. \A t \in Tokens' : \/ t \in Tokens /\ execs'[t] = table[t]
                         \/ t \notin Tokens /\ execs'[t] = Claim(n, j, phase)
  BY AppendProperties, LenProperties DEF Tokens
<1>2. Claim(n, j, phase).job = j /\ SameRun(Claim(n, j, phase), rows[j])
  BY DEF Claim, SameRun
<1>. QED
  BY <1>1, <1>2 DEF RunsOn

LEMMA NodeStepRunsOn ==
  ASSUME RunnerInv, NEW n \in Nodes, NodeStep(n)
  PROVE  \A t \in Tokens' : RunsOn(t)
<1>a. /\ execs \in Seq(Exec) /\ Tokens = 1..Len(execs) /\ Len(execs) \in Nat
      /\ \A t \in Tokens : execs[t] \in Exec
  BY ExecFacts, TokensAre, LenProperties DEF RunnerInv, ExecInv
<1>b. \A j \in Present, phase \in {"claimed", "lost"} :
         ClaimDue(j, ClaimableKeys(n), OwnerOf[n])
         => Claim(n, j, phase) \in Exec
  BY RowsTyped DEF RunnerInv, QueueInv, Claim, Exec, Row
<1>1. CASE StartTick(n) \/ AbortTick(n) \/ Boot(n)
  BY <1>1 DEF StartTick, AbortTick, Boot, runnerVars, RunsOn, SameRun, Tokens
<1>2. CASE ClaimNext(n)
  <2>1. PICK j \in Present : /\ ClaimDue(j, ClaimableKeys(n), OwnerOf[n])
                             /\ execs' = Append(execs, Claim(n, j, "claimed"))
    BY <1>2 DEF ClaimNext
  <2>2. DOMAIN execs = Tokens
    BY DEF Tokens
  <2>3. \A t \in Tokens : execs[t].job = execs[t].job /\ SameRun(execs[t], execs[t])
    BY DEF SameRun
  <2>. QED
    BY <1>a, <1>b, <2>1, <2>2, <2>3, AppendRunsOn
<1>3. CASE ClaimThrows(n)
  <2>1. DOMAIN Dropped(n) = Tokens
    BY DEF Dropped
  <2>2. \A t \in Tokens : /\ Dropped(n)[t] \in Exec
                          /\ Dropped(n)[t].job = execs[t].job
                          /\ SameRun(Dropped(n)[t], execs[t])
    BY <1>a DEF Dropped, Exec, SameRun
  <2>3. Dropped(n) \in Seq(Exec)
    <3>1. Dropped(n) = [t \in 1..Len(execs) |-> Dropped(n)[t]]
      BY <1>a DEF Dropped
    <3>2. Dropped(n) \in [1..Len(execs) -> Exec]
      BY <1>a, <2>2, <3>1
    <3>. QED
      BY <1>a, <3>2, FunctionIsSequence
  <2>4. CASE execs' = Dropped(n)
    BY <2>1, <2>2, <2>4 DEF RunsOn, Tokens
  <2>5. CASE \E j \in Present : /\ ClaimDue(j, ClaimableKeys(n), OwnerOf[n])
                               /\ execs' = Append(Dropped(n), Claim(n, j, "lost"))
    BY <1>b, <2>1, <2>2, <2>3, <2>5, AppendRunsOn
  <2>. QED
    BY <1>3, <2>4, <2>5 DEF ClaimThrows
<1>c. ASSUME DOMAIN execs' = Tokens,
             \A t \in Tokens :
                execs'[t] = execs[t] \/ (execs'[t].job = execs[t].job /\ SameRun(execs'[t], execs[t]))
      PROVE  \A t \in Tokens' : RunsOn(t)
  BY <1>c DEF RunsOn, SameRun, Tokens
<1>4. CASE RunBatch(n)
  <2>1. DOMAIN execs' = Tokens
    BY <1>4 DEF RunBatch
  <2>2. ASSUME NEW t \in Tokens
        PROVE  \/ execs'[t] = execs[t]
               \/ execs'[t].job = execs[t].job /\ SameRun(execs'[t], execs[t])
    BY <1>4, <1>a DEF RunBatch, ExecsOf, Exec, SameRun
  <2>. QED
    BY <1>c, <2>1, <2>2
<1>5. CASE EndTick(n)
  BY <1>5, <1>a DEF EndTick, Unbatched, Exec, RunsOn, SameRun, Tokens
<1>6. CASE Crash(n)
  <2>1. DOMAIN execs' = Tokens
    BY <1>6 DEF Crash
  <2>2. ASSUME NEW t \in Tokens
        PROVE  \/ execs'[t] = execs[t]
               \/ execs'[t].job = execs[t].job /\ SameRun(execs'[t], execs[t])
    BY <1>6, <1>a DEF Crash, Exec, SameRun
  <2>. QED
    BY <1>c, <2>1, <2>2
<1>. QED
  BY <1>1, <1>2, <1>3, <1>4, <1>5, <1>6 DEF NodeStep

\* An execution that is rewritten in place keeps what it runs.
LEMMA ExceptRunsOn ==
  ASSUME NEW t \in Tokens, NEW e, execs' = [execs EXCEPT ![t] = e],
         e.job = execs[t].job, SameRun(e, execs[t])
  PROVE  \A u \in Tokens' : RunsOn(u)
  BY DEF RunsOn, SameRun, Tokens

LEMMA ExecStepRunsOn ==
  ASSUME RunnerInv, NEW t \in Tokens, ExecStep(t)
  PROVE  \A u \in Tokens' : RunsOn(u)
<1>a. \A u \in Tokens : execs[u] \in Exec
  BY ExecFacts
<1>1. CASE execs' = execs
  BY <1>1 DEF RunsOn, SameRun, Tokens
<1>4. CASE BodyReturns(t) \/ BodyThrows(t) \/ ZombieSettles(t) \/ TimesOut(t) \/ LosesLease(t)
  <2>1. CASE BodyReturns(t)
    <3> DEFINE e == [execs[t] EXCEPT !.body = "ok", !.phase = "succeeding"]
    <3>1. execs' = [execs EXCEPT ![t] = e]
      BY <2>1 DEF BodyReturns, BodyEnds
    <3>2. e.job = execs[t].job /\ SameRun(e, execs[t])
      BY <1>a DEF Exec, SameRun
    <3>. HIDE DEF e
    <3>. QED
      BY <3>1, <3>2, ExceptRunsOn
  <2>2. CASE BodyThrows(t)
    <3> DEFINE e == [execs[t] EXCEPT !.body = "off", !.phase = "failing"]
    <3>1. execs' = [execs EXCEPT ![t] = e]
      BY <2>2 DEF BodyThrows, BodyEnds
    <3>2. e.job = execs[t].job /\ SameRun(e, execs[t])
      BY <1>a DEF Exec, SameRun
    <3>. HIDE DEF e
    <3>. QED
      BY <3>1, <3>2, ExceptRunsOn
  <2>3. CASE ZombieSettles(t)
    <3> DEFINE e == [execs[t] EXCEPT !.body = "off",
                                     !.slot = execs[t].slot /\ execs[t].phase # "done"]
    <3>1. execs' = [execs EXCEPT ![t] = e]
      BY <2>3 DEF ZombieSettles
    <3>2. e.job = execs[t].job /\ SameRun(e, execs[t])
      BY <1>a DEF Exec, SameRun
    <3>. HIDE DEF e
    <3>. QED
      BY <3>1, <3>2, ExceptRunsOn
  <2>4. CASE TimesOut(t) \/ LosesLease(t)
    <3> DEFINE e == [execs[t] EXCEPT !.phase = "failing"]
    <3>1. execs' = [execs EXCEPT ![t] = e]
      BY <2>4 DEF TimesOut, LosesLease, Interrupt
    <3>2. e.job = execs[t].job /\ SameRun(e, execs[t])
      BY <1>a DEF Exec, SameRun
    <3>. HIDE DEF e
    <3>. QED
      BY <3>1, <3>2, ExceptRunsOn
  <2>. QED
    BY <1>4, <2>1, <2>2, <2>3, <2>4
<1>5. CASE Beats(t) \/ BodySchedules(t)
  BY <1>5, <1>1 DEF Beats, BodySchedules, runnerVars
<1>6. CASE Succeeds(t) \/ SucceedThrows(t) \/ Fails(t)
  <2> DEFINE settled == [execs[t] EXCEPT !.phase = "done",
                                         !.slot = execs[t].slot /\ execs[t].body = "live"]
  <2> DEFINE failing == [execs[t] EXCEPT !.phase = "failing"]
  <2>1. execs' = [execs EXCEPT ![t] = settled] \/ execs' = [execs EXCEPT ![t] = failing]
    BY <1>6 DEF Succeeds, SucceedThrows, Fails, Settled
  <2>2. /\ settled.job = execs[t].job /\ SameRun(settled, execs[t])
        /\ failing.job = execs[t].job /\ SameRun(failing, execs[t])
    BY <1>a DEF Exec, SameRun
  <2>. HIDE DEF settled, failing
  <2>. QED
    BY <2>1, <2>2, ExceptRunsOn
<1>7. CASE FailThrows(t)
  <2> DEFINE e == [execs[t] EXCEPT !.phase = "done", !.slot = FALSE]
  <2> DEFINE done == [execs EXCEPT ![t] = e]
  <2>1. e.job = execs[t].job /\ SameRun(e, execs[t]) /\ e \in Exec
    BY <1>a DEF Exec, SameRun
  <2>2. execs' = done \/ execs' = Unbatched(done, execs[t].node)
    BY <1>7 DEF FailThrows
  <2>. HIDE DEF e
  <2>3. /\ DOMAIN done = Tokens
        /\ \A u \in Tokens : /\ done[u] \in Exec /\ done[u].job = execs[u].job
                             /\ SameRun(done[u], execs[u])
    BY <1>a, <2>1 DEF Tokens, SameRun
  <2>. HIDE DEF done
  <2>4. CASE execs' = done
    BY <2>3, <2>4 DEF RunsOn, Tokens
  <2>5. CASE execs' = Unbatched(done, execs[t].node)
    BY <2>3, <2>5 DEF Unbatched, Exec, RunsOn, SameRun, Tokens
  <2>. QED
    BY <2>2, <2>4, <2>5
<1>. QED
  BY <1>4, <1>5, <1>6, <1>7 DEF ExecStep

LEMMA StepRunsOn ==
  ASSUME RunnerInv, [Next]_vars
  PROVE  \A t \in Tokens' : RunsOn(t)
<1>1. CASE execs' = execs
  BY <1>1 DEF RunsOn, SameRun, Tokens
<1>. QED
  BY <1>1, NodeStepRunsOn, ExecStepRunsOn
     DEF Next, RequestSchedules, RequestCancels, Erases, JobComesDue, JobLeaseExpires,
         runnerVars, vars

LEMMA AlikeStep ==
  ASSUME RunnerInv, AlikeInv, [Next]_vars
  PROVE  AlikeInv'
<1>1. \A j \in DOMAIN rows' : Carried(j)
  BY StepRefines, StatementCarries DEF RunnerInv
<1>2. \A j \in Present : j \in spent
  BY DEF RunnerInv, QueueInv
<1>3. ASSUME NEW t \in Tokens', execs'[t].job \in Present
      PROVE  Alike(execs'[t], rows[execs'[t].job])
  BY <1>3, StepRunsOn DEF RunsOn, AlikeInv, Alike, SameRun
<1>4. ASSUME NEW t \in Tokens' PROVE execs'[t].job \in spent
  BY <1>2, <1>4, StepRunsOn, ExecFacts DEF RunsOn
<1>5. ASSUME NEW t \in Tokens', execs'[t].job \in DOMAIN rows'
      PROVE  Alike(execs'[t], rows'[execs'[t].job])
  BY <1>1, <1>3, <1>4, <1>5 DEF Carried, Alike
<1>6. ASSUME NEW t \in Tokens', NEW u \in Tokens', execs'[t].job = execs'[u].job
      PROVE  Alike(execs'[t], execs'[u])
  <2>1. CASE execs'[t].job \in Present
    BY <1>3, <1>6, <2>1 DEF Alike
  <2>2. CASE execs'[t].job \notin Present
    <3>1. \A v \in {t, u} : /\ v \in Tokens /\ execs'[v].job = execs[v].job
                            /\ SameRun(execs'[v], execs[v])
      BY <1>6, <2>2, StepRunsOn DEF RunsOn
    <3>2. Alike(execs[t], execs[u])
      BY <1>6, <3>1 DEF AlikeInv
    <3>. QED
      BY <3>1, <3>2 DEF Alike, SameRun
  <2>. QED
    BY <2>1, <2>2
<1>. QED
  BY <1>5, <1>6 DEF AlikeInv, Alike, Present, Debounced

\* The claims of one job run one task and one generation, and the arguments and principal of each
\* other unless a schedule of the task debounces: a job whose task throttles, or has no key, does
\* the same thing each time it is retried or redelivered.
THEOREM RetriesAlwaysRunAlike == Spec => []RetriesRunAlike
<1>1. Init => AlikeInv
  BY DEF Init, AlikeInv, Tokens
<1>2. RunnerInv /\ AlikeInv /\ [Next]_vars => AlikeInv'
  BY AlikeStep
<1>3. AlikeInv => RetriesRunAlike
  BY DEF AlikeInv, Alike, RetriesRunAlike
<1>. QED
  BY <1>1, <1>2, <1>3, RunnerInvHolds, PTL DEF Spec

=============================================================================
