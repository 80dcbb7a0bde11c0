-------------------------- MODULE TaskQueueProofs --------------------------
(***************************************************************************)
(* What every execution of the job table keeps, for any jobs, tasks, keys, *)
(* owners and ceilings.                                                    *)
(*                                                                         *)
(* The invariant is a conjunction over rows: RowInv says what one row may  *)
(* look like when m tokens have been minted, and each statement maps such  *)
(* rows to such rows.  Only the uniqueness of tokens relates two rows.     *)
(***************************************************************************)
EXTENDS TaskQueue, TLAPS

\* A row within its ceilings whose lease columns agree with its status.
RowInv(row, m) ==
    /\ row \in Row
    /\ row.maxAttempts <= Ceiling[row.task]
    /\ row.attempts <= Ceiling[row.task]
    /\ row.status = "ready" => row.attempts < Ceiling[row.task]
    /\ row.status = "running" => /\ row.token \in 1..m
                                 /\ row.owner # NoOwner
                                 /\ row.attempts >= 1
    /\ row.status # "running" => /\ row.token = 0
                                 /\ row.owner = NoOwner
                                 /\ ~row.expired

TokensUnique ==
    \A i, j \in Present :
        /\ rows[i].status = "running" /\ rows[j].status = "running"
        /\ rows[i].token = rows[j].token
        => i = j

QueueInv ==
    /\ Present \subseteq spent
    /\ spent \subseteq Jobs
    /\ minted \in Nat
    /\ \A j \in Present : RowInv(rows[j], minted)
    /\ TokensUnique

-----------------------------------------------------------------------------
(* The rows the statements write *)

LEMMA CeilingType == \A t \in Tasks : Ceiling[t] \in Nat /\ Ceiling[t] >= 1
  BY CeilingAssumption

LEMMA NewRowInv ==
  ASSUME NEW in \in Inputs, NEW generation \in Nat,
         NEW who \in Principals \cup {NoPrincipal}, NEW m \in Nat
  PROVE  RowInv(NewRow(in, generation, who), m)
<1>1. in \in Schedule /\ in.maxAttempts <= Ceiling[in.task]
  BY InputAssumption
<1>2. Ceiling[in.task] \in Nat /\ Ceiling[in.task] >= 1
  BY <1>1, CeilingType DEF Schedule
<1>3. GenerationStatus(generation) \in {"ready", "dead"}
  BY DEF GenerationStatus
<1>. QED
  BY <1>1, <1>2, <1>3 DEF RowInv, NewRow, Row, Schedule, Statuses

LEMMA DebouncedRowInv ==
  ASSUME NEW in \in Inputs, NEW who \in Principals \cup {NoPrincipal},
         NEW m \in Nat, NEW row, RowInv(row, m), row.task = in.task
  PROVE  RowInv([row EXCEPT !.args = in.args, !.due = in.due,
                            !.principal = who,
                            !.maxAttempts = in.maxAttempts], m)
<1>1. in \in Schedule /\ in.maxAttempts <= Ceiling[in.task]
  BY InputAssumption
<1>. QED
  BY <1>1 DEF RowInv, Row, Schedule

LEMMA ThrottledRowInv ==
  ASSUME NEW in \in Inputs, NEW m \in Nat,
         NEW row, RowInv(row, m), row.task = in.task
  PROVE  RowInv([row EXCEPT !.maxAttempts = in.maxAttempts], m)
<1>1. in \in Schedule /\ in.maxAttempts <= Ceiling[in.task]
  BY InputAssumption
<1>. QED
  BY <1>1 DEF RowInv, Row, Schedule

LEMMA ReleasedRowInv ==
  ASSUME NEW m \in Nat, NEW row, RowInv(row, m),
         NEW status \in {"succeeded", "dead"}
  PROVE  RowInv(Released(row, status), m)
  BY DEF RowInv, Row, Released, Statuses

\* A row goes back to ready only below a ceiling that is within its task's.
LEMMA RetriedRowInv ==
  ASSUME NEW m \in Nat, NEW row, RowInv(row, m), NEW due \in BOOLEAN,
         row.attempts < Ceiling[row.task]
  PROVE  /\ RowInv(Released(row, "ready"), m)
         /\ RowInv([Released(row, "ready") EXCEPT !.due = due], m)
  BY DEF RowInv, Row, Released, Statuses

LEMMA FailedRowInv ==
  ASSUME NEW m \in Nat, NEW row, RowInv(row, m), NEW due \in BOOLEAN,
         NEW ceiling \in 1..Ceiling[row.task]
  PROVE  RowInv(FailedRow(row, ceiling, due), m)
<1>1. row.attempts \in Nat /\ Ceiling[row.task] \in Nat
  BY CeilingType DEF RowInv, Row
<1>2. CASE row.attempts >= ceiling
  BY <1>2, ReleasedRowInv DEF FailedRow
<1>3. CASE ~(row.attempts >= ceiling)
  <2>1. row.attempts < Ceiling[row.task]
    BY <1>1, <1>3
  <2>. QED
    BY <1>3, <2>1, RetriedRowInv DEF FailedRow
<1>. QED
  BY <1>2, <1>3

LEMMA ReapedRowInv ==
  ASSUME NEW m \in Nat, NEW row, RowInv(row, m)
  PROVE  RowInv(ReapedRow(row), m)
<1>1. /\ row.attempts \in Nat /\ row.maxAttempts \in Nat
      /\ Ceiling[row.task] \in Nat /\ row.maxAttempts <= Ceiling[row.task]
  BY CeilingType DEF RowInv, Row
<1>2. CASE row.attempts >= row.maxAttempts
  BY <1>2, ReleasedRowInv DEF ReapedRow
<1>3. CASE ~(row.attempts >= row.maxAttempts)
  <2>1. row.attempts < Ceiling[row.task]
    BY <1>1, <1>3
  <2>. QED
    BY <1>3, <2>1, RetriedRowInv DEF ReapedRow
<1>. QED
  BY <1>2, <1>3

-----------------------------------------------------------------------------
(* Statements that rewrite rows in place *)

\* The form most statements have: the ids stay, each row is kept or rewritten,
\* and a row that is running afterwards was running before with its token.
LEMMA RewriteKeepsInv ==
  ASSUME QueueInv, DOMAIN rows' = Present, UNCHANGED <<spent, minted>>,
         \A i \in Present :
            \/ rows'[i] = rows[i]
            \/ /\ RowInv(rows'[i], minted)
               /\ rows'[i].status = "running"
                     => rows[i].status = "running" /\ rows'[i].token = rows[i].token
  PROVE  QueueInv'
<1>1. /\ Present' \subseteq spent' /\ spent' \subseteq Jobs /\ minted' \in Nat
      /\ Present' = Present /\ minted' = minted
  BY DEF QueueInv, Present
<1>2. \A i \in Present' : RowInv(rows'[i], minted')
  BY <1>1 DEF QueueInv
<1>3. TokensUnique'
  <2>1. \A i \in Present : rows'[i].status = "running"
           => rows[i].status = "running" /\ rows'[i].token = rows[i].token
    OBVIOUS
  <2>. QED
    BY <1>1, <2>1 DEF QueueInv, TokensUnique
<1>. QED
  BY <1>1, <1>2, <1>3 DEF QueueInv

LEMMA CancelInv ==
  ASSUME QueueInv, NEW j \in Present, Cancel(j)
  PROVE  QueueInv'
<1>1. /\ rows[j].status = "ready"
      /\ rows' = [rows EXCEPT ![j] = [@ EXCEPT !.status = "cancelled"]]
  BY DEF Cancel, With
<1>2. RowInv(rows[j], minted)
  BY DEF QueueInv
<1>3. RowInv([rows[j] EXCEPT !.status = "cancelled"], minted)
  BY <1>1, <1>2 DEF RowInv, Row, Statuses
<1>4. [rows[j] EXCEPT !.status = "cancelled"].status = "cancelled"
  BY <1>2 DEF RowInv, Row
<1>. QED
  BY <1>1, <1>3, <1>4, RewriteKeepsInv DEF Cancel, Present

LEMMA DebounceInv ==
  ASSUME QueueInv, NEW in \in Inputs, NEW generation,
         NEW who \in Principals \cup {NoPrincipal},
         Debounce(in, generation, who)
  PROVE  QueueInv'
<1>1. \A i \in Pending(in) : i \in Present /\ rows[i].status = "ready"
                                          /\ rows[i].task = in.task
  BY DEF Pending, With
<1>2. \A i \in Present : RowInv(rows[i], minted) /\ minted \in Nat
  BY DEF QueueInv
<1>3. \A i \in Pending(in) : RowInv(rows'[i], minted) /\ rows'[i].status = "ready"
  <2>. SUFFICES ASSUME NEW i \in Pending(in)
                PROVE  RowInv(rows'[i], minted) /\ rows'[i].status = "ready"
    OBVIOUS
  <2>1. rows'[i] = [rows[i] EXCEPT !.args = in.args, !.due = in.due,
                                   !.principal = who,
                                   !.maxAttempts = in.maxAttempts]
    BY <1>1 DEF Debounce
  <2>2. RowInv(rows'[i], minted)
    <3>1. RowInv(rows[i], minted) /\ minted \in Nat /\ rows[i].task = in.task
      BY <1>1, <1>2
    <3>2. RowInv([rows[i] EXCEPT !.args = in.args, !.due = in.due,
                                 !.principal = who,
                                 !.maxAttempts = in.maxAttempts], minted)
      BY <3>1, DebouncedRowInv
    <3>. QED
      BY <2>1, <3>2
  <2>3. rows'[i].status = rows[i].status
    BY <1>1, <1>2, <2>1 DEF RowInv, Row
  <2>. QED
    BY <1>1, <2>2, <2>3
<1>4. DOMAIN rows' = Present /\ UNCHANGED <<spent, minted>>
  BY DEF Debounce
<1>5. \A i \in Present \ Pending(in) : rows'[i] = rows[i]
  BY DEF Debounce
<1>. QED
  BY <1>3, <1>4, <1>5, RewriteKeepsInv

LEMMA ThrottleInv ==
  ASSUME QueueInv, NEW in \in Inputs, NEW generation, Throttle(in, generation)
  PROVE  QueueInv'
<1>1. \A i \in Pending(in) : i \in Present /\ rows[i].status = "ready"
                                          /\ rows[i].task = in.task
  BY DEF Pending, With
<1>2. \A i \in Present : RowInv(rows[i], minted) /\ minted \in Nat
  BY DEF QueueInv
<1>3. \A i \in Pending(in) : RowInv(rows'[i], minted) /\ rows'[i].status = "ready"
  <2>. SUFFICES ASSUME NEW i \in Pending(in)
                PROVE  RowInv(rows'[i], minted) /\ rows'[i].status = "ready"
    OBVIOUS
  <2>1. rows'[i] = [rows[i] EXCEPT !.maxAttempts = in.maxAttempts]
    BY <1>1 DEF Throttle
  <2>2. RowInv(rows'[i], minted)
    BY <1>1, <1>2, <2>1, ThrottledRowInv
  <2>3. rows'[i].status = rows[i].status
    BY <1>1, <1>2, <2>1 DEF RowInv, Row
  <2>. QED
    BY <1>1, <2>2, <2>3
<1>4. DOMAIN rows' = Present /\ UNCHANGED <<spent, minted>>
  BY DEF Throttle
<1>5. \A i \in Present \ Pending(in) : rows'[i] = rows[i]
  BY DEF Throttle
<1>. QED
  BY <1>3, <1>4, <1>5, RewriteKeepsInv

\* The settlements replace one running row by one that is not running, or
\* extend its lease.
LEMMA SettleInv ==
  ASSUME QueueInv, NEW j \in Present, NEW owner, NEW token,
         Settle(j, owner, token)
  PROVE  QueueInv'
<1>1. RowInv(rows[j], minted) /\ minted \in Nat
  BY DEF QueueInv
<1>2. CASE Heartbeat(j, owner, token)
  <2>1. rows' = [rows EXCEPT ![j] = [@ EXCEPT !.expired = FALSE]]
        /\ rows[j].status = "running" /\ UNCHANGED <<spent, minted>>
    BY <1>2 DEF Heartbeat, Holds, With
  <2>2. /\ RowInv([rows[j] EXCEPT !.expired = FALSE], minted)
        /\ [rows[j] EXCEPT !.expired = FALSE].token = rows[j].token
    BY <1>1, <2>1 DEF RowInv, Row
  <2>. QED
    BY <2>1, <2>2, RewriteKeepsInv DEF Present
<1>3. CASE MarkSucceeded(j, owner, token)
  <2>1. rows' = [rows EXCEPT ![j] = Released(rows[j], "succeeded")]
        /\ UNCHANGED <<spent, minted>>
    BY <1>3 DEF MarkSucceeded
  <2>2. /\ RowInv(Released(rows[j], "succeeded"), minted)
        /\ Released(rows[j], "succeeded").status = "succeeded"
    BY <1>1, ReleasedRowInv DEF Released, RowInv, Row
  <2>. QED
    BY <2>1, <2>2, RewriteKeepsInv DEF Present
<1>4. CASE \E ceiling \in 1..Ceiling[rows[j].task], due \in BOOLEAN :
             MarkFailed(j, owner, token, ceiling, due)
  <2>1. PICK ceiling \in 1..Ceiling[rows[j].task], due \in BOOLEAN :
            MarkFailed(j, owner, token, ceiling, due)
    BY <1>4
  <2>2. rows' = [rows EXCEPT ![j] = FailedRow(rows[j], ceiling, due)]
        /\ UNCHANGED <<spent, minted>>
    BY <2>1 DEF MarkFailed, FailedTable
  <2>3. RowInv(FailedRow(rows[j], ceiling, due), minted)
    BY <1>1, FailedRowInv
  <2>4. FailedRow(rows[j], ceiling, due).status \in {"ready", "dead"}
    BY <1>1 DEF FailedRow, Released, RowInv, Row
  <2>. QED
    BY <2>2, <2>3, <2>4, RewriteKeepsInv DEF Present
<1>. QED
  BY <1>2, <1>3, <1>4 DEF Settle

LEMMA ReapInv ==
  ASSUME QueueInv, ReapExpiredLeases
  PROVE  QueueInv'
<1>1. \A i \in Present : RowInv(rows[i], minted) /\ minted \in Nat
  BY DEF QueueInv
<1>2. /\ rows' = ReapedTable /\ DOMAIN rows' = Present
      /\ UNCHANGED <<spent, minted>>
  BY DEF ReapExpiredLeases, ReapedTable
<1>3. \A i \in Present : RowInv(ReapedRow(rows[i]), minted)
                        /\ ReapedRow(rows[i]).status \in {"ready", "dead"}
  <2>1. \A i \in Present : RowInv(ReapedRow(rows[i]), minted)
    BY <1>1, ReapedRowInv
  <2>2. \A i \in Present : ReapedRow(rows[i]).status \in {"ready", "dead"}
    BY <1>1 DEF ReapedRow, Released, RowInv, Row
  <2>. QED
    BY <2>1, <2>2
<1>4. \A i \in Present : rows'[i] = rows[i] \/ rows'[i] = ReapedRow(rows[i])
  BY <1>2 DEF ReapedTable
<1>. QED
  BY <1>2, <1>3, <1>4, RewriteKeepsInv

LEMMA TimeInv ==
  ASSUME QueueInv, NEW j \in Present, BecomesDue(j) \/ LeaseExpires(j)
  PROVE  QueueInv'
<1>1. RowInv(rows[j], minted) /\ minted \in Nat
  BY DEF QueueInv
<1>2. CASE BecomesDue(j)
  <2>1. rows' = [rows EXCEPT ![j] = [@ EXCEPT !.due = TRUE]]
        /\ rows[j].status = "ready" /\ UNCHANGED <<spent, minted>>
    BY <1>2 DEF BecomesDue, With
  <2>2. /\ RowInv([rows[j] EXCEPT !.due = TRUE], minted)
        /\ [rows[j] EXCEPT !.due = TRUE].status = "ready"
    BY <1>1, <2>1 DEF RowInv, Row
  <2>. QED
    BY <2>1, <2>2, RewriteKeepsInv DEF Present
<1>3. CASE LeaseExpires(j)
  <2>1. rows' = [rows EXCEPT ![j] = [@ EXCEPT !.expired = TRUE]]
        /\ rows[j].status = "running" /\ UNCHANGED <<spent, minted>>
    BY <1>3 DEF LeaseExpires, With
  <2>2. /\ RowInv([rows[j] EXCEPT !.expired = TRUE], minted)
        /\ [rows[j] EXCEPT !.expired = TRUE].token = rows[j].token
    BY <1>1, <2>1 DEF RowInv, Row
  <2>. QED
    BY <2>1, <2>2, RewriteKeepsInv DEF Present
<1>. QED
  BY <1>2, <1>3

-----------------------------------------------------------------------------
(* Statements that insert, claim or delete *)

LEMMA InsertInv ==
  ASSUME QueueInv, NEW in \in Inputs, NEW generation \in Nat,
         NEW who \in Principals \cup {NoPrincipal},
         NEW j \in Jobs, Insert(j, in, generation, who)
  PROVE  QueueInv'
<1>1. /\ j \notin Present
      /\ Present' = Present \cup {j} /\ spent' = spent \cup {j}
      /\ minted' = minted /\ minted \in Nat
      /\ rows'[j] = NewRow(in, generation, who)
      /\ \A i \in Present : rows'[i] = rows[i]
  BY DEF Insert, Present, QueueInv
<1>2. RowInv(rows'[j], minted') /\ rows'[j].status # "running"
  <2>1. RowInv(rows'[j], minted')
    BY <1>1, NewRowInv
  <2>2. rows'[j].status # "running"
    BY <1>1 DEF NewRow, GenerationStatus
  <2>. QED
    BY <2>1, <2>2
<1>3. \A i \in Present' : RowInv(rows'[i], minted')
  BY <1>1, <1>2 DEF QueueInv
<1>4. TokensUnique'
  BY <1>1, <1>2 DEF QueueInv, TokensUnique
<1>. QED
  BY <1>1, <1>3, <1>4 DEF QueueInv

LEMMA EnqueueInv ==
  ASSUME QueueInv, NEW in \in Inputs, NEW generation \in Nat,
         NEW who \in Principals \cup {NoPrincipal}, Enqueue(in, generation, who)
  PROVE  QueueInv'
  BY InsertInv, DebounceInv, ThrottleInv DEF Enqueue

LEMMA ClaimInv ==
  ASSUME QueueInv, NEW j \in Present, NEW keys \in SUBSET Tasks,
         NEW owner \in Owners, ClaimDue(j, keys, owner)
  PROVE  QueueInv'
<1> DEFINE claimed == [rows[j] EXCEPT !.status = "running",
                                      !.attempts = rows[j].attempts + 1,
                                      !.owner = owner,
                                      !.token = minted + 1,
                                      !.expired = FALSE]
<1>1. /\ rows' = [rows EXCEPT ![j] = claimed] /\ rows[j].status = "ready"
      /\ minted' = minted + 1 /\ spent' = spent
  BY DEF ClaimDue, Claimable, With
<1>2. /\ minted \in Nat /\ Present' = Present /\ rows'[j] = claimed
      /\ \A i \in Present : i # j => rows'[i] = rows[i]
      /\ \A i \in Present : RowInv(rows[i], minted)
  BY <1>1 DEF QueueInv, Present
<1>3. RowInv(claimed, minted + 1) /\ claimed.token = minted + 1
  <2>1. /\ rows[j].attempts \in Nat
        /\ rows[j].attempts < Ceiling[rows[j].task]
        /\ Ceiling[rows[j].task] \in Nat
    BY <1>1, <1>2, CeilingType DEF RowInv, Row
  <2>2. claimed \in Row
    <3>1. rows[j] \in Row /\ minted + 1 \in Nat /\ rows[j].attempts + 1 \in Nat
      BY <1>2, <2>1 DEF RowInv
    <3>2. "running" \in Statuses /\ owner \in Owners \cup {NoOwner} /\ FALSE \in BOOLEAN
      BY DEF Statuses
    <3>. QED
      BY <3>1, <3>2 DEF Row
  <2>3. /\ claimed.status = "running" /\ claimed.owner = owner
        /\ claimed.token = minted + 1 /\ claimed.task = rows[j].task
        /\ claimed.attempts = rows[j].attempts + 1
        /\ claimed.maxAttempts = rows[j].maxAttempts
    BY <1>2 DEF RowInv, Row
  <2>4. owner # NoOwner /\ rows[j].maxAttempts <= Ceiling[rows[j].task]
    BY <1>2, NullAssumption DEF RowInv
  <2>. HIDE DEF claimed
  <2>. QED
    BY <1>2, <2>1, <2>2, <2>3, <2>4 DEF RowInv
<1>. HIDE DEF claimed
<1>4. \A i \in Present : i # j => RowInv(rows'[i], minted + 1)
  <2>1. \A i \in Present : RowInv(rows[i], minted + 1)
    BY <1>2 DEF RowInv
  <2>. QED
    BY <1>2, <2>1
<1>5. TokensUnique'
  <2>1. \A i \in Present : rows[i].status = "running" => rows[i].token \in 1..minted
    BY <1>2 DEF RowInv
  <2>2. \A i \in Present : rows[i].status = "running" => rows[i].token # minted + 1
    BY <1>2, <2>1
  <2>. QED
    BY <1>2, <1>3, <2>2 DEF QueueInv, TokensUnique
<1>6. \A i \in Present' : RowInv(rows'[i], minted')
  BY <1>1, <1>2, <1>3, <1>4
<1>. QED
  BY <1>1, <1>2, <1>5, <1>6 DEF QueueInv

LEMMA EraseInv ==
  ASSUME QueueInv, NEW who, ErasePrincipal(who)
  PROVE  QueueInv'
<1>1. /\ Present' \subseteq Present /\ UNCHANGED <<spent, minted>>
      /\ \A i \in Present' : rows'[i] = rows[i]
  BY DEF ErasePrincipal, Present
<1>2. \A i \in Present' : RowInv(rows'[i], minted')
  BY <1>1 DEF QueueInv
<1>3. TokensUnique'
  BY <1>1 DEF QueueInv, TokensUnique
<1>. QED
  BY <1>1, <1>2, <1>3 DEF QueueInv

-----------------------------------------------------------------------------
(* The invariant *)

LEMMA InitInv == QueueInit => QueueInv
  BY DEF QueueInit, QueueInv, Present, TokensUnique

LEMMA StepInv == QueueInv /\ [QueueNext]_queueVars => QueueInv'
<1>. SUFFICES ASSUME QueueInv, [QueueNext]_queueVars PROVE QueueInv'
  OBVIOUS
<1>1. CASE UNCHANGED queueVars
  BY <1>1 DEF queueVars, QueueInv, Present, TokensUnique
<1>2. CASE \E in \in Inputs, generation \in 0..(MaxGenerations + 1),
              who \in Principals \cup {NoPrincipal} : Enqueue(in, generation, who)
  BY <1>2, EnqueueInv, NumberAssumption
<1>3. CASE \E j \in Present : Cancel(j)
  BY <1>3, CancelInv
<1>4. CASE \E j \in Present, keys \in SUBSET Tasks, owner \in Owners :
              ClaimDue(j, keys, owner)
  BY <1>4, ClaimInv
<1>5. CASE \E j \in Present, owner \in Owners, token \in 1..minted :
              Settle(j, owner, token)
  BY <1>5, SettleInv
<1>6. CASE ReapExpiredLeases
  BY <1>6, ReapInv
<1>7. CASE \E who \in Principals : ErasePrincipal(who)
  BY <1>7, EraseInv
<1>8. CASE \E j \in Present : BecomesDue(j) \/ LeaseExpires(j)
  BY <1>8, TimeInv
<1>. QED
  BY <1>1, <1>2, <1>3, <1>4, <1>5, <1>6, <1>7, <1>8 DEF QueueNext, Enqueues, RowsMove

\* Every row stays well formed, within its ceilings, and leased only while it runs.
THEOREM QueueInvHolds == QueueSpec => []QueueInv
  BY InitInv, StepInv, PTL DEF QueueSpec

\* The table only ever holds well-formed rows, under ids minted for them.
THEOREM TypeCorrect == QueueSpec => []QueueTypeOK
<1>1. QueueInv => QueueTypeOK
  BY DEF QueueInv, QueueTypeOK, RowInv
<1>. QED
  BY <1>1, QueueInvHolds, PTL

\* No job is claimed more often than the largest ceiling of its task allows.
THEOREM AttemptsStayBounded == QueueSpec => []AttemptsBounded
<1>1. QueueInv => AttemptsBounded
  BY DEF QueueInv, AttemptsBounded, RowInv
<1>. QED
  BY <1>1, QueueInvHolds, PTL

\* Exactly the running rows are leased, each under its own token.
THEOREM LeasesStayConsistent == QueueSpec => []LeaseConsistent
<1>1. QueueInv => LeaseConsistent
  BY DEF QueueInv, LeaseConsistent, RowInv, TokensUnique, With
<1>. QED
  BY <1>1, QueueInvHolds, PTL

-----------------------------------------------------------------------------
(* What a step may never do *)

LEMMA ReleasedUntouched ==
  ASSUME NEW row \in Row, row.status = "running", NEW status, NEW due
  PROVE  /\ Untouched(row, Released(row, status))
         /\ Untouched(row, [Released(row, status) EXCEPT !.due = due])
  BY DEF Untouched, Released, Row, Terminal

LEMMA SettledRowsUntouched ==
  ASSUME QueueInv, NEW j \in Present, NEW owner, NEW token,
         Settle(j, owner, token)
  PROVE  \A i \in Present \cap DOMAIN rows' : Untouched(rows[i], rows'[i])
<1>1. rows[j] \in Row /\ rows[j].status = "running"
  BY DEF QueueInv, RowInv, Settle, Heartbeat, MarkSucceeded, MarkFailed, Holds, With
<1>2. Untouched(rows[j], Released(rows[j], "succeeded"))
  BY <1>1, ReleasedUntouched
<1>3. Untouched(rows[j], [rows[j] EXCEPT !.expired = FALSE])
  BY <1>1 DEF Untouched, Row, Terminal
<1>4. \A ceiling, due : Untouched(rows[j], FailedRow(rows[j], ceiling, due))
  BY <1>1, ReleasedUntouched DEF FailedRow
<1>5. \/ rows' = [rows EXCEPT ![j] = [@ EXCEPT !.expired = FALSE]]
      \/ rows' = [rows EXCEPT ![j] = Released(rows[j], "succeeded")]
      \/ \E ceiling, due : rows' = [rows EXCEPT ![j] = FailedRow(rows[j], ceiling, due)]
  BY DEF Settle, Heartbeat, MarkSucceeded, MarkFailed, FailedTable
<1>6. \A i \in Present : i # j => rows'[i] = rows[i]
  BY <1>5 DEF Present
<1>7. \/ rows'[j] = [rows[j] EXCEPT !.expired = FALSE]
      \/ rows'[j] = Released(rows[j], "succeeded")
      \/ \E ceiling, due : rows'[j] = FailedRow(rows[j], ceiling, due)
  BY <1>5 DEF Present
<1>8. Untouched(rows[j], rows'[j])
  BY <1>2, <1>3, <1>4, <1>7
<1>. QED
  BY <1>6, <1>8 DEF Untouched

\* Every other statement rewrites only ready rows, except the reaper, which
\* releases the expired ones.
LEMMA StepUntouched ==
  ASSUME QueueInv, QueueNext
  PROVE  \A i \in Present \cap DOMAIN rows' : Untouched(rows[i], rows'[i])
<1>1. CASE \E in \in Inputs, generation \in 0..(MaxGenerations + 1),
              who \in Principals \cup {NoPrincipal} : Enqueue(in, generation, who)
  <2>1. PICK in \in Inputs, generation \in 0..(MaxGenerations + 1),
             who \in Principals \cup {NoPrincipal} : Enqueue(in, generation, who)
    BY <1>1
  <2>2. \A i \in Present \cap DOMAIN rows' : i \notin Pending(in) => rows'[i] = rows[i]
    BY <2>1 DEF Enqueue, Insert, Debounce, Throttle, Coalesces, QueueInv, Present
  <2>3. \A i \in Pending(in) : rows[i].status = "ready"
    BY DEF Pending, With
  <2>. QED
    BY <2>2, <2>3 DEF Untouched
<1>2. CASE \E j \in Present : Cancel(j)
  BY <1>2 DEF Cancel, With, Untouched, Present
<1>3. CASE \E j \in Present, keys \in SUBSET Tasks, owner \in Owners :
              ClaimDue(j, keys, owner)
  BY <1>3 DEF ClaimDue, Claimable, With, Untouched, Present
<1>4. CASE \E j \in Present, owner \in Owners, token \in 1..minted :
              Settle(j, owner, token)
  BY <1>4, SettledRowsUntouched
<1>5. CASE ReapExpiredLeases
  <2>1. \A i \in Expired : rows[i] \in Row /\ rows[i].status = "running"
    BY DEF Expired, With, QueueInv, RowInv
  <2>2. \A i \in Expired : Untouched(rows[i], ReapedRow(rows[i]))
    BY <2>1, ReleasedUntouched DEF ReapedRow
  <2>. QED
    BY <1>5, <2>2 DEF ReapExpiredLeases, ReapedTable, Untouched
<1>6. CASE \E who \in Principals : ErasePrincipal(who)
  BY <1>6 DEF ErasePrincipal, Untouched, Present
<1>7. CASE \E j \in Present : BecomesDue(j)
  BY <1>7 DEF BecomesDue, With, Untouched, Present
<1>8. CASE \E j \in Present : LeaseExpires(j)
  <2>1. PICK j \in Present : LeaseExpires(j)
    BY <1>8
  <2>2. /\ rows[j] \in Row /\ rows[j].status = "running"
        /\ rows' = [rows EXCEPT ![j] = [rows[j] EXCEPT !.expired = TRUE]]
    BY <2>1 DEF LeaseExpires, With, QueueInv, RowInv
  <2>3. Untouched(rows[j], [rows[j] EXCEPT !.expired = TRUE])
    BY <2>2 DEF Untouched, Row, Terminal
  <2>. QED
    BY <2>2, <2>3 DEF Untouched, Present
<1>. QED
  BY <1>1, <1>2, <1>3, <1>4, <1>5, <1>6, <1>7, <1>8 DEF QueueNext, Enqueues, RowsMove

\* No statement changes the arguments, the principal or the generation of a job
\* that has started, and none changes a finished job at all.
THEOREM StartedJobsUntouched == QueueSpec => ScheduleNeverTouchesStarted
<1>1. QueueInv /\ [QueueNext]_queueVars
        => [\A j \in Present \cap DOMAIN rows' : Untouched(rows[j], rows'[j])]_queueVars
  BY StepUntouched
<1>. QED
  BY <1>1, QueueInvHolds, PTL DEF QueueSpec, ScheduleNeverTouchesStarted

\* Only a claim starts a row running, and nothing gives a running row a token.
LEMMA StepSucceeds ==
  ASSUME QueueInv, QueueNext
  PROVE  \A i \in Present \cap DOMAIN rows' : LeaseSucceeds(rows[i], rows'[i])
<1>. SUFFICES ASSUME NEW i \in Present \cap DOMAIN rows'
              PROVE  LeaseSucceeds(rows[i], rows'[i])
  OBVIOUS
<1>a. rows[i] \in Row
  BY DEF QueueInv, RowInv
<1>1. CASE \E in \in Inputs, generation \in 0..(MaxGenerations + 1),
              who \in Principals \cup {NoPrincipal} : Enqueue(in, generation, who)
  <2>1. PICK in \in Inputs, generation \in 0..(MaxGenerations + 1),
             who \in Principals \cup {NoPrincipal} : Enqueue(in, generation, who)
    BY <1>1
  <2>2. rows'[i].status = rows[i].status /\ rows'[i].token = rows[i].token
    <3>1. CASE \E j \in Jobs : Insert(j, in, generation, who)
      BY <3>1 DEF Insert, QueueInv, Present
    <3>2. CASE Debounce(in, generation, who)
      BY <3>2, <1>a DEF Debounce, Row
    <3>3. CASE Throttle(in, generation)
      BY <3>3, <1>a DEF Throttle, Row
    <3>. QED
      BY <2>1, <3>1, <3>2, <3>3 DEF Enqueue
  <2>. QED
    BY <2>2 DEF LeaseSucceeds
<1>2. CASE \E j \in Present : Cancel(j)
  BY <1>2, <1>a DEF Cancel, With, LeaseSucceeds, Present, Row
<1>3. CASE \E j \in Present, keys \in SUBSET Tasks, owner \in Owners :
              ClaimDue(j, keys, owner)
  <2>1. PICK j \in Present, keys \in SUBSET Tasks, owner \in Owners :
            ClaimDue(j, keys, owner)
    BY <1>3
  <2>2. \A k \in Present : rows[k].token \in Nat /\ rows[k].token <= minted
    BY DEF QueueInv, RowInv, Row
  <2>3. minted \in Nat
    BY DEF QueueInv
  <2>4. CASE i = j
    <3>1. rows[i].status = "ready" /\ rows'[i].token = minted + 1
      BY <2>1, <2>4, <1>a DEF ClaimDue, Claimable, With, Present, Row
    <3>. QED
      BY <3>1, <2>2, <2>3 DEF LeaseSucceeds
  <2>5. CASE i # j
    BY <2>1, <2>5 DEF ClaimDue, LeaseSucceeds, Present
  <2>. QED
    BY <2>4, <2>5
<1>4. CASE \E j \in Present, owner \in Owners, token \in 1..minted :
              Settle(j, owner, token)
  <2>1. PICK j \in Present, owner \in Owners, token \in 1..minted :
            Settle(j, owner, token)
    BY <1>4
  <2>2. rows[j] \in Row
    BY DEF QueueInv, RowInv
  <2>3. \A row \in Row : \A status : Released(row, status).status = status
    BY DEF Released, Row
  <2>4. \A ceiling, due : FailedRow(rows[j], ceiling, due).status # "running"
    BY <2>2 DEF FailedRow, Released, Row
  <2>5. \/ rows' = [rows EXCEPT ![j] = [@ EXCEPT !.expired = FALSE]]
        \/ rows' = [rows EXCEPT ![j] = Released(rows[j], "succeeded")]
        \/ \E ceiling, due : rows' = [rows EXCEPT ![j] = FailedRow(rows[j], ceiling, due)]
    BY <2>1 DEF Settle, Heartbeat, MarkSucceeded, MarkFailed, FailedTable
  <2>6. CASE i # j
    BY <2>5, <2>6 DEF LeaseSucceeds, Present
  <2>7. CASE i = j
    <3>1. \/ rows'[i] = [rows[i] EXCEPT !.expired = FALSE]
          \/ rows'[i] = Released(rows[i], "succeeded")
          \/ \E ceiling, due : rows'[i] = FailedRow(rows[i], ceiling, due)
      BY <2>5, <2>7 DEF Present
    <3>2. CASE rows'[i] = [rows[i] EXCEPT !.expired = FALSE]
      BY <3>2, <1>a DEF LeaseSucceeds, Row
    <3>3. CASE rows'[i].status # "running"
      BY <3>3 DEF LeaseSucceeds
    <3>. QED
      BY <3>1, <3>2, <3>3, <2>2, <2>3, <2>4, <2>7
  <2>. QED
    BY <2>6, <2>7
<1>5. CASE ReapExpiredLeases
  <2>1. rows'[i] = rows[i] \/ rows'[i] = ReapedRow(rows[i])
    BY <1>5 DEF ReapExpiredLeases, ReapedTable
  <2>2. ReapedRow(rows[i]).status # "running"
    BY <1>a DEF ReapedRow, Released, Row
  <2>. QED
    BY <2>1, <2>2 DEF LeaseSucceeds
<1>6. CASE \E who \in Principals : ErasePrincipal(who)
  BY <1>6 DEF ErasePrincipal, LeaseSucceeds, Present
<1>7. CASE \E j \in Present : BecomesDue(j) \/ LeaseExpires(j)
  BY <1>7, <1>a DEF BecomesDue, LeaseExpires, With, LeaseSucceeds, Present, Row
<1>. QED
  BY <1>1, <1>2, <1>3, <1>4, <1>5, <1>6, <1>7 DEF QueueNext, Enqueues, RowsMove

\* A lease is taken only from the ready state, under a token newer than all.
THEOREM LeasesNeverTakenOver == QueueSpec => NoTakeover
<1>1. QueueInv /\ [QueueNext]_queueVars
        => [\A j \in Present \cap DOMAIN rows' : LeaseSucceeds(rows[j], rows'[j])]_queueVars
  BY StepSucceeds
<1>. QED
  BY <1>1, QueueInvHolds, PTL DEF QueueSpec, NoTakeover

=============================================================================
