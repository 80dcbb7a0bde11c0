--------------------------- MODULE TaskCronProofs ---------------------------
(***************************************************************************)
(* Theorems about the materializer of recurring tasks: whatever the number *)
(* of nodes, minutes and tasks, whatever crashes and throws, and whatever  *)
(* requests, runners and erasures do to the job table meanwhile, an        *)
(* occurrence has at most one job, keeps it, and a binding names it.       *)
(*                                                                         *)
(* Every step of this system is a step of TaskQueue, whose invariant is    *)
(* taken over.  What is added relates the reservations, the statements the *)
(* nodes have in hand, and the rows whose key is an occurrence.            *)
(***************************************************************************)
EXTENDS TaskCron, TaskQueueProofs, FiniteSetTheorems

Statements ==
    {Nothing}
    \cup [step : {"enqueue"}, occurrence : Occurrences, job : {NoKey}]
    \cup [step : {"bind"}, occurrence : Occurrences, job : Jobs]

NodesTyped ==
    /\ mode \in [Nodes -> {"down", "boot", "idle", "tick"}]
    /\ began \in [Nodes -> 0..Horizon]
    /\ todo \in [Nodes -> SUBSET Occurrences]
    /\ doing \in [Nodes -> Statements]

\* An occurrence that has a job was reserved, has no other one, and its job is
\* nobody's, so that no erasure takes it.
JobsInv ==
    \A o \in Occurrences :
        /\ JobsOf(o) # {} => o \in reserved
        /\ \A i, j \in JobsOf(o) : i = j
        /\ \A j \in JobsOf(o) : rows[j].principal = NoPrincipal

WillEnqueue(n, o) == doing[n].step = "enqueue" /\ doing[n].occurrence = o

\* The node that reserved an occurrence is alone with it, and it has no job yet.
EnqueuesInv ==
    /\ \A n \in Nodes, o \in Occurrences : WillEnqueue(n, o) => o \in reserved /\ JobsOf(o) = {}
    /\ \A m, n \in Nodes, o \in Occurrences : WillEnqueue(m, o) /\ WillEnqueue(n, o) => m = n

BindsInv ==
    \A n \in Nodes : doing[n].step = "bind" => doing[n].job \in JobsOf(doing[n].occurrence)

CronInv ==
    /\ QueueInv
    /\ clock \in 0..Horizon
    /\ reserved \subseteq Occurrences
    /\ DOMAIN bound \subseteq reserved
    /\ NodesTyped
    /\ JobsInv
    /\ EnqueuesInv
    /\ BindsInv
    /\ BindingsName

-----------------------------------------------------------------------------
(* Lemmas: what the statements do to the jobs of the occurrences *)

\* Nobody's job is added, removed or handed over among those of the occurrences.
Keeps ==
    \A o \in Occurrences :
        /\ JobsOf(o)' = JobsOf(o)
        /\ \A j \in JobsOf(o) : rows'[j].principal = rows[j].principal

\* One job is added, to an occurrence.
Adds(j, o) ==
    /\ j \notin Present
    /\ JobsOf(o)' = JobsOf(o) \cup {j} /\ rows'[j].principal = NoPrincipal
    /\ \A p \in Occurrences :
          /\ p # o => JobsOf(p)' = JobsOf(p)
          /\ \A i \in JobsOf(p) : rows'[i].principal = rows[i].principal

LEMMA OccurrenceKeys == \A o \in Occurrences : o \in Keys /\ o # NoKey /\ CronInput(o).key = o
  BY KeyAssumption, NullAssumption DEF CronInput

LEMMA CronInputsScheduled == \A o \in Occurrences : CronInput(o) \in Inputs
  BY ScopeAssumption DEF CronInputs

LEMMA EnqueueIsQueueStep ==
  ASSUME NEW o \in Occurrences, NEW j \in Jobs, EnqueueOccurrence(o, j)
  PROVE  QueueNext
<1>1. CronInput(o) \in Inputs /\ 0 \in 0..(MaxGenerations + 1)
  BY CronInputsScheduled, NumberAssumption
<1>2. Enqueue(CronInput(o), 0, NoPrincipal)
  BY DEF EnqueueOccurrence, Enqueue
<1>. QED
  BY <1>1, <1>2 DEF QueueNext, Enqueues

\* The first job of an occurrence is a new one.
LEMMA EnqueueEffect ==
  ASSUME QueueInv, NEW o \in Occurrences, NEW j \in Jobs, EnqueueOccurrence(o, j),
         JobsOf(o) = {}
  PROVE  Adds(j, o)
<1>1. Pending(CronInput(o)) = {}
  BY OccurrenceKeys DEF Pending, With, JobsOf
<1>2. Insert(j, CronInput(o), 0, NoPrincipal)
  BY <1>1 DEF EnqueueOccurrence
<1>3. j \notin Present
  BY <1>2 DEF Insert, QueueInv
<1>4. /\ Present' = Present \cup {j}
      /\ rows'[j] = NewRow(CronInput(o), 0, NoPrincipal)
      /\ \A i \in Present : rows'[i] = rows[i]
  BY <1>2, <1>3 DEF Insert, Present
<1>5. rows'[j].key = o /\ rows'[j].principal = NoPrincipal
  BY <1>4, OccurrenceKeys DEF NewRow
<1>. QED
  BY <1>3, <1>4, <1>5 DEF Adds, JobsOf

\* A statement that keeps the rows of the occurrences in place.
LEMMA RowsKept ==
  ASSUME \A j \in Present : rows[j].key \in Occurrences =>
            j \in Present' /\ rows'[j].key = rows[j].key
                          /\ rows'[j].principal = rows[j].principal,
         \A j \in Present' : rows'[j].key \in Occurrences =>
            j \in Present /\ rows[j].key = rows'[j].key
  PROVE  Keeps
  BY DEF Keeps, JobsOf

\* The schedules of the others carry no key of an occurrence.
LEMMA OtherEnqueuesKeep ==
  ASSUME QueueInv, NEW in \in Inputs \ CronInputs, NEW generation, NEW who,
         Enqueue(in, generation, who)
  PROVE  Keeps
<1>1. in.key \notin Occurrences
  BY ScopeAssumption
<1>2. \A j \in Present : rows[j] \in Row
  BY DEF QueueInv, RowInv
<1>3. CASE \E j \in Jobs : Insert(j, in, generation, who)
  <2>1. PICK j \in Jobs : Insert(j, in, generation, who)
    BY <1>3
  <2>2. j \notin Present
    BY <2>1 DEF Insert, QueueInv
  <2>3. /\ Present' = Present \cup {j}
        /\ rows'[j].key = in.key
        /\ \A i \in Present : rows'[i] = rows[i]
    BY <2>1, <2>2 DEF Insert, Present, NewRow
  <2>. QED
    BY <1>1, <2>3, RowsKept
<1>4. CASE Debounce(in, generation, who) \/ Throttle(in, generation)
  <2>1. \A i \in Pending(in) : rows[i].key = in.key
    BY DEF Pending
  <2>2. /\ Present' = Present
        /\ \A i \in Present \ Pending(in) : rows'[i] = rows[i]
        /\ \A i \in Present : rows'[i].key = rows[i].key
    BY <1>2, <1>4 DEF Debounce, Throttle, Present, Row
  <2>. QED
    BY <1>1, <2>1, <2>2, RowsKept
<1>. QED
  BY <1>3, <1>4 DEF Enqueue

\* A statement that rewrites one row leaves its key and its principal.
LEMMA RewriteKeeps ==
  ASSUME NEW j \in Present, NEW row, rows' = [rows EXCEPT ![j] = row],
         row.key = rows[j].key, row.principal = rows[j].principal
  PROVE  Keeps
<1>1. /\ Present' = Present
      /\ \A i \in Present : rows'[i] = IF i = j THEN row ELSE rows[i]
  BY DEF Present
<1>. QED
  BY <1>1, RowsKept

LEMMA ReleasedKeeps ==
  ASSUME NEW row \in Row, NEW status, NEW due
  PROVE  /\ Released(row, status).key = row.key
         /\ Released(row, status).principal = row.principal
         /\ [Released(row, status) EXCEPT !.due = due].key = row.key
         /\ [Released(row, status) EXCEPT !.due = due].principal = row.principal
  BY DEF Released, Row

\* Neither the runners nor an erasure add a job to an occurrence or take one from it.
LEMMA RowsMoveKeeps ==
  ASSUME QueueInv, JobsInv, RowsMove
  PROVE  Keeps
<1>0. \A j \in Present : rows[j] \in Row
  BY DEF QueueInv, RowInv
<1>1. CASE \E j \in Present : Cancel(j)
  <2>1. PICK j \in Present : Cancel(j)
    BY <1>1
  <2>2. rows' = [rows EXCEPT ![j] = [rows[j] EXCEPT !.status = "cancelled"]]
    BY <2>1 DEF Cancel
  <2>3. /\ [rows[j] EXCEPT !.status = "cancelled"].key = rows[j].key
        /\ [rows[j] EXCEPT !.status = "cancelled"].principal = rows[j].principal
    BY <1>0 DEF Row
  <2>. QED
    BY <2>2, <2>3, RewriteKeeps
<1>2. CASE \E j \in Present, keys \in SUBSET Tasks, owner \in Owners :
              ClaimDue(j, keys, owner)
  <2>1. PICK j \in Present, keys \in SUBSET Tasks, owner \in Owners :
            ClaimDue(j, keys, owner)
    BY <1>2
  <2>. DEFINE claimed ==
           [rows[j] EXCEPT !.status = "running", !.attempts = rows[j].attempts + 1,
                           !.owner = owner, !.token = minted + 1, !.expired = FALSE]
  <2>2. rows' = [rows EXCEPT ![j] = claimed]
    BY <2>1 DEF ClaimDue
  <2>3. claimed.key = rows[j].key /\ claimed.principal = rows[j].principal
    BY <1>0 DEF Row
  <2>. HIDE DEF claimed
  <2>. QED
    BY <2>2, <2>3, RewriteKeeps
<1>3. CASE \E j \in Present, owner \in Owners, token \in 1..minted :
              Settle(j, owner, token)
  <2>1. PICK j \in Present, owner \in Owners, token \in 1..minted :
            Settle(j, owner, token)
    BY <1>3
  <2>2. \/ rows' = [rows EXCEPT ![j] = [rows[j] EXCEPT !.expired = FALSE]]
        \/ rows' = [rows EXCEPT ![j] = Released(rows[j], "succeeded")]
        \/ \E ceiling, due : rows' = [rows EXCEPT ![j] = FailedRow(rows[j], ceiling, due)]
    BY <2>1 DEF Settle, Heartbeat, MarkSucceeded, MarkFailed, FailedTable
  <2>3. CASE rows' = [rows EXCEPT ![j] = [rows[j] EXCEPT !.expired = FALSE]]
    <3>1. /\ [rows[j] EXCEPT !.expired = FALSE].key = rows[j].key
          /\ [rows[j] EXCEPT !.expired = FALSE].principal = rows[j].principal
      BY <1>0 DEF Row
    <3>. QED
      BY <2>3, <3>1, RewriteKeeps
  <2>4. CASE rows' = [rows EXCEPT ![j] = Released(rows[j], "succeeded")]
    BY <1>0, <2>4, ReleasedKeeps, RewriteKeeps
  <2>5. CASE \E ceiling, due : rows' = [rows EXCEPT ![j] = FailedRow(rows[j], ceiling, due)]
    <3>1. PICK ceiling, due : rows' = [rows EXCEPT ![j] = FailedRow(rows[j], ceiling, due)]
      BY <2>5
    <3>2. /\ FailedRow(rows[j], ceiling, due).key = rows[j].key
          /\ FailedRow(rows[j], ceiling, due).principal = rows[j].principal
      BY <1>0, ReleasedKeeps DEF FailedRow
    <3>. QED
      BY <3>1, <3>2, RewriteKeeps
  <2>. QED
    BY <2>2, <2>3, <2>4, <2>5
<1>4. CASE ReapExpiredLeases
  <2>1. \A i \in Present : ReapedRow(rows[i]).key = rows[i].key
                            /\ ReapedRow(rows[i]).principal = rows[i].principal
    BY <1>0, ReleasedKeeps DEF ReapedRow
  <2>2. /\ Present' = Present
        /\ \A i \in Present : rows'[i] = rows[i] \/ rows'[i] = ReapedRow(rows[i])
    BY <1>4 DEF ReapExpiredLeases, ReapedTable, Present
  <2>. QED
    BY <2>1, <2>2, RowsKept
<1>5. CASE \E who \in Principals : ErasePrincipal(who)
  <2>1. PICK who \in Principals : ErasePrincipal(who)
    BY <1>5
  <2>2. \A j \in Present : rows[j].key \in Occurrences => rows[j].principal # who
    BY ScopeAssumption DEF JobsInv, JobsOf
  <2>3. /\ Present' = {i \in Present : rows[i].principal # who}
        /\ \A i \in Present' : rows'[i] = rows[i]
    BY <2>1 DEF ErasePrincipal, Present
  <2>. QED
    BY <2>2, <2>3, RowsKept
<1>6. CASE \E j \in Present : BecomesDue(j) \/ LeaseExpires(j)
  <2>1. PICK j \in Present : \/ rows' = [rows EXCEPT ![j] = [rows[j] EXCEPT !.due = TRUE]]
                            \/ rows' = [rows EXCEPT ![j] = [rows[j] EXCEPT !.expired = TRUE]]
    BY <1>6 DEF BecomesDue, LeaseExpires
  <2>2. /\ [rows[j] EXCEPT !.due = TRUE].key = rows[j].key
        /\ [rows[j] EXCEPT !.due = TRUE].principal = rows[j].principal
        /\ [rows[j] EXCEPT !.expired = TRUE].key = rows[j].key
        /\ [rows[j] EXCEPT !.expired = TRUE].principal = rows[j].principal
    BY <1>0 DEF Row
  <2>. QED
    BY <2>1, <2>2, RewriteKeeps
<1>. QED
  BY <1>1, <1>2, <1>3, <1>4, <1>5, <1>6 DEF RowsMove

LEMMA JobMovesKeep ==
  ASSUME CronInv, JobMoves
  PROVE  Keeps /\ QueueNext
<1>1. CASE Enqueues(Inputs \ CronInputs)
  <2>1. Keeps
    BY <1>1, OtherEnqueuesKeep DEF Enqueues, CronInv
  <2>2. Enqueues(Inputs)
    BY <1>1 DEF Enqueues
  <2>. QED
    BY <2>1, <2>2 DEF QueueNext
<1>2. CASE RowsMove
  BY <1>2, RowsMoveKeeps DEF CronInv, QueueNext
<1>. QED
  BY <1>1, <1>2 DEF JobMoves

-----------------------------------------------------------------------------
(* One lemma per kind of step *)

\* The invariant survives when the jobs of the occurrences and the reservations
\* stay, and the statements under way stay or are dropped.
LEMMA QuietStep ==
  ASSUME CronInv, Keeps, QueueInv', NodesTyped', clock' \in 0..Horizon,
         reserved' = reserved, bound' = bound,
         \A n \in Nodes : doing'[n] = doing[n] \/ doing'[n] = Nothing
  PROVE  CronInv'
<1>1. JobsInv'
  BY DEF CronInv, JobsInv, Keeps
<1>2. \A n \in Nodes, o \in Occurrences : WillEnqueue(n, o)' => WillEnqueue(n, o)
  BY DEF WillEnqueue, Nothing
<1>3. EnqueuesInv'
  BY <1>2 DEF CronInv, EnqueuesInv, Keeps
<1>4. BindsInv'
  <2>. SUFFICES ASSUME NEW n \in Nodes, doing'[n].step = "bind"
                PROVE  (doing[n].job \in JobsOf(doing[n].occurrence))'
    BY DEF BindsInv
  <2>1. doing'[n] = doing[n] /\ doing[n].step = "bind"
    BY DEF Nothing
  <2>2. PICK o \in Occurrences : o = doing[n].occurrence
    BY <2>1 DEF CronInv, NodesTyped, Statements, Nothing
  <2>3. doing[n].job \in JobsOf(o) /\ JobsOf(o)' = JobsOf(o)
    BY <2>1, <2>2 DEF CronInv, BindsInv, Keeps
  <2>. QED
    BY <2>1, <2>2, <2>3 DEF JobsOf
<1>5. BindingsName'
  BY DEF CronInv, BindingsName, Keeps
<1>. QED
  BY <1>1, <1>3, <1>4, <1>5 DEF CronInv

LEMMA TableStays ==
  ASSUME QueueInv, UNCHANGED <<rows, spent, minted>>
  PROVE  QueueInv' /\ Keeps /\ \A o : JobsOf(o)' = JobsOf(o)
<1>1. QueueInv'
  BY StepInv DEF queueVars
<1>. QED
  BY <1>1 DEF Keeps, JobsOf, Present

\* A reservation by which no statement follows, or by a node that enqueues next.
LEMMA ReserveStep ==
  ASSUME CronInv, NEW n \in Nodes, NEW o \in Occurrences, Reserve(o), clock' = clock,
         NodesTyped',
         \A m \in Nodes \ {n} : doing'[m] = doing[m],
         \/ doing'[n] = Nothing
         \/ doing'[n] = doing[n]
         \/ o \notin reserved /\ doing'[n] = Step("enqueue", o, NoKey)
  PROVE  CronInv'
<1>1. /\ reserved' = reserved \cup {o} /\ bound' = bound
      /\ UNCHANGED <<rows, spent, minted>>
  BY DEF Reserve
<1>2. QueueInv' /\ Keeps /\ \A p : JobsOf(p)' = JobsOf(p)
  BY <1>1, TableStays DEF CronInv
<1>3. JobsInv' /\ BindingsName' /\ DOMAIN bound' \subseteq reserved'
      /\ reserved' \subseteq Occurrences /\ clock' \in 0..Horizon
  BY <1>1, <1>2 DEF CronInv, JobsInv, BindingsName, Keeps
<1>4. BindsInv'
  BY <1>2 DEF CronInv, BindsInv, Nothing, Step
<1>5. EnqueuesInv'
  <2>1. CASE doing'[n] = Nothing \/ doing'[n] = doing[n]
    <3>1. \A m \in Nodes, p \in Occurrences : WillEnqueue(m, p)' => WillEnqueue(m, p)
      BY <2>1 DEF WillEnqueue, Nothing
    <3>. QED
      BY <1>1, <1>2, <3>1 DEF CronInv, EnqueuesInv
  <2>2. CASE o \notin reserved /\ doing'[n] = Step("enqueue", o, NoKey)
    <3>1. \A m \in Nodes, p \in Occurrences :
             WillEnqueue(m, p)' => WillEnqueue(m, p) \/ (m = n /\ p = o)
      BY <2>2 DEF WillEnqueue, Step
    <3>2. \A m \in Nodes : ~WillEnqueue(m, o)
      BY <2>2 DEF CronInv, EnqueuesInv
    <3>3. JobsOf(o) = {}
      BY <2>2 DEF CronInv, JobsInv
    <3>4. \A p \in Occurrences : WillEnqueue(n, p)' => p = o
      BY <2>2 DEF WillEnqueue, Step
    <3>5. \A m \in Nodes, p \in Occurrences : WillEnqueue(m, p)' => p \in reserved' /\ JobsOf(p)' = {}
      BY <1>1, <1>2, <3>1, <3>3 DEF CronInv, EnqueuesInv
    <3>6. ASSUME NEW l \in Nodes, NEW m \in Nodes, NEW p \in Occurrences,
                 WillEnqueue(l, p)', WillEnqueue(m, p)'
          PROVE  l = m
      <4>1. CASE p = o
        BY <3>1, <3>2, <3>6, <4>1
      <4>2. CASE p # o
        <5>1. WillEnqueue(l, p) /\ WillEnqueue(m, p)
          BY <3>1, <3>6, <4>2
        <5>. QED
          BY <5>1 DEF CronInv, EnqueuesInv
      <4>. QED
        BY <4>1, <4>2
    <3>. QED
      BY <3>5, <3>6 DEF EnqueuesInv
  <2>. QED
    BY <2>1, <2>2
<1>. QED
  BY <1>2, <1>3, <1>4, <1>5 DEF CronInv

\* What a node has in hand to enqueue is an occurrence that is reserved and has no
\* job, so that its insert adds one.
LEMMA EnqueueAdds ==
  ASSUME CronInv, NEW n \in Nodes, NEW j \in Jobs,
         doing[n].step = "enqueue", EnqueueOccurrence(doing[n].occurrence, j)
  PROVE  \E o \in Occurrences :
            /\ o = doing[n].occurrence /\ WillEnqueue(n, o)
            /\ o \in reserved /\ JobsOf(o) = {}
            /\ Adds(j, o) /\ QueueNext
            /\ reserved' = reserved /\ bound' = bound
<1>1. PICK o \in Occurrences : o = doing[n].occurrence /\ WillEnqueue(n, o)
  BY DEF CronInv, NodesTyped, Statements, Nothing, WillEnqueue
<1>2. o \in reserved /\ JobsOf(o) = {}
  BY <1>1 DEF CronInv, EnqueuesInv
<1>3. EnqueueOccurrence(o, j) /\ QueueInv
  BY <1>1 DEF CronInv
<1>4. Adds(j, o) /\ QueueNext
  BY <1>2, <1>3, EnqueueEffect, EnqueueIsQueueStep
<1>5. reserved' = reserved /\ bound' = bound
  BY <1>3 DEF EnqueueOccurrence
<1>. QED
  BY <1>1, <1>2, <1>4, <1>5

\* The enqueue of a node, after which it binds or drops the pass.
LEMMA EnqueueStep ==
  ASSUME CronInv, NEW n \in Nodes, NEW j \in Jobs,
         doing[n].step = "enqueue", EnqueueOccurrence(doing[n].occurrence, j),
         clock' = clock, NodesTyped',
         \A m \in Nodes \ {n} : doing'[m] = doing[m],
         \/ doing'[n] = Nothing
         \/ doing'[n] = Step("bind", doing[n].occurrence, j)
  PROVE  CronInv'
<1>1. PICK o \in Occurrences :
            /\ o = doing[n].occurrence /\ WillEnqueue(n, o)
            /\ o \in reserved /\ JobsOf(o) = {}
            /\ Adds(j, o) /\ QueueNext
            /\ reserved' = reserved /\ bound' = bound
  BY EnqueueAdds
<1>2. QueueInv'
  BY <1>1, StepInv DEF CronInv
<1>3. /\ JobsOf(o)' = {j} /\ rows'[j].principal = NoPrincipal
      /\ \A p \in Occurrences : p # o => JobsOf(p)' = JobsOf(p)
      /\ \A p \in Occurrences : \A i \in JobsOf(p) : rows'[i].principal = rows[i].principal
  BY <1>1 DEF Adds
<1>4. JobsInv'
  <2>1. JobsOf(o)' # {} => o \in reserved'
    BY <1>1
  <2>2. \A i, k \in JobsOf(o)' : i = k
    BY <1>3
  <2>3. \A i \in JobsOf(o)' : rows'[i].principal = NoPrincipal
    BY <1>3
  <2>4. \A p \in Occurrences : p # o =>
           /\ JobsOf(p)' # {} => p \in reserved'
           /\ \A i, k \in JobsOf(p)' : i = k
           /\ \A i \in JobsOf(p)' : rows'[i].principal = NoPrincipal
    BY <1>1, <1>3 DEF CronInv, JobsInv
  <2>. QED
    BY <2>1, <2>2, <2>3, <2>4 DEF JobsInv
<1>5. \A m \in Nodes, p \in Occurrences : WillEnqueue(m, p)' => m # n /\ WillEnqueue(m, p)
  BY DEF WillEnqueue, Nothing, Step
<1>6. \A m \in Nodes, p \in Occurrences : WillEnqueue(m, p)' => p # o
  BY <1>1, <1>5 DEF CronInv, EnqueuesInv
<1>7. EnqueuesInv'
  BY <1>1, <1>3, <1>5, <1>6 DEF CronInv, EnqueuesInv
<1>8. \A p \in Occurrences : JobsOf(p) \subseteq JobsOf(p)'
  BY <1>1, <1>3
<1>9. BindsInv'
  <2>. SUFFICES ASSUME NEW m \in Nodes, doing'[m].step = "bind"
                PROVE  (doing[m].job \in JobsOf(doing[m].occurrence))'
    BY DEF BindsInv
  <2>1. CASE doing'[m] = doing[m]
    <3>1. PICK p \in Occurrences : p = doing[m].occurrence
      BY <2>1 DEF CronInv, NodesTyped, Statements, Nothing
    <3>2. doing[m].job \in JobsOf(p)
      BY <2>1, <3>1 DEF CronInv, BindsInv
    <3>. QED
      BY <2>1, <3>1, <3>2, <1>8 DEF JobsOf
  <2>2. CASE m = n
    <3>1. doing'[m].job = j /\ doing'[m].occurrence = o
      BY <1>1, <2>2 DEF Nothing, Step
    <3>. QED
      BY <1>3, <3>1 DEF JobsOf
  <2>. QED
    BY <2>1, <2>2
<1>10. BindingsName'
  BY <1>1, <1>8 DEF CronInv, BindingsName
<1>. QED
  BY <1>1, <1>2, <1>4, <1>7, <1>9, <1>10 DEF CronInv

LEMMA BindStep ==
  ASSUME CronInv, NEW n \in Nodes,
         doing[n].step = "bind", Bind(doing[n].occurrence, doing[n].job),
         clock' = clock, NodesTyped',
         \A m \in Nodes \ {n} : doing'[m] = doing[m], doing'[n] = Nothing
  PROVE  CronInv'
<1>. DEFINE o == doing[n].occurrence
            j == doing[n].job
<1>1. j \in JobsOf(o)
  BY DEF CronInv, BindsInv
<1>2. UNCHANGED <<rows, spent, minted>> /\ reserved' = reserved
  BY DEF Bind
<1>3. QueueInv' /\ Keeps /\ \A p : JobsOf(p)' = JobsOf(p)
  BY <1>2, TableStays DEF CronInv
<1>4. JobsInv'
  BY <1>2, <1>3 DEF CronInv, JobsInv, Keeps
<1>5. \A m \in Nodes, p \in Occurrences : WillEnqueue(m, p)' => WillEnqueue(m, p)
  BY DEF WillEnqueue, Nothing
<1>6. EnqueuesInv' /\ BindsInv'
  BY <1>2, <1>3, <1>5 DEF CronInv, EnqueuesInv, BindsInv, Nothing
<1>7. /\ DOMAIN bound' \subseteq reserved'
      /\ \A p \in DOMAIN bound' : bound'[p] \in JobsOf(p)
  <2>1. CASE bound' = bound
    BY <1>2, <2>1 DEF CronInv, BindingsName
  <2>2. CASE o \in reserved \ DOMAIN bound
             /\ bound' = [p \in DOMAIN bound \cup {o} |-> IF p = o THEN j ELSE bound[p]]
    BY <1>1, <1>2, <2>2 DEF CronInv, BindingsName
  <2>. QED
    BY <2>1, <2>2 DEF Bind
<1>8. BindingsName'
  BY <1>3, <1>7 DEF BindingsName
<1>. QED
  BY <1>2, <1>3, <1>4, <1>6, <1>7, <1>8 DEF CronInv

-----------------------------------------------------------------------------
(* The invariant *)

\* NodesTyped is kept by every step of a node.
LEMMA NodeTypes ==
  ASSUME CronInv, NEW n \in Nodes, NodeStep(n)
  PROVE  NodesTyped'
<1>. USE DEF CronInv, NodesTyped
<1>1. Due(clock) \in SUBSET Occurrences /\ {} \in SUBSET Occurrences
  BY DEF Due
<1>2. Nothing \in Statements /\ 0 \in 0..Horizon
  BY CronAssumption DEF Statements
<1>3. CASE Boot(n) \/ CronTick(n)
  BY <1>1, <1>3 DEF Boot, CronTick, Begin
<1>4. CASE EndPass(n)
  BY <1>2, <1>4 DEF EndPass
<1>5. CASE ReserveNext(n)
  <2>1. \A o \in Occurrences : Step("enqueue", o, NoKey) \in Statements
    BY DEF Step, Statements
  <2>2. Oldest(todo[n]) \subseteq Occurrences
    BY DEF Oldest
  <2>. QED
    BY <1>5, <2>1, <2>2 DEF ReserveNext
<1>6. CASE EnqueueReserved(n)
  <2>1. \A j \in Jobs : Step("bind", doing[n].occurrence, j) \in Statements
    BY <1>6 DEF EnqueueReserved, Step, Statements, Nothing
  <2>. QED
    BY <1>6, <2>1 DEF EnqueueReserved
<1>7. CASE BindEnqueued(n)
  BY <1>2, <1>7 DEF BindEnqueued
<1>8. CASE StatementThrows(n)
  BY <1>1, <1>2, <1>8 DEF StatementThrows, Drop
<1>9. CASE Crash(n)
  BY <1>1, <1>2, <1>9 DEF Crash
<1>. QED
  BY <1>3, <1>4, <1>5, <1>6, <1>7, <1>8, <1>9 DEF NodeStep

\* A step that sends no statement, or none that applied.
LEMMA NoStatement ==
  ASSUME CronInv, NodesTyped', clock' \in 0..Horizon,
         UNCHANGED <<rows, spent, minted, reserved, bound>>,
         \A n \in Nodes : doing'[n] = doing[n] \/ doing'[n] = Nothing
  PROVE  CronInv'
<1>1. QueueInv' /\ Keeps
  BY TableStays DEF CronInv
<1>. QED
  BY <1>1, QuietStep

LEMMA NodeStepInv ==
  ASSUME CronInv, NEW n \in Nodes, NodeStep(n)
  PROVE  CronInv'
<1>1. NodesTyped'
  BY NodeTypes
<1>2. doing \in [Nodes -> Statements] /\ todo[n] \subseteq Occurrences
  BY DEF CronInv, NodesTyped
<1>3. Oldest(todo[n]) \subseteq Occurrences
  BY <1>2 DEF Oldest
<1>4. CASE Boot(n) \/ CronTick(n) \/ EndPass(n) \/ Crash(n)
  <2>1. /\ clock' = clock /\ UNCHANGED <<rows, spent, minted, reserved, bound>>
        /\ \A m \in Nodes : doing'[m] = doing[m] \/ doing'[m] = Nothing
    BY <1>2, <1>4 DEF Boot, CronTick, EndPass, Crash, Begin
  <2>2. clock' \in 0..Horizon
    BY <2>1 DEF CronInv
  <2>. QED
    BY <1>1, <2>1, <2>2, NoStatement
<1>5. CASE ReserveNext(n)
  <2>1. PICK o \in Occurrences :
           /\ Reserve(o) /\ clock' = clock
           /\ doing' = IF o \in reserved THEN doing
                       ELSE [doing EXCEPT ![n] = Step("enqueue", o, NoKey)]
    BY <1>3, <1>5 DEF ReserveNext
  <2>2. /\ \A m \in Nodes \ {n} : doing'[m] = doing[m]
        /\ \/ doing'[n] = doing[n]
           \/ o \notin reserved /\ doing'[n] = Step("enqueue", o, NoKey)
    BY <1>2, <2>1
  <2>. QED
    BY <1>1, <2>1, <2>2, ReserveStep
<1>6. CASE EnqueueReserved(n)
  <2>1. PICK j \in Jobs :
           /\ EnqueueOccurrence(doing[n].occurrence, j)
           /\ doing' = [doing EXCEPT ![n] = Step("bind", doing[n].occurrence, j)]
    BY <1>6 DEF EnqueueReserved
  <2>2. doing[n].step = "enqueue" /\ clock' = clock
    BY <1>6 DEF EnqueueReserved
  <2>3. /\ \A m \in Nodes \ {n} : doing'[m] = doing[m]
        /\ doing'[n] = Step("bind", doing[n].occurrence, j)
    BY <1>2, <2>1
  <2>. QED
    BY <1>1, <2>1, <2>2, <2>3, EnqueueStep
<1>7. CASE BindEnqueued(n)
  <2>1. /\ doing[n].step = "bind" /\ Bind(doing[n].occurrence, doing[n].job)
        /\ clock' = clock
        /\ \A m \in Nodes \ {n} : doing'[m] = doing[m]
        /\ doing'[n] = Nothing
    BY <1>2, <1>7 DEF BindEnqueued
  <2>. QED
    BY <1>1, <2>1, BindStep
<1>8. CASE StatementThrows(n)
  <2>1. /\ clock' = clock /\ doing'[n] = Nothing
        /\ \A m \in Nodes \ {n} : doing'[m] = doing[m]
    BY <1>2, <1>8 DEF StatementThrows, Drop
  <2>2. CASE \E o \in Oldest(todo[n]) : Reserve(o)
    BY <1>1, <1>3, <2>1, <2>2, ReserveStep
  <2>3. CASE doing[n].step = "enqueue"
             /\ \E j \in Jobs : EnqueueOccurrence(doing[n].occurrence, j)
    BY <1>1, <2>1, <2>3, EnqueueStep
  <2>4. CASE doing[n].step = "bind" /\ Bind(doing[n].occurrence, doing[n].job)
    BY <1>1, <2>1, <2>4, BindStep
  <2>5. CASE UNCHANGED <<rows, spent, minted, reserved, bound>>
    <3>1. /\ clock' \in 0..Horizon
          /\ \A m \in Nodes : doing'[m] = doing[m] \/ doing'[m] = Nothing
      BY <2>1 DEF CronInv
    <3>. QED
      BY <1>1, <2>5, <3>1, NoStatement
  <2>. QED
    BY <1>8, <2>2, <2>3, <2>4, <2>5 DEF StatementThrows
<1>. QED
  BY <1>4, <1>5, <1>6, <1>7, <1>8 DEF NodeStep

LEMMA CronInitInv == Init => CronInv
<1>. SUFFICES ASSUME Init PROVE CronInv
  OBVIOUS
<1>1. Present = {} /\ \A o : JobsOf(o) = {}
  BY DEF Init, QueueInit, Present, JobsOf
<1>2. DOMAIN bound = {} /\ clock \in 0..Horizon
  BY CronAssumption DEF Init
<1>3. NodesTyped /\ EnqueuesInv /\ BindsInv
  BY CronAssumption DEF Init, NodesTyped, Statements, EnqueuesInv, WillEnqueue, BindsInv, Nothing
<1>4. QueueInv
  BY InitInv DEF Init
<1>. QED
  BY <1>1, <1>2, <1>3, <1>4 DEF Init, CronInv, JobsInv, BindingsName

LEMMA CronNextInv == CronInv /\ [Next]_vars => CronInv'
<1>. SUFFICES ASSUME CronInv, [Next]_vars PROVE CronInv'
  OBVIOUS
<1>1. CASE \E n \in Nodes : NodeStep(n)
  BY <1>1, NodeStepInv
<1>2. CASE Minute
  <2>1. clock' \in 0..Horizon
    BY <1>2, CronAssumption DEF Minute, CronInv
  <2>2. UNCHANGED <<rows, spent, minted, reserved, bound, mode, began, todo, doing>>
    BY <1>2 DEF Minute
  <2>3. NodesTyped'
    BY <2>2 DEF CronInv, NodesTyped
  <2>. QED
    BY <2>1, <2>2, <2>3, NoStatement
<1>3. CASE JobMoves
  <2>1. UNCHANGED <<clock, reserved, bound, mode, began, todo, doing>>
    BY <1>3 DEF JobMoves
  <2>2. Keeps /\ QueueNext
    BY <1>3, JobMovesKeep
  <2>3. QueueInv'
    BY <2>2, StepInv DEF CronInv
  <2>4. NodesTyped' /\ clock' \in 0..Horizon
    BY <2>1 DEF CronInv, NodesTyped
  <2>. QED
    BY <2>1, <2>2, <2>3, <2>4, QuietStep
<1>4. CASE UNCHANGED vars
  <2>1. UNCHANGED <<rows, spent, minted, clock, reserved, bound, mode, began, todo, doing>>
    BY <1>4 DEF vars
  <2>2. NodesTyped' /\ clock' \in 0..Horizon
    BY <2>1 DEF CronInv, NodesTyped
  <2>. QED
    BY <2>1, <2>2, NoStatement
<1>. QED
  BY <1>1, <1>2, <1>3, <1>4 DEF Next

\* The invariant holds in every state that nodes, minutes and runners reach.
THEOREM CronInvHolds == Spec => []CronInv
  BY CronInitInv, CronNextInv, PTL DEF Spec

-----------------------------------------------------------------------------
(* Results *)

\* The materializer keeps its state well formed: what is bound was reserved
\* (bindJob), and a statement under way has its occurrence.
THEOREM CronTypeCorrect == Spec => []TypeOK
<1>1. CronInv => TypeOK
  <2>. SUFFICES ASSUME CronInv PROVE TypeOK
    OBVIOUS
  <2>1. \A o \in DOMAIN bound : bound[o] \in Jobs
    BY DEF CronInv, BindingsName, JobsOf, QueueInv
  <2>2. \A n \in Nodes :
           \/ doing[n] = Nothing
           \/ doing[n].step = "enqueue" /\ doing[n].occurrence \in Occurrences
           \/ doing[n].step = "bind" /\ doing[n].occurrence \in Occurrences
                                     /\ doing[n].job \in Jobs
    BY DEF CronInv, NodesTyped, Statements
  <2>3. QueueTypeOK
    BY DEF CronInv, QueueInv, QueueTypeOK, RowInv
  <2>. QED
    BY <2>1, <2>2, <2>3 DEF CronInv, NodesTyped, TypeOK
<1>. QED
  BY <1>1, CronInvHolds, PTL

\* However many nodes materialize, with whatever crashes and retried passes, an
\* occurrence has at most one job, also after that job has started or finished
\* (the reservation before the enqueue in materializeDue).
THEOREM OccurrencesHaveOneJob == Spec => []OneJobPerOccurrence
<1>1. CronInv => OneJobPerOccurrence
  <2>. SUFFICES ASSUME CronInv, NEW o \in Occurrences PROVE Cardinality(JobsOf(o)) <= 1
    BY DEF OneJobPerOccurrence
  <2>1. \A i, j \in JobsOf(o) : i = j
    BY DEF CronInv, JobsInv
  <2>2. CASE JobsOf(o) = {}
    BY <2>2, FS_EmptySet
  <2>3. CASE JobsOf(o) # {}
    <3>1. PICK j : JobsOf(o) = {j}
      BY <2>1, <2>3
    <3>. QED
      BY <3>1, FS_Singleton
  <2>. QED
    BY <2>2, <2>3
<1>. QED
  BY <1>1, CronInvHolds, PTL

\* A bound reservation names the job that was enqueued for it (bindJob).
THEOREM BindingsAlwaysName == Spec => []BindingsName
<1>1. CronInv => BindingsName
  BY DEF CronInv
<1>. QED
  BY <1>1, CronInvHolds, PTL

-----------------------------------------------------------------------------
(* What the system implements: the job table, and OccurrenceOnce *)

\* What a node does to the tables: nothing, or one of its three statements.
LEMMA NodeStatements ==
  ASSUME CronInv, NEW n \in Nodes, NodeStep(n)
  PROVE  \/ UNCHANGED <<rows, spent, minted, reserved, bound>>
         \/ \E o \in Occurrences : Reserve(o)
         \/ \E o \in Occurrences, j \in Jobs :
               /\ o \in reserved /\ JobsOf(o) = {}
               /\ Adds(j, o) /\ QueueNext
               /\ reserved' = reserved /\ bound' = bound
         \/ \E o \in Occurrences : \E j \in JobsOf(o) : Bind(o, j)
<1>1. Oldest(todo[n]) \subseteq Occurrences
  BY DEF CronInv, NodesTyped, Oldest
<1>2. CASE Boot(n) \/ CronTick(n) \/ EndPass(n) \/ Crash(n)
  BY <1>2 DEF Boot, CronTick, EndPass, Crash, Begin
<1>3. CASE \E o \in Oldest(todo[n]) : Reserve(o)
  BY <1>1, <1>3
<1>4. CASE doing[n].step = "enqueue"
           /\ \E j \in Jobs : EnqueueOccurrence(doing[n].occurrence, j)
  BY <1>4, EnqueueAdds
<1>5. CASE doing[n].step = "bind" /\ Bind(doing[n].occurrence, doing[n].job)
  <2>1. doing[n].occurrence \in Occurrences
    BY <1>5 DEF CronInv, NodesTyped, Statements, Nothing
  <2>2. doing[n].job \in JobsOf(doing[n].occurrence)
    BY <1>5 DEF CronInv, BindsInv
  <2>. QED
    BY <1>5, <2>1, <2>2
<1>6. CASE UNCHANGED <<rows, spent, minted, reserved, bound>>
  BY <1>6
<1>. QED
  BY <1>2, <1>3, <1>4, <1>5, <1>6
     DEF NodeStep, ReserveNext, EnqueueReserved, BindEnqueued, StatementThrows

LEMMA CronStepIsQueueStep == CronInv /\ [Next]_vars => [QueueNext]_queueVars
<1>. SUFFICES ASSUME CronInv, [Next]_vars PROVE [QueueNext]_queueVars
  OBVIOUS
<1>1. CASE \E n \in Nodes : NodeStep(n)
  BY <1>1, NodeStatements DEF Reserve, Bind, queueVars
<1>2. CASE Minute
  BY <1>2 DEF Minute, queueVars
<1>3. CASE JobMoves
  BY <1>3, JobMovesKeep
<1>4. CASE UNCHANGED vars
  BY <1>4 DEF vars, queueVars
<1>. QED
  BY <1>1, <1>2, <1>3, <1>4 DEF Next

\* The materializer, its nodes and the clock are one more client of the job
\* table: everything proved of TaskQueue holds of the recurring jobs.
THEOREM CronImplementsQueue == Spec => QueueSpec
<1>1. Init => QueueInit
  BY DEF Init
<1>. QED
  BY <1>1, CronStepIsQueueStep, CronInvHolds, PTL DEF Spec, QueueSpec

\* So a recurring job that kills its worker is not redelivered for ever either.
THEOREM CronAttemptsBounded == Spec => []AttemptsBounded
  BY CronImplementsQueue, AttemptsStayBounded, PTL

LEMMA KeptJobOf == ASSUME Keeps PROVE JobOf' = JobOf
<1>1. \A o \in Occurrences : JobsOf(o)' = JobsOf(o)
  BY DEF Keeps
<1>. QED
  BY <1>1 DEF JobOf

LEMMA AddedJobOf ==
  ASSUME CronInv, NEW o \in Occurrences, NEW j \in Jobs, JobsOf(o) = {}, Adds(j, o)
  PROVE  JobOf' = Once!Extended(JobOf, o, j) /\ \A p \in DOMAIN JobOf : JobOf[p] # j
<1>1. JobsOf(o)' = {j} /\ \A p \in Occurrences \ {o} : JobsOf(p)' = JobsOf(p)
  BY DEF Adds
<1>2. DOMAIN JobOf = {p \in Occurrences : JobsOf(p) # {}}
  BY DEF JobOf
<1>3. \A p \in DOMAIN JobOf : JobOf[p] \in JobsOf(p)
  BY DEF JobOf
<1>4. {p \in Occurrences : JobsOf(p)' # {}} = DOMAIN JobOf \cup {o}
  BY <1>1, <1>2
<1>5. (CHOOSE i \in JobsOf(o)' : TRUE) = j
  BY <1>1
<1>6. \A p \in DOMAIN JobOf : (CHOOSE i \in JobsOf(p)' : TRUE) = JobOf[p]
  BY <1>1 DEF JobOf
<1>7. JobOf' = [p \in DOMAIN JobOf \cup {o} |-> CHOOSE i \in JobsOf(p)' : TRUE]
  BY <1>4 DEF JobOf
<1>8. JobOf' = Once!Extended(JobOf, o, j)
  BY <1>2, <1>5, <1>6, <1>7 DEF Once!Extended
<1>. QED
  BY <1>3, <1>8 DEF Adds, JobsOf

LEMMA OnceInitially == Init => Once!OnceInit
<1>. SUFFICES ASSUME Init PROVE Once!OnceInit
  OBVIOUS
<1>1. \A o : JobsOf(o) = {}
  BY DEF Init, QueueInit, Present, JobsOf
<1>2. JobOf = [o \in {} |-> {}]
  BY <1>1 DEF JobOf
<1>. QED
  BY <1>2 DEF Init, Once!OnceInit

LEMMA OnceSteps == CronInv /\ [Next]_vars => [Once!OnceNext]_(Once!onceVars)
<1>. SUFFICES ASSUME CronInv, [Next]_vars
              PROVE  Once!OnceNext \/ UNCHANGED <<reserved, JobOf, bound>>
  BY DEF Once!onceVars
<1>1. CASE UNCHANGED <<rows, spent, minted, reserved, bound>>
  BY <1>1, TableStays, KeptJobOf DEF CronInv
<1>2. CASE \E o \in Occurrences : Reserve(o)
  <2>1. PICK o \in Occurrences : Reserve(o)
    BY <1>2
  <2>2. reserved' = reserved \cup {o} /\ bound' = bound /\ JobOf' = JobOf
    BY <2>1, TableStays, KeptJobOf DEF Reserve, CronInv
  <2>. QED
    BY <2>2 DEF Once!OnceNext, Once!Take
<1>3. CASE \E o \in Occurrences, j \in Jobs :
              /\ o \in reserved /\ JobsOf(o) = {}
              /\ Adds(j, o) /\ QueueNext
              /\ reserved' = reserved /\ bound' = bound
  <2>1. PICK o \in Occurrences, j \in Jobs :
              /\ o \in reserved /\ JobsOf(o) = {} /\ Adds(j, o)
              /\ reserved' = reserved /\ bound' = bound
    BY <1>3
  <2>2. /\ JobOf' = Once!Extended(JobOf, o, j)
        /\ \A p \in DOMAIN JobOf : JobOf[p] # j
    BY <2>1, AddedJobOf
  <2>3. o \notin DOMAIN JobOf
    BY <2>1 DEF JobOf
  <2>. QED
    BY <2>1, <2>2, <2>3 DEF Once!OnceNext, Once!Give
<1>4. CASE \E o \in Occurrences : \E j \in JobsOf(o) : Bind(o, j)
  <2>1. PICK o \in Occurrences : \E j \in JobsOf(o) : Bind(o, j)
    BY <1>4
  <2>2. PICK j \in JobsOf(o) : Bind(o, j)
    BY <2>1
  <2>3. reserved' = reserved /\ JobOf' = JobOf
    BY <2>2, TableStays, KeptJobOf DEF Bind, CronInv
  <2>4. CASE bound' = bound
    BY <2>3, <2>4
  <2>5. CASE o \notin DOMAIN bound
             /\ bound' = [p \in DOMAIN bound \cup {o} |-> IF p = o THEN j ELSE bound[p]]
    <3>1. JobsOf(o) = {j}
      BY <2>2 DEF CronInv, JobsInv
    <3>2. o \in DOMAIN JobOf /\ JobOf[o] = j
      BY <3>1 DEF JobOf
    <3>. QED
      BY <2>3, <2>5, <3>2 DEF Once!OnceNext, Once!Name, Once!Extended
  <2>. QED
    BY <2>2, <2>4, <2>5 DEF Bind
<1>5. CASE JobMoves
  BY <1>5, JobMovesKeep, KeptJobOf DEF JobMoves
<1>. QED
  BY <1>1, <1>2, <1>3, <1>4, <1>5, NodeStatements DEF Next, Minute, vars

\* Every step of the nodes, the runners and the requests takes, serves or binds
\* one occurrence as promised, or none (materializeDue and the key of cronInput).
THEOREM OccurrencesAreServedOnce == Spec => OccurrencesServedOnce
  BY OnceInitially, OnceSteps, CronInvHolds, PTL
     DEF Spec, OccurrencesServedOnce, Once!OnceSpec

-----------------------------------------------------------------------------
(* No pass leaves out what was due when it began *)

LEMMA NothingDueYet == Due(0) = {}
<1>. SUFFICES ASSUME NEW o \in Due(0) PROVE FALSE
  OBVIOUS
<1>1. o[1] \in Tasks /\ o[2] \in Fires[o[1]] /\ o[2] <= 0
  BY DEF Due, Previous, Occurrences
<1>2. o[2] \in 1..Horizon
  BY <1>1, CronAssumption
<1>. QED
  BY <1>1, <1>2

\* A pass of another node, or one that goes on, loses nothing: what leaves its list is reserved.
LEMMA PassKept ==
  ASSUME PassesCatchUp, NEW n \in Nodes, began'[n] = began[n],
         reserved \subseteq reserved', todo[n] \subseteq todo'[n] \cup reserved'
  PROVE  Due(began'[n]) \subseteq reserved' \cup todo'[n]
  BY DEF PassesCatchUp

\* However late it is, and whatever other nodes have reserved, dropped or lost, a pass has
\* reserved or still has before it all that was due when it began (the loops of materializeDue).
THEOREM PassesAlwaysCatchUp == Spec => []PassesCatchUp
<1>1. Init => PassesCatchUp
  BY NothingDueYet DEF Init, PassesCatchUp
<1>2. CronInv /\ PassesCatchUp /\ [Next]_vars => PassesCatchUp'
  <2>. SUFFICES ASSUME CronInv, PassesCatchUp, [Next]_vars, NEW m \in Nodes
                PROVE  Due(began'[m]) \subseteq reserved' \cup todo'[m]
    BY DEF PassesCatchUp
  <2>0. /\ began \in [Nodes -> 0..Horizon]
        /\ todo \in [Nodes -> SUBSET Occurrences]
    BY DEF CronInv, NodesTyped
  <2>1. CASE \E n \in Nodes : NodeStep(n)
    <3>1. PICK n \in Nodes : NodeStep(n)
      BY <2>1
    <3>2. reserved \subseteq reserved'
      BY <3>1, NodeStatements DEF Reserve, Bind
    <3>3. CASE m # n
      <4>1. began'[m] = began[m] /\ todo'[m] = todo[m]
        BY <2>0, <3>1, <3>3 DEF NodeStep, Boot, CronTick, EndPass, Begin, ReserveNext,
           EnqueueReserved, BindEnqueued, StatementThrows, Drop, Crash
      <4>. QED
        BY <3>2, <4>1, PassKept
    <3>4. CASE m = n /\ (Boot(n) \/ CronTick(n))
      <4>1. began'[m] = clock /\ todo'[m] = Due(clock)
        BY <2>0, <3>4 DEF Boot, CronTick, Begin
      <4>. QED
        BY <4>1
    <3>5. CASE m = n /\ (EndPass(n) \/ StatementThrows(n) \/ Crash(n))
      <4>1. began'[m] = 0
        BY <2>0, <3>5 DEF EndPass, StatementThrows, Drop, Crash
      <4>. QED
        BY <4>1, NothingDueYet
    <3>6. CASE m = n /\ ReserveNext(n)
      <4>1. PICK o \in Oldest(todo[n]) : Reserve(o) /\ todo' = [todo EXCEPT ![n] = todo[n] \ {o}]
        BY <3>6 DEF ReserveNext
      <4>2. began' = began /\ todo[m] \subseteq todo'[m] \cup reserved'
        BY <2>0, <3>6, <4>1 DEF ReserveNext, Reserve
      <4>. QED
        BY <3>2, <4>2, PassKept
    <3>7. CASE m = n /\ (EnqueueReserved(n) \/ BindEnqueued(n))
      BY <3>2, <3>7, PassKept DEF EnqueueReserved, BindEnqueued
    <3>. QED
      BY <3>1, <3>3, <3>4, <3>5, <3>6, <3>7 DEF NodeStep
  <2>2. CASE Minute \/ JobMoves \/ UNCHANGED vars
    BY <2>2, PassKept DEF Minute, JobMoves, vars
  <2>. QED
    BY <2>1, <2>2 DEF Next
<1>. QED
  BY <1>1, <1>2, CronInvHolds, PTL DEF Spec

-----------------------------------------------------------------------------
(* An occurrence is only lost by a failure between two statements *)

\* What is reserved has its job, or a node has it in hand.
ReservedInHand ==
    \A o \in reserved : JobsOf(o) # {} \/ \E n \in Nodes : WillEnqueue(n, o)

LEMMA InHandKept ==
  ASSUME Keeps, reserved' = reserved, reserved \subseteq Occurrences, ReservedInHand,
         \A n \in Nodes, o \in Occurrences : WillEnqueue(n, o) => WillEnqueue(n, o)'
  PROVE  ReservedInHand'
  BY DEF Keeps, ReservedInHand

LEMMA InHandNodeStep ==
  ASSUME CronInv, ReservedInHand, NEW n \in Nodes, NodeStep(n),
         n \notin Crashable, n \notin Faulty
  PROVE  ReservedInHand'
<1>0. reserved \subseteq Occurrences /\ QueueInv /\ doing \in [Nodes -> Statements]
  BY DEF CronInv, NodesTyped
<1>1. CASE Boot(n) \/ CronTick(n) \/ EndPass(n)
  <2>1. UNCHANGED <<rows, spent, minted, reserved, doing>>
    BY <1>1 DEF Boot, CronTick, EndPass, Begin
  <2>. QED
    BY <1>0, <2>1, TableStays, InHandKept DEF WillEnqueue
<1>2. CASE ReserveNext(n)
  <2>1. PICK o \in Oldest(todo[n]) :
           /\ Reserve(o) /\ doing[n] = Nothing
           /\ doing' = IF o \in reserved THEN doing
                       ELSE [doing EXCEPT ![n] = Step("enqueue", o, NoKey)]
    BY <1>2 DEF ReserveNext
  <2>2. reserved' = reserved \cup {o} /\ \A p : JobsOf(p)' = JobsOf(p)
    BY <1>0, <2>1, TableStays DEF Reserve
  <2>3. \A m \in Nodes : \A p : WillEnqueue(m, p) => WillEnqueue(m, p)'
    BY <1>0, <2>1 DEF WillEnqueue, Nothing
  <2>4. o \notin reserved => WillEnqueue(n, o)'
    BY <1>0, <2>1 DEF WillEnqueue, Step
  <2>. QED
    BY <2>2, <2>3, <2>4 DEF ReservedInHand
<1>3. CASE EnqueueReserved(n)
  <2>1. PICK j \in Jobs :
           /\ doing[n].step = "enqueue" /\ EnqueueOccurrence(doing[n].occurrence, j)
           /\ doing' = [doing EXCEPT ![n] = Step("bind", doing[n].occurrence, j)]
    BY <1>3 DEF EnqueueReserved
  <2>2. PICK o \in Occurrences :
           /\ o = doing[n].occurrence /\ Adds(j, o) /\ reserved' = reserved
    BY <2>1, EnqueueAdds
  <2>3. \A m \in Nodes : \A p : p # o /\ WillEnqueue(m, p) => WillEnqueue(m, p)'
    BY <1>0, <2>1, <2>2 DEF WillEnqueue
  <2>4. JobsOf(o)' # {} /\ \A p \in Occurrences \ {o} : JobsOf(p)' = JobsOf(p)
    BY <2>2 DEF Adds
  <2>. QED
    BY <1>0, <2>2, <2>3, <2>4 DEF ReservedInHand
<1>4. CASE BindEnqueued(n)
  <2>1. /\ doing[n].step = "bind" /\ doing' = [doing EXCEPT ![n] = Nothing]
        /\ UNCHANGED <<rows, spent, minted, reserved>>
    BY <1>4 DEF BindEnqueued, Bind
  <2>2. \A m \in Nodes, p \in Occurrences : WillEnqueue(m, p) => WillEnqueue(m, p)'
    BY <1>0, <2>1 DEF WillEnqueue
  <2>. QED
    BY <1>0, <2>1, <2>2, TableStays, InHandKept
<1>. QED
  BY <1>1, <1>2, <1>3, <1>4 DEF NodeStep, Crash, StatementThrows

\* Where no node crashes and no statement throws, every reserved occurrence has its
\* job or is in the hands of a node that enqueues it next: losing one takes such a
\* failure between the reservation and the enqueue of materializeDue.
THEOREM NothingLostWithoutFailure ==
  ASSUME Crashable = {}, Faulty = {}
  PROVE  Spec => []ReservedInHand
<1>1. Init => ReservedInHand
  BY DEF Init, ReservedInHand
<1>2. CronInv /\ ReservedInHand /\ [Next]_vars => ReservedInHand'
  <2>. SUFFICES ASSUME CronInv, ReservedInHand, [Next]_vars PROVE ReservedInHand'
    OBVIOUS
  <2>0. reserved \subseteq Occurrences /\ QueueInv
    BY DEF CronInv
  <2>1. CASE \E n \in Nodes : NodeStep(n)
    BY <2>1, InHandNodeStep
  <2>2. CASE JobMoves
    <3>1. Keeps /\ reserved' = reserved /\ doing' = doing
      BY <2>2, JobMovesKeep DEF JobMoves
    <3>. QED
      BY <2>0, <3>1, InHandKept DEF WillEnqueue
  <2>3. CASE Minute \/ UNCHANGED vars
    <3>1. UNCHANGED <<rows, spent, minted, reserved, doing>>
      BY <2>3 DEF Minute, vars
    <3>. QED
      BY <2>0, <3>1, TableStays, InHandKept DEF WillEnqueue
  <2>. QED
    BY <2>1, <2>2, <2>3 DEF Next
<1>. QED
  BY <1>1, <1>2, CronInvHolds, PTL DEF Spec
=============================================================================
