-------------------------- MODULE OptimisticProofs --------------------------
(***************************************************************************)
(* Proofs about OptimisticMutations, for every set of mutations, queries    *)
(* and targets and every queue.                                             *)
(***************************************************************************)
EXTENDS OptimisticMutations, TLAPS

\* A value with committed effects only, each once.
Honest(v, C) == \A x \in Mutations : v[x] <= IF x \in C THEN 1 ELSE 0

\* The invariant of one query instance while C has committed.
Sound(r, C) ==
    /\ r \in Instance
    /\ r.truth = NoTruth <=> r.pending = {}
    /\ Honest(Base(r), C)
    /\ \A x \in Mutations :
          r.shown[x] <= (IF x \in C THEN 1 ELSE 0) + (IF x \in r.pending THEN 1 ELSE 0)

-----------------------------------------------------------------------------
(* What the operators of the rebaser preserve. *)

LEMMA EffectsHonest ==
    ASSUME NEW S, NEW C, S \subseteq C
    PROVE  Effects(S) \in Value /\ Honest(Effects(S), C)
<1>1. Effects(S) \in Value
    BY DEF Effects, Value
<1>2. ASSUME NEW x \in Mutations
      PROVE  Effects(S)[x] <= IF x \in C THEN 1 ELSE 0
    <2>1. Effects(S)[x] = IF x \in S THEN 1 ELSE 0
        BY DEF Effects
    <2>2. CASE x \in S
        BY <2>1, <2>2
    <2>3. CASE x \notin S
        BY <2>1, <2>3
    <2> QED
        BY <2>2, <2>3
<1> QED
    BY <1>1, <1>2 DEF Honest

LEMMA RebaseType ==
    ASSUME NEW v \in Value, NEW S
    PROVE  Rebase(v, S) \in Value
BY DEF Rebase, Value

LEMMA HonestGrows ==
    ASSUME NEW v \in Value, NEW C, NEW D, C \subseteq D, Honest(v, C)
    PROVE  Honest(v, D)
<1>1. ASSUME NEW x \in Mutations
      PROVE  v[x] <= IF x \in D THEN 1 ELSE 0
    <2>1. v[x] \in Nat /\ (v[x] <= IF x \in C THEN 1 ELSE 0)
        BY DEF Value, Honest
    <2> QED
        BY <2>1
<1> QED
    BY <1>1 DEF Honest

LEMMA SoundGrows ==
    ASSUME NEW r, NEW C, NEW D, C \subseteq D, Sound(r, C)
    PROVE  Sound(r, D)
<1>1. Base(r) \in Value
    BY DEF Sound, Instance, Base
<1>2. \A x \in Mutations : r.shown[x] \in Nat
    BY DEF Sound, Instance, Value
<1> QED
    BY <1>1, <1>2, HonestGrows DEF Sound

LEMMA RebasedSound ==
    ASSUME NEW v \in Value, NEW C, NEW rest \in SUBSET Mutations, Honest(v, C)
    PROVE  /\ Sound(Rebased(v, rest), C)
           /\ Rebased(v, rest).pending = rest
<1> DEFINE r == Rebased(v, rest)
<1>1. /\ r.shown = Rebase(v, rest)
      /\ r.truth = IF rest = {} THEN NoTruth ELSE v
      /\ r.pending = rest
    BY DEF Rebased
<1>2. r \in Instance
    <2>1. Rebase(v, rest) \in Value
        BY RebaseType
    <2> QED
        BY <2>1 DEF Rebased, Instance
<1>3. r.truth = NoTruth <=> r.pending = {}
    BY <1>1, TruthAssumption
<1>4. \A x \in Mutations : v[x] \in Nat /\ r.shown[x] = IF x \in rest THEN v[x] + 1 ELSE v[x]
    BY <1>1 DEF Rebase, Value
<1>5. Honest(Base(r), C)
    <2>1. CASE rest = {}
        BY <2>1, <1>1, <1>4 DEF Base, Honest
    <2>2. CASE rest # {}
        BY <2>2, <1>1 DEF Base
    <2> QED
        BY <2>1, <2>2
<1>6. ASSUME NEW x \in Mutations
      PROVE  r.shown[x] <= (IF x \in C THEN 1 ELSE 0) + (IF x \in r.pending THEN 1 ELSE 0)
    <2>1. v[x] \in Nat /\ r.shown[x] = IF x \in rest THEN v[x] + 1 ELSE v[x]
        BY <1>4
    <2>2. v[x] <= IF x \in C THEN 1 ELSE 0
        BY DEF Honest
    <2>3. CASE x \in C
        BY <2>1, <2>2, <2>3, <1>1
    <2>4. CASE x \notin C
        BY <2>1, <2>2, <2>4, <1>1
    <2> QED
        BY <2>3, <2>4
<1> QED
    BY <1>1, <1>2, <1>3, <1>5, <1>6 DEF Sound

LEMMA AddChangeSound ==
    ASSUME NEW r, NEW C, NEW m \in Mutations, Sound(r, C), m \notin r.pending
    PROVE  /\ Sound(AddChange(r, m), C)
           /\ AddChange(r, m).pending = r.pending \cup {m}
<1> DEFINE s == AddChange(r, m)
<1>0. r \in Instance /\ r.shown \in Value /\ r.pending \subseteq Mutations
    BY DEF Sound, Instance
<1>1. /\ s.shown = Rebase(r.shown, {m})
      /\ s.truth = IF r.pending = {} THEN r.shown ELSE r.truth
      /\ s.pending = r.pending \cup {m}
    BY DEF AddChange
<1>2. s.truth \in Value /\ s.truth # NoTruth /\ Honest(s.truth, C)
    BY <1>0, <1>1, TruthAssumption DEF Sound, Instance, Base
<1>3. s \in Instance
    <2>1. Rebase(r.shown, {m}) \in Value
        BY <1>0, RebaseType
    <2> QED
        BY <2>1, <1>0, <1>1, <1>2 DEF AddChange, Instance
<1>4. Honest(Base(s), C)
    BY <1>1, <1>2 DEF Base
<1>5. ASSUME NEW x \in Mutations
      PROVE  s.shown[x] <= (IF x \in C THEN 1 ELSE 0) + (IF x \in s.pending THEN 1 ELSE 0)
    <2>1. r.shown[x] \in Nat /\ s.shown[x] = IF x = m THEN r.shown[x] + 1 ELSE r.shown[x]
        BY <1>0, <1>1 DEF Rebase, Value
    <2>2. r.shown[x] <= (IF x \in C THEN 1 ELSE 0) + (IF x \in r.pending THEN 1 ELSE 0)
        BY DEF Sound
    <2> QED
        BY <2>1, <2>2, <1>1
<1> QED
    BY <1>1, <1>2, <1>3, <1>4, <1>5 DEF Sound

LEMMA RollbackSound ==
    ASSUME NEW r, NEW C, NEW m \in Mutations, NEW threw, Sound(r, C)
    PROVE  /\ Sound(SettleWithoutServerTruth(r, m, threw), C)
           /\ SettleWithoutServerTruth(r, m, threw).pending = r.pending \ ({m} \cup threw)
<1>1. CASE r.pending = {}
    BY <1>1 DEF SettleWithoutServerTruth
<1>2. CASE r.pending # {}
    <2>1. r.truth \in Value /\ Honest(r.truth, C)
        BY <1>2 DEF Sound, Instance, Base
    <2>2. r.pending \ ({m} \cup threw) \in SUBSET Mutations
        BY DEF Sound, Instance
    <2> QED
        BY <1>2, <2>1, <2>2, RebasedSound DEF SettleWithoutServerTruth
<1> QED
    BY <1>1, <1>2

LEMMA SettleGone ==
    ASSUME NEW r, NEW C, NEW m \in Mutations, Sound(r, C), m \notin r.pending
    PROVE  Settle(r, m) = r
<1>1. r.pending \ {m} = r.pending
    OBVIOUS
<1>2. r.truth = IF r.pending = {} THEN NoTruth ELSE r.truth
    BY DEF Sound
<1>3. Settle(r, m) = [r EXCEPT !.pending = r.pending, !.truth = r.truth]
    BY <1>1, <1>2 DEF Settle
<1> QED
    BY <1>3 DEF Sound, Instance

LEMMA DiscardSound ==
    ASSUME NEW r, NEW C, Sound(r, C)
    PROVE  /\ Sound(DiscardPendingOptimism(r), C)
           /\ DiscardPendingOptimism(r).pending = {}
<1>1. CASE r.pending = {}
    BY <1>1 DEF DiscardPendingOptimism
<1>2. CASE r.pending # {}
    <2>1. r.truth \in Value /\ Honest(r.truth, C)
        BY <1>2 DEF Sound, Instance, Base
    <2> QED
        BY <1>2, <2>1, RebasedSound DEF DiscardPendingOptimism
<1> QED
    BY <1>1, <1>2

LEMMA OverwriteSound ==
    ASSUME NEW r, NEW C, NEW v \in Value, Sound(r, C), Honest(v, C)
    PROVE  /\ Sound([r EXCEPT !.shown = v], C)
           /\ [r EXCEPT !.shown = v].pending = r.pending
<1> DEFINE s == [r EXCEPT !.shown = v]
<1>1. s.shown = v /\ s.truth = r.truth /\ s.pending = r.pending /\ s \in Instance
    BY DEF Sound, Instance
<1>2. Honest(Base(s), C)
    BY <1>1 DEF Base, Sound
<1>3. ASSUME NEW x \in Mutations
      PROVE  s.shown[x] <= (IF x \in C THEN 1 ELSE 0) + (IF x \in s.pending THEN 1 ELSE 0)
    <2>1. v[x] \in Nat
        BY DEF Value
    <2>2. v[x] <= IF x \in C THEN 1 ELSE 0
        BY DEF Honest
    <2> QED
        BY <2>1, <2>2, <1>1
<1> QED
    BY <1>1, <1>2, <1>3 DEF Sound
-----------------------------------------------------------------------------
(* The invariant of the page. *)

InstInv ==
    /\ DOMAIN inst = Queries
    /\ inst = [q \in Queries |-> inst[q]]
    /\ \A q \in Queries : Sound(inst[q], committed)

OwnerInv ==
    \A q \in Queries : \A m \in inst[q].pending :
        stage[m] \in {"waiting", "sent"} /\ q \in Targets[m]

\* An answer holds effects that had committed when it was computed.
ReplyInv ==
    /\ DOMAIN reply = Mutations
    /\ reply = [m \in Mutations |-> reply[m]]
    /\ \A m \in Mutations :
          reply[m] # NoReply =>
              /\ IsAnswer(reply[m])
              /\ \A q \in DOMAIN reply[m] : Honest(reply[m][q], committed)

\* So does what a refetch holds back.
ReadsInv ==
    /\ IsAnswer(reads)
    /\ \A q \in DOMAIN reads : Honest(reads[q], committed)

QueueInv ==
    /\ queue \in Seq(Queued)
    /\ \A i, j \in 1 .. Len(queue) : queue[i] = queue[j] => i = j
    /\ HeadInFlight

PageInv ==
    /\ stage \in [Mutations -> Stages]
    /\ committed \subseteq Mutations
    /\ InstInv
    /\ OwnerInv
    /\ ReplyInv
    /\ ReadsInv
    /\ QueueInv

\* f takes the predictions of m back, and of the others those that throw and no more.
TakesBack(f, m, threw) ==
    /\ f = [q \in Queries |-> f[q]]
    /\ \A q \in Queries :
          /\ Sound(f[q], committed)
          /\ f[q].pending \subseteq inst[q].pending \ {m}
          /\ inst[q].pending \ ({m} \cup ThrewOn(q, threw)) \subseteq f[q].pending

LEMMA NoReadsHonest ==
    ASSUME NEW C
    PROVE  IsAnswer(NoReads) /\ \A q \in DOMAIN NoReads : Honest(NoReads[q], C)
<1>1. DOMAIN NoReads = {} /\ NoReads \in [{} -> Value]
    BY DEF NoReads
<1> QED
    BY <1>1 DEF IsAnswer

LEMMA InitInv == Init => PageInv
<1> SUFFICES ASSUME Init PROVE PageInv
    OBVIOUS
<1>1. Effects({}) \in Value /\ Honest(Effects({}), {})
    BY EffectsHonest
<1>2. ASSUME NEW q \in Queries
      PROVE  Sound(inst[q], {})
    <2>1. inst[q] = [shown |-> Effects({}), truth |-> NoTruth, pending |-> {}]
        BY DEF Init
    <2>2. \A x \in Mutations : Effects({})[x] = 0
        BY DEF Effects
    <2> QED
        BY <1>1, <2>1, <2>2 DEF Sound, Instance, Base
<1>3. InstInv
    BY <1>2 DEF Init, InstInv
<1>4. OwnerInv
    BY DEF Init, OwnerInv
<1>5. ReplyInv
    BY DEF Init, ReplyInv
<1>6. QueueInv
    <2>1. Len(queue) = 0 /\ queue \in Seq(Queued)
        BY DEF Init
    <2>2. \A m \in Queued : stage[m] = "new"
        BY OptimismAssumption DEF Init
    <2> QED
        BY <2>1, <2>2 DEF QueueInv, HeadInFlight
<1>7. ReadsInv
    BY NoReadsHonest DEF Init, ReadsInv
<1> QED
    BY <1>3, <1>4, <1>5, <1>6, <1>7 DEF Init, PageInv, Stages

-----------------------------------------------------------------------------
(* The end of a submission. *)

LEMMA DiscardedTakesBack ==
    ASSUME PageInv, NEW m \in Mutations, NEW threw \in SUBSET Fragile
    PROVE  TakesBack(Discarded(m, threw), m, threw)
<1> DEFINE f == Discarded(m, threw)
<1>1. ASSUME NEW q \in Queries
      PROVE  /\ Sound(f[q], committed)
             /\ f[q].pending \subseteq inst[q].pending \ {m}
             /\ inst[q].pending \ ({m} \cup ThrewOn(q, threw)) \subseteq f[q].pending
    <2>1. Sound(inst[q], committed)
        BY DEF PageInv, InstInv
    <2>2. CASE q \in Targets[m]
        <3>1. f[q] = SettleWithoutServerTruth(inst[q], m, ThrewOn(q, threw))
            BY <2>2 DEF Discarded
        <3>2. f[q].pending = inst[q].pending \ ({m} \cup ThrewOn(q, threw)) /\ Sound(f[q], committed)
            BY <2>1, <3>1, RollbackSound
        <3> QED
            BY <3>2
    <2>3. CASE q \notin Targets[m]
        <3>1. f[q] = inst[q]
            BY <2>3 DEF Discarded
        <3>2. m \notin inst[q].pending
            BY <2>3 DEF PageInv, OwnerInv
        <3> QED
            BY <2>1, <3>1, <3>2
    <2> QED
        BY <2>2, <2>3
<1>2. f = [q \in Queries |-> f[q]]
    BY DEF Discarded
<1> QED
    BY <1>1, <1>2 DEF TakesBack

LEMMA ReconciledTakesBack ==
    ASSUME PageInv, NEW m \in Mutations, reply[m] # NoReply, NEW threw \in SUBSET Fragile
    PROVE  TakesBack(Reconciled(m, threw), m, threw)
<1> DEFINE f == Reconciled(m, threw)
<1>1. ASSUME NEW q \in Queries
      PROVE  /\ Sound(f[q], committed)
             /\ f[q].pending \subseteq inst[q].pending \ {m}
             /\ inst[q].pending \ ({m} \cup ThrewOn(q, threw)) \subseteq f[q].pending
    <2>1. Sound(inst[q], committed)
        BY DEF PageInv, InstInv
    <2>2. CASE q \in DOMAIN reply[m]
        <3> DEFINE rest == (inst[q].pending \ {m}) \ ({m} \cup ThrewOn(q, threw))
        <3>1. f[q] = Rebased(reply[m][q], rest)
            BY <2>2 DEF Reconciled, ApplyServerTruth, Settles, Settle
        <3>2. reply[m][q] \in Value /\ Honest(reply[m][q], committed)
            BY <2>2 DEF PageInv, ReplyInv, IsAnswer
        <3>3. rest \in SUBSET Mutations
            BY <2>1 DEF Sound, Instance
        <3>4. f[q].pending = rest /\ Sound(f[q], committed)
            BY <3>1, <3>2, <3>3, RebasedSound
        <3> QED
            BY <3>4
    <2>3. CASE q \notin DOMAIN reply[m] /\ q \in Targets[m]
        <3> DEFINE r == SettleWithoutServerTruth(inst[q], m, ThrewOn(q, threw))
        <3>1. r.pending = inst[q].pending \ ({m} \cup ThrewOn(q, threw)) /\ Sound(r, committed)
            BY <2>1, RollbackSound
        <3>2. f[q] = Settle(r, m)
            BY <2>3 DEF Reconciled
        <3>3. f[q] = r
            BY <3>1, <3>2, SettleGone
        <3> QED
            BY <3>1, <3>3
    <2>4. CASE q \notin DOMAIN reply[m] /\ q \notin Targets[m]
        <3>1. m \notin inst[q].pending
            BY <2>4 DEF PageInv, OwnerInv
        <3>2. f[q] = Settle(inst[q], m)
            BY <2>4 DEF Reconciled
        <3>3. f[q] = inst[q]
            BY <2>1, <3>1, <3>2, SettleGone
        <3> QED
            BY <2>1, <3>1, <3>3
    <2> QED
        BY <2>2, <2>3, <2>4
<1>2. f = [q \in Queries |-> f[q]]
    BY DEF Reconciled
<1> QED
    BY <1>1, <1>2 DEF TakesBack

LEMMA FinishStep ==
    ASSUME PageInv, NEW m \in Mutations, stage[m] = "sent",
           NEW end \in {"aborted", "over"}, Finish(m, end)
    PROVE  /\ QueueInv'
           /\ stage' \in [Mutations -> Stages]
           /\ stage'[m] = end
           /\ \A x \in Mutations \ {m} :
                 stage[x] \in {"waiting", "sent"} => stage'[x] \in {"waiting", "sent"}
<1>1. stage' \in [Mutations -> Stages] /\ stage'[m] = end
    BY DEF PageInv, Finish, Stages
<1>2. \A x \in Mutations \ {m} :
         stage[x] \in {"waiting", "sent"} => stage'[x] \in {"waiting", "sent"}
    BY DEF Finish
<1>3. CASE m \notin Queued
    <2>1. queue' = queue /\ \A x \in Queued : stage'[x] = stage[x]
        BY <1>3, OptimismAssumption DEF Finish
    <2>2. \A i \in 1 .. Len(queue) : queue[i] \in Queued
        BY DEF PageInv, QueueInv
    <2> QED
        BY <1>1, <1>2, <2>1, <2>2 DEF PageInv, QueueInv, HeadInFlight
<1>4. CASE m \in Queued
    <2>0. /\ queue \in Seq(Queued)
          /\ \A i, j \in 1 .. Len(queue) : queue[i] = queue[j] => i = j
          /\ \A i \in 1 .. Len(queue) : stage[queue[i]] = IF i = 1 THEN "sent" ELSE "waiting"
          /\ \A x \in Queued : stage[x] \in {"waiting", "sent"} =>
                                 \E i \in 1 .. Len(queue) : queue[i] = x
        BY DEF PageInv, QueueInv, HeadInFlight
    <2>1. Len(queue) >= 1 /\ queue[1] = m
        BY <1>4, <2>0
    <2>2. /\ queue' = Tail(queue) /\ queue' \in Seq(Queued) /\ Len(queue') = Len(queue) - 1
          /\ \A i \in 1 .. Len(queue') : i + 1 \in 1 .. Len(queue) /\ queue'[i] = queue[i + 1]
        BY <1>4, <2>0, <2>1 DEF Finish
    <2>3. \A x \in Mutations : stage'[x] = IF x = m THEN end
                                            ELSE IF Len(queue) > 1 /\ x = queue[2] THEN "sent"
                                            ELSE stage[x]
        BY <1>4 DEF Finish
    <2>4. \A i \in 1 .. Len(queue) : queue[i] \in Queued /\ queue[i] \in Mutations
        BY <2>0, OptimismAssumption
    <2>5. \A i, j \in 1 .. Len(queue') : queue'[i] = queue'[j] => i = j
        BY <2>0, <2>2
    <2>6. ASSUME NEW i \in 1 .. Len(queue')
          PROVE  stage'[queue'[i]] = IF i = 1 THEN "sent" ELSE "waiting"
        <3>1. i \in Nat /\ i >= 1 /\ i + 1 \in 1 .. Len(queue) /\ queue'[i] = queue[i + 1]
            BY <2>2
        <3>2. queue[i + 1] # m
            BY <2>0, <2>1, <3>1
        <3>3. CASE i = 1
            <4>1. Len(queue) > 1 /\ queue'[i] = queue[2]
                BY <2>0, <3>1, <3>3
            <4> QED
                BY <2>3, <2>4, <3>1, <3>2, <3>3, <4>1
        <3>4. CASE i # 1
            <4>1. 2 \in 1 .. Len(queue) /\ queue[i + 1] # queue[2]
                BY <2>0, <3>1, <3>4
            <4> QED
                BY <2>0, <2>3, <2>4, <3>1, <3>2, <3>4, <4>1
        <3> QED
            BY <3>3, <3>4
    <2>7. ASSUME NEW x \in Queued, stage'[x] \in {"waiting", "sent"}
          PROVE  \E i \in 1 .. Len(queue') : queue'[i] = x
        <3>1. x # m /\ x \in Mutations
            BY <1>1, <2>7, OptimismAssumption
        <3>2. CASE Len(queue) > 1 /\ x = queue[2]
            <4>1. 1 \in 1 .. Len(queue') /\ queue'[1] = queue[1 + 1]
                BY <2>0, <2>2, <3>2
            <4> QED
                BY <3>2, <4>1
        <3>3. CASE ~(Len(queue) > 1 /\ x = queue[2])
            <4>1. stage'[x] = stage[x]
                BY <2>3, <3>1, <3>3
            <4>2. PICK i \in 1 .. Len(queue) : queue[i] = x
                BY <2>0, <2>7, <4>1
            <4>3. i # 1
                BY <2>1, <3>1, <4>2
            <4>4. i - 1 \in 1 .. Len(queue') /\ queue'[i - 1] = queue[i]
                BY <2>0, <2>2, <4>2, <4>3
            <4> QED
                BY <4>2, <4>4
        <3> QED
            BY <3>2, <3>3
    <2>8. QueueInv'
        BY <2>2, <2>5, <2>6, <2>7 DEF QueueInv, HeadInFlight
    <2> QED
        BY <1>1, <1>2, <2>8
<1> QED
    BY <1>3, <1>4

-----------------------------------------------------------------------------
(* Every step keeps the invariant, and the predictions of the others. *)

\* What SiblingsKept says of one step.
Spared ==
    \A q \in Queries : \A x \in inst[q].pending \ inst'[q].pending :
        \/ \E m \in Mutations :
              /\ stage'[m] # stage[m]
              /\ \E threw \in SUBSET Fragile : Ends(m, threw)
              /\ x # m => \A threw \in SUBSET Fragile : Ends(m, threw) => <<x, q>> \in threw
        \/ PageHide

LEMMA TypeSafe ==
    ASSUME PageInv
    PROVE  \A q \in Queries : Sound(inst[q], committed) /\ inst[q].pending \subseteq Mutations
BY DEF PageInv, InstInv, Sound, Instance

LEMMA SubmitStep ==
    ASSUME PageInv, NEW m \in Mutations, Submit(m)
    PROVE  PageInv' /\ Spared
<1>1. stage[m] = "new" /\ stage' \in [Mutations -> Stages] /\ committed' = committed
    BY DEF Submit, PageInv, Stages
<1>2. /\ stage'[m] \in {"waiting", "sent"}
      /\ \A x \in Mutations \ {m} : stage'[x] = stage[x]
    BY DEF Submit, PageInv
<1>3. ASSUME NEW q \in Queries
      PROVE  /\ Sound(inst'[q], committed)
             /\ inst[q].pending \subseteq inst'[q].pending
             /\ inst'[q].pending \subseteq inst[q].pending \cup {m}
             /\ m \in inst'[q].pending => q \in Targets[m]
    <2>1. m \notin inst[q].pending /\ Sound(inst[q], committed)
        BY <1>1 DEF PageInv, OwnerInv, InstInv
    <2>2. CASE inst' = Predicted(m) /\ q \in Targets[m]
        <3>1. inst'[q] = AddChange(inst[q], m)
            BY <2>2 DEF Predicted
        <3> QED
            BY <2>1, <2>2, <3>1, AddChangeSound
    <2>3. CASE inst' = inst \/ (inst' = Predicted(m) /\ q \notin Targets[m])
        <3>1. inst'[q] = inst[q]
            BY <2>3 DEF Predicted
        <3> QED
            BY <2>1, <3>1
    <2> QED
        BY <2>2, <2>3 DEF Submit
<1>4. inst' = [q \in Queries |-> inst'[q]] /\ DOMAIN inst' = Queries
    BY DEF Submit, Predicted, PageInv, InstInv
<1>5. InstInv'
    BY <1>1, <1>3, <1>4 DEF InstInv
<1>6. OwnerInv'
    <2> SUFFICES ASSUME NEW q \in Queries, NEW x \in inst'[q].pending
                 PROVE  stage'[x] \in {"waiting", "sent"} /\ q \in Targets[x]
        BY DEF OwnerInv
    <2>1. CASE x = m
        BY <2>1, <1>2, <1>3
    <2>2. CASE x # m
        <3>1. x \in inst[q].pending /\ x \in Mutations
            BY <2>2, <1>3, TypeSafe
        <3> QED
            BY <2>2, <3>1, <1>2 DEF PageInv, OwnerInv
    <2> QED
        BY <2>1, <2>2
<1>7. ReplyInv' /\ ReadsInv'
    BY DEF Submit, PageInv, ReplyInv, ReadsInv
<1>8. QueueInv'
    <2>0. /\ queue \in Seq(Queued)
          /\ \A i, j \in 1 .. Len(queue) : queue[i] = queue[j] => i = j
          /\ \A i \in 1 .. Len(queue) : stage[queue[i]] = IF i = 1 THEN "sent" ELSE "waiting"
          /\ \A x \in Queued : stage[x] \in {"waiting", "sent"} =>
                                 \E i \in 1 .. Len(queue) : queue[i] = x
        BY DEF PageInv, QueueInv, HeadInFlight
    <2>1. \A i \in 1 .. Len(queue) : queue[i] # m /\ queue[i] \in Mutations
        BY <1>1, <2>0, OptimismAssumption
    <2>2. CASE m \notin Queued
        <3>1. queue' = queue
            BY <2>2 DEF Submit
        <3>2. \A x \in Queued : x # m /\ x \in Mutations
            BY <2>2, OptimismAssumption
        <3>3. \A i \in 1 .. Len(queue) : stage'[queue[i]] = stage[queue[i]]
            BY <1>2, <2>1
        <3>4. \A x \in Queued : stage'[x] = stage[x]
            BY <1>2, <3>2
        <3> QED
            BY <2>0, <3>1, <3>3, <3>4 DEF QueueInv, HeadInFlight
    <2>3. CASE m \in Queued
        <3>1. queue' = Append(queue, m)
            BY <2>3 DEF Submit
        <3>2. /\ queue' \in Seq(Queued) /\ Len(queue') = Len(queue) + 1 /\ Len(queue) \in Nat
              /\ queue'[Len(queue) + 1] = m
              /\ \A i \in 1 .. Len(queue) : queue'[i] = queue[i]
            BY <2>0, <2>3, <3>1
        <3>3. stage'[m] = IF Len(queue) = 0 THEN "sent" ELSE "waiting"
            BY <2>0, <2>3 DEF Submit, PageInv
        <3>4. \A i, j \in 1 .. Len(queue') : queue'[i] = queue'[j] => i = j
            BY <2>0, <2>1, <3>2
        <3>5. ASSUME NEW i \in 1 .. Len(queue')
              PROVE  stage'[queue'[i]] = IF i = 1 THEN "sent" ELSE "waiting"
            <4>1. CASE i = Len(queue) + 1
                BY <3>2, <3>3, <4>1
            <4>2. CASE i # Len(queue) + 1
                <5>1. i \in 1 .. Len(queue)
                    BY <3>2, <4>2
                <5>2. stage'[queue'[i]] = stage[queue[i]]
                    BY <1>2, <2>1, <3>2, <5>1
                <5> QED
                    BY <2>0, <5>1, <5>2
            <4> QED
                BY <4>1, <4>2
        <3>6. ASSUME NEW x \in Queued, stage'[x] \in {"waiting", "sent"}
              PROVE  \E i \in 1 .. Len(queue') : queue'[i] = x
            <4>1. CASE x = m
                BY <3>2, <4>1
            <4>2. CASE x # m
                <5>1. stage'[x] = stage[x]
                    BY <1>2, <4>2, OptimismAssumption
                <5>2. PICK i \in 1 .. Len(queue) : queue[i] = x
                    BY <2>0, <3>6, <5>1
                <5> QED
                    BY <3>2, <5>2
            <4> QED
                BY <4>1, <4>2
        <3> QED
            BY <3>2, <3>4, <3>5, <3>6 DEF QueueInv, HeadInFlight
    <2> QED
        BY <2>2, <2>3
<1>9. Spared
    BY <1>3 DEF Spared
<1> QED
    BY <1>1, <1>5, <1>6, <1>7, <1>8, <1>9 DEF PageInv

LEMMA EndStep ==
    ASSUME PageInv, NEW m \in Mutations, NEW threw, stage[m] = "sent",
           NEW end \in {"aborted", "over"}, Finish(m, end), TakesBack(inst', m, threw)
    PROVE  PageInv'
<1>1. /\ QueueInv'
      /\ stage' \in [Mutations -> Stages]
      /\ stage'[m] = end
      /\ \A x \in Mutations \ {m} :
            stage[x] \in {"waiting", "sent"} => stage'[x] \in {"waiting", "sent"}
    BY FinishStep
<1>2. committed' = committed /\ reply' = [reply EXCEPT ![m] = NoReply] /\ reads' = reads
    BY DEF Finish
<1>3. InstInv'
    BY <1>2 DEF TakesBack, InstInv
<1>4. OwnerInv'
    BY <1>1, TypeSafe DEF TakesBack, PageInv, OwnerInv
<1>5. ReplyInv' /\ ReadsInv'
    BY <1>2 DEF PageInv, ReplyInv, ReadsInv
<1> QED
    BY <1>1, <1>2, <1>3, <1>4, <1>5 DEF PageInv

LEMMA AbandonStep ==
    ASSUME PageInv, NEW m \in Mutations, NEW threw \in SUBSET Fragile, Abandon(m, threw)
    PROVE  PageInv'
<1>1. TakesBack(inst', m, threw)
    BY DiscardedTakesBack DEF Abandon
<1>2. /\ stage[m] = "aborted" /\ stage' = [stage EXCEPT ![m] = "over"]
      /\ queue' = queue /\ committed' = committed /\ reply' = reply /\ reads' = reads
    BY DEF Abandon
<1>3. stage' \in [Mutations -> Stages] /\ stage'[m] = "over"
      /\ \A x \in Mutations \ {m} : stage'[x] = stage[x]
    BY <1>2 DEF PageInv, Stages
<1>4. InstInv'
    BY <1>1, <1>2 DEF TakesBack, InstInv
<1>5. OwnerInv'
    BY <1>1, <1>3, TypeSafe DEF TakesBack, PageInv, OwnerInv
<1>6. ReplyInv' /\ ReadsInv'
    BY <1>2 DEF PageInv, ReplyInv, ReadsInv
<1>7. QueueInv'
    <2>1. \A i \in 1 .. Len(queue) : queue[i] # m /\ queue[i] \in Mutations
        BY <1>2, OptimismAssumption DEF PageInv, QueueInv, HeadInFlight
    <2>2. \A i \in 1 .. Len(queue) : stage'[queue[i]] = stage[queue[i]]
        BY <1>3, <2>1
    <2>3. \A x \in Queued : stage'[x] \in {"waiting", "sent"} => stage'[x] = stage[x]
        BY <1>3, OptimismAssumption
    <2> QED
        BY <1>2, <2>2, <2>3 DEF PageInv, QueueInv, HeadInFlight
<1> QED
    BY <1>2, <1>3, <1>4, <1>5, <1>6, <1>7 DEF PageInv

\* Whatever ends a submission takes back its own predictions and those that throw in the step.
LEMMA EndTakesBack ==
    ASSUME PageInv, NEW m \in Mutations, NEW threw \in SUBSET Fragile, Ends(m, threw)
    PROVE  TakesBack(inst', m, threw) /\ stage'[m] # stage[m]
<1>1. CASE Apply(m, threw)
    BY <1>1, ReconciledTakesBack DEF Apply, Finish
<1>2. CASE Fail(m, threw)
    BY <1>2, DiscardedTakesBack DEF Fail, Finish
<1>3. CASE Timeout(m, threw)
    BY <1>3, DiscardedTakesBack DEF Timeout, Finish
<1>4. CASE Abandon(m, threw)
    BY <1>4, DiscardedTakesBack DEF Abandon, PageInv
<1> QED
    BY <1>1, <1>2, <1>3, <1>4 DEF Ends

LEMMA EndsStep ==
    ASSUME PageInv, NEW m \in Mutations, NEW threw \in SUBSET Fragile, Ends(m, threw)
    PROVE  PageInv' /\ Spared
<1>1. TakesBack(inst', m, threw) /\ stage'[m] # stage[m]
    BY EndTakesBack
<1>2. PageInv'
    <2>1. CASE Abandon(m, threw)
        BY <2>1, AbandonStep
    <2>2. CASE Apply(m, threw) \/ Fail(m, threw) \/ Timeout(m, threw)
        BY <1>1, <2>2, EndStep DEF Apply, Fail, Timeout
    <2> QED
        BY <2>1, <2>2 DEF Ends
<1>3. ASSUME NEW q \in Queries, NEW x \in inst[q].pending \ inst'[q].pending, x # m,
             NEW thrown \in SUBSET Fragile, Ends(m, thrown)
      PROVE  <<x, q>> \in thrown
    <2>1. TakesBack(inst', m, thrown)
        BY <1>3, EndTakesBack
    <2>2. x \in ThrewOn(q, thrown)
        BY <1>3, <2>1 DEF TakesBack
    <2> QED
        BY <2>2 DEF ThrewOn
<1>4. Spared
    BY <1>1, <1>3 DEF Spared
<1> QED
    BY <1>2, <1>4

LEMMA CommitStep ==
    ASSUME PageInv, NEW m \in Mutations, Commit(m)
    PROVE  PageInv' /\ Spared
<1>1. /\ committed \subseteq committed' /\ committed' \subseteq Mutations
      /\ inst' = inst /\ queue' = queue /\ stage' = stage /\ reply' = reply /\ reads' = reads
    BY DEF Commit, PageInv
<1>2. InstInv'
    <2>1. \A q \in Queries : Sound(inst[q], committed')
        BY <1>1, SoundGrows DEF PageInv, InstInv
    <2> QED
        BY <1>1, <2>1 DEF PageInv, InstInv
<1>3. ReplyInv'
    <2> SUFFICES ASSUME NEW x \in Mutations, reply[x] # NoReply
                 PROVE  IsAnswer(reply[x])
                        /\ \A q \in DOMAIN reply[x] : Honest(reply[x][q], committed')
        BY <1>1 DEF PageInv, ReplyInv
    <2>1. IsAnswer(reply[x]) /\ \A q \in DOMAIN reply[x] : Honest(reply[x][q], committed)
        BY DEF PageInv, ReplyInv
    <2>2. \A q \in DOMAIN reply[x] : reply[x][q] \in Value
        BY <2>1 DEF IsAnswer
    <2> QED
        BY <1>1, <2>1, <2>2, HonestGrows
<1>4. OwnerInv' /\ QueueInv'
    BY <1>1 DEF PageInv, OwnerInv, QueueInv, HeadInFlight
<1>5. Spared
    BY <1>1 DEF Spared
<1>6. ReadsInv'
    <2>1. IsAnswer(reads) /\ \A q \in DOMAIN reads : Honest(reads[q], committed)
        BY DEF PageInv, ReadsInv
    <2>2. \A q \in DOMAIN reads : reads[q] \in Value
        BY <2>1 DEF IsAnswer
    <2> QED
        BY <1>1, <2>1, <2>2, HonestGrows DEF ReadsInv
<1> QED
    BY <1>1, <1>2, <1>3, <1>4, <1>5, <1>6 DEF PageInv

LEMMA TruthHonest ==
    ASSUME NEW q \in Queries
    PROVE  Truth(q) \in Value /\ Honest(Truth(q), committed)
BY EffectsHonest DEF Truth

LEMMA RerunStep ==
    ASSUME PageInv, NEW m \in Mutations, Rerun(m)
    PROVE  PageInv' /\ Spared
<1>1. /\ inst' = inst /\ queue' = queue /\ stage' = stage /\ committed' = committed
      /\ reads' = reads
    BY DEF Rerun
<1>2. PICK covers \in SUBSET Targets[m] :
         reply' = [reply EXCEPT ![m] = [q \in covers |-> Truth(q)]]
    BY DEF Rerun
<1>3. covers \subseteq Queries
    BY OptimismAssumption
<1>4. \A q \in covers : Truth(q) \in Value /\ Honest(Truth(q), committed)
    BY <1>3, TruthHonest
<1> DEFINE answer == [q \in covers |-> Truth(q)]
<1>5. answer \in [covers -> Value]
    BY <1>4
<1>6. IsAnswer(answer)
    BY <1>3, <1>5 DEF IsAnswer
<1>7. \A q \in DOMAIN answer : Honest(answer[q], committed)
    BY <1>4
<1>8. ReplyInv'
    <2> HIDE DEF answer
    <2> QED
        BY <1>1, <1>2, <1>6, <1>7 DEF PageInv, ReplyInv, answer
<1>9. InstInv' /\ OwnerInv' /\ QueueInv' /\ ReadsInv' /\ Spared
    BY <1>1 DEF PageInv, InstInv, OwnerInv, QueueInv, HeadInFlight, ReadsInv, Spared
<1> QED
    BY <1>1, <1>8, <1>9 DEF PageInv

\* A writer that neither submits nor ends a mutation.
LEMMA StoreStep ==
    ASSUME PageInv, UNCHANGED <<queue, stage, committed, reply>>, ReadsInv',
           inst' = [q \in Queries |-> inst'[q]],
           \A q \in Queries : /\ Sound(inst'[q], committed)
                              /\ inst'[q].pending \subseteq inst[q].pending
    PROVE  PageInv'
<1>1. InstInv'
    BY DEF InstInv
<1>2. OwnerInv'
    BY DEF PageInv, OwnerInv
<1>3. ReplyInv' /\ QueueInv'
    BY DEF PageInv, ReplyInv, QueueInv, HeadInFlight
<1> QED
    BY <1>1, <1>2, <1>3 DEF PageInv

LEMMA ReadStep ==
    ASSUME PageInv, NEW q \in Queries, Read(q)
    PROVE  PageInv' /\ Spared
<1>1. /\ UNCHANGED <<inst, queue, stage, committed, reply>>
      /\ reads' = [p \in DOMAIN reads \cup {q} |-> IF p = q THEN Truth(q) ELSE reads[p]]
    BY DEF Read
<1>2. Truth(q) \in Value /\ Honest(Truth(q), committed)
    BY TruthHonest
<1>3. PICK covers \in SUBSET Queries : reads \in [covers -> Value]
    BY DEF PageInv, ReadsInv, IsAnswer
<1>4. reads' \in [covers \cup {q} -> Value] /\ covers \cup {q} \in SUBSET Queries
    BY <1>1, <1>2, <1>3
<1>5. IsAnswer(reads')
    BY <1>4 DEF IsAnswer
<1>6. \A p \in DOMAIN reads' : Honest(reads'[p], committed)
    BY <1>1, <1>2 DEF PageInv, ReadsInv
<1>7. ReadsInv'
    BY <1>1, <1>5, <1>6 DEF ReadsInv
<1>8. InstInv' /\ OwnerInv' /\ ReplyInv' /\ QueueInv' /\ Spared
    BY <1>1 DEF PageInv, InstInv, OwnerInv, ReplyInv, QueueInv, HeadInFlight, Spared
<1> QED
    BY <1>1, <1>7, <1>8 DEF PageInv

LEMMA ReadsEndStep ==
    ASSUME PageInv, ApplyReads \/ DropReads
    PROVE  PageInv' /\ Spared
<1>1. reads' = NoReads /\ UNCHANGED <<queue, stage, committed, reply>>
    BY DEF ApplyReads, DropReads
<1>2. ReadsInv'
    BY <1>1, NoReadsHonest DEF ReadsInv
<1>3. inst' = [q \in Queries |-> inst'[q]]
    BY DEF ApplyReads, DropReads, PageInv, InstInv
<1>4. ASSUME NEW q \in Queries
      PROVE  Sound(inst'[q], committed) /\ inst'[q].pending = inst[q].pending
    <2>1. Sound(inst[q], committed)
        BY DEF PageInv, InstInv
    <2>2. CASE inst'[q] = inst[q]
        BY <2>1, <2>2
    <2>3. CASE q \in DOMAIN reads /\ inst'[q] = [inst[q] EXCEPT !.shown = reads[q]]
        <3>1. reads[q] \in Value /\ Honest(reads[q], committed)
            BY <2>3 DEF PageInv, ReadsInv, IsAnswer
        <3> QED
            BY <2>1, <2>3, <3>1, OverwriteSound
    <2> QED
        BY <2>2, <2>3 DEF ApplyReads, DropReads
<1>5. PageInv'
    BY <1>1, <1>2, <1>3, <1>4, StoreStep
<1> QED
    BY <1>4, <1>5 DEF Spared

LEMMA PageHideStep ==
    ASSUME PageInv, PageHide
    PROVE  PageInv' /\ Spared
<1>1. /\ inst' = [q \in Queries |-> DiscardPendingOptimism(inst[q])]
      /\ UNCHANGED <<queue, stage, committed, reply, reads>>
    BY DEF PageHide
<1>2. \A q \in Queries : Sound(inst'[q], committed) /\ inst'[q].pending = {}
    BY <1>1, DiscardSound DEF PageInv, InstInv
<1>3. inst' = [q \in Queries |-> inst'[q]]
    BY <1>1
<1>4. ReadsInv'
    BY <1>1 DEF PageInv, ReadsInv
<1>5. PageInv'
    BY <1>1, <1>2, <1>3, <1>4, StoreStep
<1> QED
    BY <1>2, <1>5 DEF Spared

LEMMA PageStep == PageInv /\ [Next]_vars => PageInv' /\ Spared
<1> SUFFICES ASSUME PageInv, [Next]_vars PROVE PageInv' /\ Spared
    OBVIOUS
<1>1. ASSUME NEW m \in Mutations, Submit(m) PROVE PageInv' /\ Spared
    BY <1>1, SubmitStep
<1>2. ASSUME NEW m \in Mutations, Commit(m) PROVE PageInv' /\ Spared
    BY <1>2, CommitStep
<1>3. ASSUME NEW m \in Mutations, Rerun(m) PROVE PageInv' /\ Spared
    BY <1>3, RerunStep
<1>4. ASSUME NEW m \in Mutations, NEW threw \in SUBSET Fragile, Ends(m, threw)
      PROVE  PageInv' /\ Spared
    BY <1>4, EndsStep
<1>5. ASSUME NEW q \in Queries, Read(q) PROVE PageInv' /\ Spared
    BY <1>5, ReadStep
<1>6. CASE ApplyReads \/ DropReads
    BY <1>6, ReadsEndStep
<1>7. CASE PageHide
    BY <1>7, PageHideStep
<1>8. CASE UNCHANGED vars
    BY <1>8 DEF vars, PageInv, InstInv, OwnerInv, ReplyInv, ReadsInv, QueueInv, HeadInFlight, Spared
<1> QED
    BY <1>1, <1>2, <1>3, <1>4, <1>5, <1>6, <1>7, <1>8 DEF Next

-----------------------------------------------------------------------------
(* The theorems. *)

\* The inductive invariant holds of every behaviour: the log, the truth under it, the queue and
\* the answers on their way fit together.
THEOREM PageInvHolds == Spec => []PageInv
<1>1. Init => PageInv
    BY InitInv
<1>2. PageInv /\ [Next]_vars => PageInv'
    BY PageStep
<1> QED
    BY <1>1, <1>2, PTL DEF Spec

\* Types hold for every page, and a server truth is kept exactly while predictions are pending.
THEOREM OptimismTypeCorrect == Spec => []TypeOK
<1>1. PageInv => TypeOK
    <2> SUFFICES ASSUME PageInv PROVE TypeOK
        OBVIOUS
    <2>1. inst \in [Queries -> Instance]
        BY DEF PageInv, InstInv, Sound
    <2>2. \A q \in Queries : inst[q].truth = NoTruth <=> inst[q].pending = {}
        BY DEF PageInv, InstInv, Sound
    <2> QED
        BY <2>1, <2>2 DEF PageInv, ReplyInv, ReadsInv, QueueInv, TypeOK
<1> QED
    BY <1>1, PageInvHolds, PTL

\* No rollback, however submissions, answers, failures and out-of-band writes interleave, falls
\* back to a value the server never had.
THEOREM BaseAlwaysServerTruth == Spec => []BaseIsServerTruth
<1>1. PageInv => BaseIsServerTruth
    BY DEF PageInv, InstInv, Sound, Honest, BaseIsServerTruth
<1> QED
    BY <1>1, PageInvHolds, PTL

\* Nothing stays on the screen that is neither committed nor predicted.
THEOREM ScreenAlwaysExplained == Spec => []ScreenExplained
<1>1. PageInv => ScreenExplained
    BY DEF PageInv, InstInv, Sound, ScreenExplained
<1> QED
    BY <1>1, PageInvHolds, PTL

\* No prediction outlives the submission that made it.
THEOREM PredictionsAlwaysOwned == Spec => []PredictionsHaveOwners
<1>1. PageInv => PredictionsHaveOwners
    BY DEF PageInv, OwnerInv, PredictionsHaveOwners
<1> QED
    BY <1>1, PageInvHolds, PTL

\* The head of the queue, and it alone, is in flight, at every depth.
THEOREM HeadAlwaysInFlight == Spec => []HeadInFlight
<1>1. PageInv => HeadInFlight
    BY DEF PageInv, QueueInv
<1> QED
    BY <1>1, PageInvHolds, PTL

\* The end of a mutation takes from the log of a query its own prediction and those whose
\* transforms for that query throw in that step; besides such ends only pagehide takes any.
THEOREM SiblingsAlwaysKept == Spec => SiblingsKept
<1>1. PageInv /\ [Next]_vars => [Spared]_vars
    BY PageStep
<1>2. [Spared]_vars =>
        [\A q \in Queries : \A x \in inst[q].pending \ inst'[q].pending :
            \/ \E m \in Mutations :
                  /\ stage'[m] # stage[m]
                  /\ \E threw \in SUBSET Fragile : Ends(m, threw)
                  /\ x # m => \A threw \in SUBSET Fragile : Ends(m, threw) => <<x, q>> \in threw
            \/ PageHide]_vars
    BY DEF Spared
<1> QED
    BY <1>1, <1>2, PageInvHolds, PTL DEF Spec, SiblingsKept

-----------------------------------------------------------------------------
(* Queries whose writers wait for each other. *)

\* An instance that counts every effect once: its truth holds none of the predictions over it.
CountedOnce(r) ==
    /\ \A x \in Mutations : r.shown[x] <= 1
    /\ \A x \in r.pending : r.truth[x] = 0

SerialInv ==
    /\ \A m \in Mutations : stage[m] \in {"new", "waiting"} => m \notin committed
    /\ \A m \in Mutations : reply[m] # NoReply => DOMAIN reply[m] \subseteq Targets[m]
    /\ \A q \in Queries : Serialized(q) => CountedOnce(inst[q])

LEMMA RebasedOnce ==
    ASSUME NEW v \in Value, NEW C, NEW rest \in SUBSET Mutations, Honest(v, C),
           \A x \in rest : v[x] = 0
    PROVE  CountedOnce(Rebased(v, rest))
<1> DEFINE r == Rebased(v, rest)
<1>1. /\ r.truth = IF rest = {} THEN NoTruth ELSE v
      /\ r.pending = rest
    BY DEF Rebased
<1>2. ASSUME NEW x \in Mutations
      PROVE  r.shown[x] <= 1
    <2>1. r.shown[x] = IF x \in rest THEN v[x] + 1 ELSE v[x]
        BY DEF Rebased, Rebase
    <2>2. v[x] \in Nat /\ v[x] <= 1
        BY DEF Value, Honest
    <2> QED
        BY <2>1, <2>2
<1> QED
    BY <1>1, <1>2 DEF CountedOnce

LEMMA AddChangeOnce ==
    ASSUME NEW r, NEW C, NEW m \in Mutations, Sound(r, C), CountedOnce(r),
           m \notin r.pending, m \notin C
    PROVE  CountedOnce(AddChange(r, m))
<1> DEFINE s == AddChange(r, m)
<1>1. /\ r.shown \in Value /\ r.pending \subseteq Mutations
      /\ r.pending # {} => r.truth \in Value
    BY DEF Sound, Instance
<1>2. r.shown[m] = 0
    BY <1>1 DEF Sound, Value
<1>3. /\ \A x \in Mutations : s.shown[x] = IF x = m THEN r.shown[x] + 1 ELSE r.shown[x]
      /\ s.truth = IF r.pending = {} THEN r.shown ELSE r.truth
      /\ s.pending = r.pending \cup {m}
    BY DEF AddChange, Rebase
<1>4. s.truth[m] = 0
    <2>1. CASE r.pending = {}
        BY <1>2, <1>3, <2>1
    <2>2. CASE r.pending # {}
        <3>1. r.truth[m] \in Nat /\ r.truth[m] <= 0
            BY <1>1, <2>2 DEF Sound, Honest, Base, Value
        <3> QED
            BY <1>3, <2>2, <3>1
    <2> QED
        BY <2>1, <2>2
<1>5. \A x \in r.pending : s.truth[x] = 0
    BY <1>3 DEF CountedOnce
<1>6. ASSUME NEW x \in Mutations PROVE s.shown[x] <= 1
    <2>1. s.shown[x] = IF x = m THEN r.shown[x] + 1 ELSE r.shown[x]
        BY <1>3
    <2>2. r.shown[x] <= 1
        BY DEF CountedOnce
    <2> QED
        BY <1>2, <2>1, <2>2
<1> QED
    BY <1>3, <1>4, <1>5, <1>6 DEF CountedOnce

LEMMA RollbackOnce ==
    ASSUME NEW r, NEW C, NEW m \in Mutations, NEW threw, Sound(r, C), CountedOnce(r)
    PROVE  CountedOnce(SettleWithoutServerTruth(r, m, threw))
<1>1. CASE r.pending = {}
    BY <1>1 DEF SettleWithoutServerTruth
<1>2. CASE r.pending # {}
    <2>1. r.truth \in Value /\ Honest(r.truth, C)
        BY <1>2 DEF Sound, Instance, Base
    <2>2. r.pending \ ({m} \cup threw) \in SUBSET Mutations
        BY DEF Sound, Instance
    <2>3. \A x \in r.pending \ ({m} \cup threw) : r.truth[x] = 0
        BY DEF CountedOnce
    <2> QED
        BY <1>2, <2>1, <2>2, <2>3, RebasedOnce DEF SettleWithoutServerTruth
<1> QED
    BY <1>1, <1>2

LEMMA HiddenOnce ==
    ASSUME NEW r, NEW C, Sound(r, C), CountedOnce(r)
    PROVE  CountedOnce(DiscardPendingOptimism(r))
<1>1. CASE r.pending = {}
    BY <1>1 DEF DiscardPendingOptimism
<1>2. CASE r.pending # {}
    <2>1. r.truth \in Value /\ Honest(r.truth, C)
        BY <1>2 DEF Sound, Instance, Base
    <2> QED
        BY <1>2, <2>1, RebasedOnce DEF DiscardPendingOptimism
<1> QED
    BY <1>1, <1>2

LEMMA OverwriteOnce ==
    ASSUME NEW r, NEW C, NEW v \in Value, Sound(r, C), CountedOnce(r), Honest(v, C)
    PROVE  CountedOnce([r EXCEPT !.shown = v])
<1> DEFINE s == [r EXCEPT !.shown = v]
<1>1. s.shown = v /\ s.truth = r.truth /\ s.pending = r.pending
    BY DEF Sound, Instance
<1>2. ASSUME NEW x \in Mutations PROVE v[x] <= 1
    <2>1. v[x] \in Nat /\ v[x] <= IF x \in C THEN 1 ELSE 0
        BY DEF Value, Honest
    <2> QED
        BY <2>1
<1> QED
    BY <1>1, <1>2 DEF CountedOnce

\* While one queued submission is in flight the others wait for it.
LEMMA OthersWait ==
    ASSUME PageInv, NEW m \in Queued, NEW x \in Queued, stage[m] = "sent", x # m,
           stage[x] \in {"waiting", "sent"}
    PROVE  stage[x] = "waiting"
<1>1. PICK i \in 1 .. Len(queue) : queue[i] = m
    BY DEF PageInv, QueueInv, HeadInFlight
<1>2. PICK k \in 1 .. Len(queue) : queue[k] = x
    BY DEF PageInv, QueueInv, HeadInFlight
<1>3. i = 1 /\ k # 1
    BY <1>1, <1>2 DEF PageInv, QueueInv, HeadInFlight
<1> QED
    BY <1>2, <1>3 DEF PageInv, QueueInv, HeadInFlight

LEMMA DiscardedOnce ==
    ASSUME PageInv, SerialInv, NEW m \in Mutations, NEW threw \in SUBSET Fragile
    PROVE  \A q \in Queries : Serialized(q) => CountedOnce(Discarded(m, threw)[q])
<1> SUFFICES ASSUME NEW q \in Queries, Serialized(q)
             PROVE  CountedOnce(Discarded(m, threw)[q])
    OBVIOUS
<1>1. Sound(inst[q], committed) /\ CountedOnce(inst[q])
    BY DEF PageInv, InstInv, SerialInv
<1>2. Discarded(m, threw)[q] = IF q \in Targets[m]
                               THEN SettleWithoutServerTruth(inst[q], m, ThrewOn(q, threw)) ELSE inst[q]
    BY DEF Discarded
<1> QED
    BY <1>1, <1>2, RollbackOnce

\* The answer to the head holds none of the effects that wait behind it.
LEMMA ReconciledOnce ==
    ASSUME PageInv, SerialInv, NEW m \in Mutations, stage[m] = "sent", reply[m] # NoReply,
           NEW threw \in SUBSET Fragile
    PROVE  \A q \in Queries : Serialized(q) => CountedOnce(Reconciled(m, threw)[q])
<1> SUFFICES ASSUME NEW q \in Queries, Serialized(q)
             PROVE  CountedOnce(Reconciled(m, threw)[q])
    OBVIOUS
<1>1. Sound(inst[q], committed) /\ CountedOnce(inst[q])
    BY DEF PageInv, InstInv, SerialInv
<1>2. CASE q \in DOMAIN reply[m]
    <2> DEFINE rest == (inst[q].pending \ {m}) \ ({m} \cup ThrewOn(q, threw))
    <2>1. Reconciled(m, threw)[q] = Rebased(reply[m][q], rest)
        BY <1>2 DEF Reconciled, ApplyServerTruth, Settles, Settle
    <2>2. reply[m][q] \in Value /\ Honest(reply[m][q], committed) /\ q \in Targets[m]
        BY <1>2 DEF PageInv, ReplyInv, IsAnswer, SerialInv
    <2>3. rest \in SUBSET Mutations
        BY <1>1 DEF Sound, Instance
    <2>4. ASSUME NEW x \in rest PROVE reply[m][q][x] = 0
        <3>1. x \in Mutations /\ x # m /\ q \in Targets[x] /\ stage[x] \in {"waiting", "sent"}
            BY <2>3 DEF PageInv, OwnerInv
        <3>2. m \in Queued /\ x \in Queued
            BY <2>2, <3>1 DEF Serialized
        <3>3. x \notin committed
            BY <3>1, <3>2, OthersWait DEF SerialInv
        <3>4. reply[m][q][x] \in Nat /\ reply[m][q][x] <= 0
            BY <2>2, <3>1, <3>3 DEF Honest, Value
        <3> QED
            BY <3>4
    <2> QED
        BY <2>1, <2>2, <2>3, <2>4, RebasedOnce
<1>3. CASE q \notin DOMAIN reply[m]
    <2>1. CASE q \in Targets[m]
        <3> DEFINE r == SettleWithoutServerTruth(inst[q], m, ThrewOn(q, threw))
        <3>1. Sound(r, committed) /\ m \notin r.pending /\ CountedOnce(r)
            BY <1>1, RollbackSound, RollbackOnce
        <3>2. Reconciled(m, threw)[q] = Settle(r, m)
            BY <1>3, <2>1 DEF Reconciled
        <3> QED
            BY <3>1, <3>2, SettleGone
    <2>2. CASE q \notin Targets[m]
        <3>1. m \notin inst[q].pending
            BY <2>2 DEF PageInv, OwnerInv
        <3>2. Reconciled(m, threw)[q] = Settle(inst[q], m)
            BY <1>3, <2>2 DEF Reconciled
        <3> QED
            BY <1>1, <3>1, <3>2, SettleGone
    <2> QED
        BY <2>1, <2>2
<1> QED
    BY <1>2, <1>3

\* A step that commits nothing, and after which nothing waits that did not.
LEMMA SerialFrame ==
    ASSUME SerialInv, committed' = committed,
           \A m \in Mutations : stage'[m] \in {"new", "waiting"} => stage[m] \in {"new", "waiting"},
           \A m \in Mutations : reply'[m] = reply[m] \/ reply'[m] = NoReply,
           \A q \in Queries : Serialized(q) => CountedOnce(inst'[q])
    PROVE  SerialInv'
BY DEF SerialInv, Serialized

LEMMA SerialSubmit ==
    ASSUME PageInv, SerialInv, NEW m \in Mutations, Submit(m)
    PROVE  SerialInv'
<1>1. /\ stage[m] = "new" /\ m \notin committed
      /\ committed' = committed /\ reply' = reply
    BY DEF Submit, SerialInv
<1>2. \A x \in Mutations : stage'[x] \in {"new", "waiting"} => stage[x] \in {"new", "waiting"}
    BY <1>1 DEF Submit, PageInv
<1>3. ASSUME NEW q \in Queries, Serialized(q) PROVE CountedOnce(inst'[q])
    <2>1. Sound(inst[q], committed) /\ CountedOnce(inst[q])
        BY <1>3 DEF PageInv, InstInv, SerialInv
    <2>2. m \notin inst[q].pending
        BY <1>1 DEF PageInv, OwnerInv
    <2>3. inst'[q] = inst[q] \/ inst'[q] = AddChange(inst[q], m)
        BY DEF Submit, Predicted
    <2> QED
        BY <1>1, <2>1, <2>2, <2>3, AddChangeOnce
<1> QED
    BY <1>1, <1>2, <1>3, SerialFrame

LEMMA SerialEnd ==
    ASSUME PageInv, SerialInv, NEW m \in Mutations, NEW threw \in SUBSET Fragile, Ends(m, threw)
    PROVE  SerialInv'
<1>1. \A q \in Queries : Serialized(q) => CountedOnce(inst'[q])
    <2>1. CASE Apply(m, threw)
        BY <2>1, ReconciledOnce DEF Apply
    <2>2. CASE Fail(m, threw) \/ Timeout(m, threw) \/ Abandon(m, threw)
        BY <2>2, DiscardedOnce DEF Fail, Timeout, Abandon
    <2> QED
        BY <2>1, <2>2 DEF Ends
<1>2. committed' = committed /\ \A x \in Mutations : reply'[x] = reply[x] \/ reply'[x] = NoReply
    BY DEF Ends, Apply, Fail, Timeout, Abandon, Finish, PageInv, ReplyInv
<1>3. \A x \in Mutations : stage'[x] \in {"new", "waiting"} => stage[x] \in {"new", "waiting"}
    BY DEF Ends, Apply, Fail, Timeout, Abandon, Finish, PageInv
<1> QED
    BY <1>1, <1>2, <1>3, SerialFrame

LEMMA SerialServer ==
    ASSUME PageInv, SerialInv, NEW m \in Mutations, Commit(m) \/ Rerun(m)
    PROVE  SerialInv'
<1>1. CASE Commit(m)
    BY <1>1 DEF Commit, SerialInv, Serialized
<1>2. CASE Rerun(m)
    <2>1. PICK covers \in SUBSET Targets[m] :
             reply' = [reply EXCEPT ![m] = [q \in covers |-> Truth(q)]]
        BY <1>2 DEF Rerun
    <2>2. inst' = inst /\ stage' = stage /\ committed' = committed
        BY <1>2 DEF Rerun
    <2>3. \A x \in Mutations : reply'[x] # NoReply => DOMAIN reply'[x] \subseteq Targets[x]
        BY <2>1 DEF SerialInv, PageInv, ReplyInv
    <2> QED
        BY <2>2, <2>3 DEF SerialInv, Serialized
<1> QED
    BY <1>1, <1>2

LEMMA SerialStore ==
    ASSUME PageInv, SerialInv,
           (\E q \in Queries : Read(q)) \/ ApplyReads \/ DropReads \/ PageHide \/ UNCHANGED vars
    PROVE  SerialInv'
<1>1. committed' = committed /\ stage' = stage /\ reply' = reply
    BY DEF Read, ApplyReads, DropReads, PageHide, vars
<1>2. ASSUME NEW q \in Queries, Serialized(q) PROVE CountedOnce(inst'[q])
    <2>1. Sound(inst[q], committed) /\ CountedOnce(inst[q])
        BY <1>2 DEF PageInv, InstInv, SerialInv
    <2>2. CASE inst'[q] = inst[q]
        BY <2>1, <2>2
    <2>3. CASE q \in DOMAIN reads /\ inst'[q] = [inst[q] EXCEPT !.shown = reads[q]]
        <3>1. reads[q] \in Value /\ Honest(reads[q], committed)
            BY <2>3 DEF PageInv, ReadsInv, IsAnswer
        <3> QED
            BY <2>1, <2>3, <3>1, OverwriteOnce
    <2>4. CASE inst'[q] = DiscardPendingOptimism(inst[q])
        BY <2>1, <2>4, HiddenOnce
    <2> QED
        BY <2>2, <2>3, <2>4 DEF Read, ApplyReads, DropReads, PageHide, vars
<1> QED
    BY <1>1, <1>2, SerialFrame

LEMMA SerialInit == Init => SerialInv
<1> SUFFICES ASSUME Init PROVE SerialInv
    OBVIOUS
<1>1. ASSUME NEW q \in Queries PROVE CountedOnce(inst[q])
    BY DEF Init, CountedOnce, Effects
<1> QED
    BY <1>1 DEF Init, SerialInv

LEMMA SerialNext == PageInv /\ SerialInv /\ [Next]_vars => SerialInv'
BY SerialSubmit, SerialEnd, SerialServer, SerialStore DEF Next

\* On a query whose writers all name the queue no effect is ever shown twice: what the settlement
\* set of the answer leaves out matters only where mutations race.
THEOREM SerializedAlwaysCountedOnce == Spec => []SerializedCountedOnce
<1>1. SerialInv => SerializedCountedOnce
    BY DEF SerialInv, CountedOnce, SerializedCountedOnce
<1> QED
    BY <1>1, SerialInit, SerialNext, PageInvHolds, PTL DEF Spec
-----------------------------------------------------------------------------
(* The named queue is a TurnQueue *)

Turn == {m \in Queued : stage[m] = "sent"}
Gone == {m \in Queued : stage[m] \in {"aborted", "over"}}

\* Exactly the head has the turn, and nobody in the queue is gone.
LEMMA TurnIsHead ==
    ASSUME PageInv
    PROVE  /\ Turn = IF queue = <<>> THEN {} ELSE {queue[1]}
           /\ queue \in Seq(Queued)
           /\ \A i \in 1 .. Len(queue) :
                 /\ queue[i] \in Queued
                 /\ stage[queue[i]] \in {"sent", "waiting"}
<1>0. /\ queue \in Seq(Queued)
      /\ \A i \in 1 .. Len(queue) : stage[queue[i]] = IF i = 1 THEN "sent" ELSE "waiting"
      /\ \A m \in Queued : stage[m] \in {"waiting", "sent"} =>
                             \E i \in 1 .. Len(queue) : queue[i] = m
    BY DEF PageInv, QueueInv, HeadInFlight
<1>1. CASE queue = <<>>
    BY <1>0, <1>1 DEF Turn
<1>2. CASE queue # <<>>
    <2>1. 1 \in 1 .. Len(queue) /\ queue[1] \in Queued
        BY <1>0, <1>2
    <2>2. \A m \in Queued : stage[m] = "sent" <=> m = queue[1]
        BY <1>0, <2>1
    <2> QED
        BY <1>0, <1>2, <2>1, <2>2 DEF Turn
<1> QED
    BY <1>0, <1>1, <1>2

LEMMA TurnsSubmit ==
    ASSUME PageInv, NEW m \in Mutations, Submit(m)
    PROVE  [Turns!TurnNext]_(Turns!turnVars)
<1>1. /\ stage[m] = "new"
      /\ \A x \in Queued \ {m} : stage'[x] = stage[x]
    BY OptimismAssumption DEF Submit, PageInv
<1>2. CASE m \notin Queued
    <2>1. queue' = queue /\ Turn' = Turn /\ Gone' = Gone
        BY <1>1, <1>2 DEF Submit, Turn, Gone
    <2> QED
        BY <2>1 DEF Turns!turnVars, Turn, Gone
<1>3. CASE m \in Queued
    <2>1. /\ Len(queue) < MaxDepth /\ queue' = Append(queue, m)
          /\ stage'[m] = IF queue # <<>> THEN "waiting" ELSE "sent"
        BY <1>3 DEF Submit, PageInv
    <2>2. m \notin Gone /\ Gone' = Gone
        BY <1>1, <2>1 DEF Gone
    <2>3. \A i \in 1 .. Len(queue) : queue[i] # m
        BY <1>1, TurnIsHead
    <2>4. Turn' = IF queue = <<>> THEN {m} ELSE Turn
        <3>1. CASE queue = <<>>
            BY <1>1, <1>3, <2>1, <3>1, TurnIsHead DEF Turn
        <3>2. CASE queue # <<>>
            BY <1>1, <1>3, <2>1, <3>2 DEF Turn
        <3> QED
            BY <3>1, <3>2
    <2>5. Turns!Join(m)
        BY <2>1, <2>2, <2>3, <2>4 DEF Turns!Join, Turn, Gone
    <2> QED
        BY <1>3, <2>5 DEF Turns!TurnNext
<1> QED
    BY <1>2, <1>3

LEMMA TurnsFinish ==
    ASSUME PageInv, NEW m \in Mutations, stage[m] = "sent",
           NEW end \in {"aborted", "over"}, Finish(m, end)
    PROVE  [Turns!TurnNext]_(Turns!turnVars)
<1>1. \A x \in Mutations :
         stage'[x] = IF x = m THEN end
                     ELSE IF m \in Queued /\ Len(queue) > 1 /\ x = queue[2] THEN "sent"
                     ELSE stage[x]
    BY DEF Finish
<1>2. CASE m \notin Queued
    <2>1. \A x \in Queued : stage'[x] = stage[x]
        BY <1>1, <1>2, OptimismAssumption
    <2>2. queue' = queue /\ Turn' = Turn /\ Gone' = Gone
        BY <1>2, <2>1 DEF Finish, Turn, Gone
    <2> QED
        BY <2>2 DEF Turns!turnVars, Turn, Gone
<1>3. CASE m \in Queued
    <2>1. m \in Turn /\ queue' = Tail(queue)
        BY <1>3 DEF Turn, Finish
    <2>2. queue # <<>> /\ queue[1] = m /\ Turn = {m} /\ queue \in Seq(Queued)
        BY <2>1, TurnIsHead
    <2>3. Len(queue) > 1 => queue[2] \in Queued \ {m}
        BY <2>2 DEF PageInv, QueueInv, HeadInFlight
    <2>4. Turn' = IF Len(queue) > 1 THEN {queue[2]} ELSE {}
        <3>1. \A x \in Queued : stage[x] = "sent" <=> x = m
            BY <2>2 DEF Turn
        <3>2. \A x \in Queued : stage'[x] = "sent" <=> Len(queue) > 1 /\ x = queue[2]
            BY <1>1, <1>3, <2>3, <3>1, OptimismAssumption
        <3> QED
            BY <2>3, <3>2 DEF Turn
    <2>5. Gone' = Gone \cup {m}
        <3>1. Len(queue) > 1 => stage[queue[2]] \in {"sent", "waiting"}
            BY <2>2, TurnIsHead
        <3>2. \A x \in Queued :
                 stage'[x] \in {"aborted", "over"} <=> x = m \/ stage[x] \in {"aborted", "over"}
            BY <1>1, <3>1, OptimismAssumption
        <3> QED
            BY <1>3, <3>2 DEF Gone
    <2>6. Turns!Leave(m)
        BY <2>1, <2>2, <2>4, <2>5 DEF Turns!Leave, Turn, Gone
    <2> QED
        BY <1>3, <2>6 DEF Turns!TurnNext
<1> QED
    BY <1>2, <1>3

LEMMA TurnsStep ==
    ASSUME PageInv, [Next]_vars
    PROVE  [Turns!TurnNext]_(Turns!turnVars)
<1>1. CASE \E m \in Mutations : Submit(m)
    BY <1>1, TurnsSubmit
<1>2. ASSUME NEW m \in Mutations, NEW threw, Ends(m, threw), ~Abandon(m, threw)
      PROVE  [Turns!TurnNext]_(Turns!turnVars)
    BY <1>2, TurnsFinish DEF Ends, Apply, Fail, Timeout
<1>3. ASSUME NEW m \in Mutations, NEW threw, Abandon(m, threw)
      PROVE  [Turns!TurnNext]_(Turns!turnVars)
    <2>1. /\ queue' = queue /\ stage[m] = "aborted" /\ stage'[m] = "over"
          /\ \A x \in Mutations \ {m} : stage'[x] = stage[x]
        BY <1>3 DEF Abandon, PageInv
    <2>2. Turn' = Turn /\ Gone' = Gone
        BY <2>1, OptimismAssumption DEF Turn, Gone
    <2> QED
        BY <2>1, <2>2 DEF Turns!turnVars, Turn, Gone
<1>4. CASE queue' = queue /\ stage' = stage
    BY <1>4 DEF Turns!turnVars
<1> QED
    BY <1>1, <1>2, <1>3, <1>4
       DEF Next, Commit, Rerun, Read, ApplyReads, DropReads, PageHide, vars

\* The named queue gives each submission one turn at most, one at a time and in the order in which
\* they were made, for any mutations, any depth and any way in which the turns before end.
THEOREM TurnsAlwaysTaken == Spec => TurnsTaken
<1>1. Init => Turns!TurnInit
    BY OptimismAssumption DEF Init, Turns!TurnInit
<1>2. PageInv /\ [Next]_vars => [Turns!TurnNext]_(Turns!turnVars)
    BY TurnsStep
<1> QED
    BY <1>1, <1>2, PageInvHolds, PTL DEF Spec, TurnsTaken, Turns!TurnSpec

=============================================================================
