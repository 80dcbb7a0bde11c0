------------------------ MODULE DurableReplayProofs ------------------------
(***************************************************************************)
(* DurableReplay does what OnceOnly promises, for any tokens, requests,    *)
(* slots and clocks.                                                       *)
(*                                                                         *)
(* A request is engaged from the moment it is admitted: it may have the    *)
(* effect, or has it, or is the answer.  ReplayInv says that no token has  *)
(* two engaged requests, and why none can come: as long as the epoch of    *)
(* the token is open, its engaged request still has the row, or its answer *)
(* was reclaimed behind the watermark; once the epoch is over nobody is    *)
(* admitted any more, whatever was erased.                                 *)
(***************************************************************************)
EXTENDS DurableReplay, TLAPS

Holding == {"admit", "handler", "commit", "settle", "publish", "release"}
Idle == {"admit", "release", "stuck"}

EngagedState(q) ==
    q.effect \/ q.pc \in {"handler", "commit", "settle", "publish", "answered"}
Engaged(r) == EngagedState(reqs[r])

Closed(k) == k \in Owned /\ epoch # "open"
Deleted(k) == k \in Owned /\ epoch \in {"deleted", "receipt"}

\* Request s gave the answer of the token of r.
AnswerOf(s, r) == s \in Requests /\ KeyOf[s] = KeyOf[r] /\ At(s, "answered")

\* What a request says of the row of its token, while the epoch is open.
OwnInv(r) ==
    /\ reqs[r].pc \in Holding => Holds(r)
    /\ reqs[r].effect /\ ~At(r, "answered") => Holds(r)
    /\ At(r, "answered") =>
          \/ RowOf(r) # None /\ RowOf(r).owner = r /\ ~Pending(KeyOf[r])
          \/ RowOf(r) = None /\ Expires[KeyOf[r]] <= reclaimed

ReqInv(r) ==
    /\ reqs[r].effect => reqs[r].pc \in {"settle", "publish", "answered", "stuck"}
    /\ At(r, "verify") => AnswerOf(reqs[r].got, r)
    /\ reqs[r].told # None => At(r, "replayed") /\ AnswerOf(reqs[r].told, r)
    /\ ~Closed(KeyOf[r]) => OwnInv(r)

RowInv(k) ==
    rows[k] # None =>
        /\ KeyOf[rows[k].owner] = k
        /\ Pending(k) => /\ rows[k].slot \in Slots
                         /\ reqs[rows[k].owner].pc \in Holding \cup {"stuck"}
        /\ ~Pending(k) => At(rows[k].owner, "answered")
        /\ Deleted(k) => Pending(k) /\ reqs[rows[k].owner].pc \in Idle

OneEngaged ==
    \A r, s \in Requests : KeyOf[r] = KeyOf[s] /\ Engaged(r) /\ Engaged(s) => r = s

ReplayInv ==
    /\ TypeOK
    /\ \A r \in Requests : ReqInv(r)
    /\ \A k \in Keys : RowInv(k)
    /\ OneEngaged

-----------------------------------------------------------------------------
(* The initial state *)

LEMMA KeysOfRequests == \A r \in Requests : KeyOf[r] \in Keys
  BY KeyAssumption

LEMMA InitReplayInv == Init => ReplayInv
<1>. SUFFICES ASSUME Init PROVE ReplayInv
  OBVIOUS
<1>. USE KeysOfRequests
<1>1. New \in Request
  BY DEF New, Request, Active
<1>2. TypeOK
  BY <1>1 DEF Init, TypeOK, Epochs
<1>3. \A r \in Requests : reqs[r] = New
  BY DEF Init
<1>4. \A r \in Requests : ~Engaged(r)
  BY <1>3 DEF Engaged, EngagedState, New
<1>5. \A r \in Requests : ReqInv(r)
  BY <1>3 DEF ReqInv, OwnInv, At, New, Holding
<1>6. \A k \in Keys : RowInv(k)
  BY DEF Init, RowInv
<1>. QED
  BY <1>2, <1>4, <1>5, <1>6 DEF ReplayInv, OneEngaged

-----------------------------------------------------------------------------
(* Steps of one request that leave the rows alone *)

\* Request r may move to q.
MayMove(r, q) ==
    /\ q \in Request
    /\ EngagedState(q) => Engaged(r) \/ (At(r, "admit") /\ ~Closed(KeyOf[r]))
    /\ q.pc \in Holding => reqs[r].pc \in Holding
    /\ reqs[r].pc \in Holding \cup {"stuck"} => q.pc \in Holding \cup {"stuck"}
    /\ reqs[r].pc \in Idle /\ Closed(KeyOf[r]) => q.pc \in Idle
    /\ ~At(r, "answered") /\ q.pc # "answered"
    /\ q.effect => q.pc \in {"settle", "publish", "stuck"}
                   /\ (reqs[r].effect \/ At(r, "commit"))
    /\ q.pc = "verify" => AnswerOf(q.got, r)
    /\ q.told # None => q.pc = "replayed" /\ AnswerOf(q.told, r)

LEMMA MoveKeeps ==
  ASSUME ReplayInv, NEW r \in Requests, NEW q, MayMove(r, q),
         reqs' = [reqs EXCEPT ![r] = q], UNCHANGED <<rows, reclaimed, epoch>>
  PROVE  ReplayInv'
<1>. USE KeysOfRequests
<1>1. /\ reqs'[r] = q
      /\ \A s \in Requests \ {r} : reqs'[s] = reqs[s]
  BY DEF ReplayInv, TypeOK
<1>2. TypeOK'
  BY DEF ReplayInv, TypeOK, MayMove
<1>3. /\ \A s, t \in Requests : AnswerOf(s, t) => AnswerOf(s, t)'
      /\ \A s \in Requests : Holds(s)' = Holds(s)
      /\ \A k \in Keys : Pending(k)' = Pending(k) /\ Closed(k)' = Closed(k) /\ Deleted(k)' = Deleted(k)
  BY <1>1 DEF AnswerOf, At, MayMove, Holds, Pending, RowOf, Closed, Deleted
<1>4. ASSUME NEW s \in Requests PROVE ReqInv(s)'
  <2>1. CASE s # r
    <3>1. ReqInv(s)
      BY DEF ReplayInv
    <3>. QED
      BY <2>1, <3>1, <1>1, <1>3 DEF ReqInv, OwnInv, At, RowOf, AnswerOf
  <2>2. CASE s = r
    <3>1. ReqInv(r)
      BY DEF ReplayInv
    <3>2. ~Closed(KeyOf[r]) => OwnInv(r)'
      BY <2>2, <3>1, <1>1, <1>3 DEF ReqInv, OwnInv, MayMove, At, Holding
    <3>. QED
      BY <2>2, <3>2, <1>1, <1>3 DEF ReqInv, MayMove, At, AnswerOf
  <2>. QED
    BY <2>1, <2>2
<1>5. ASSUME NEW k \in Keys PROVE RowInv(k)'
  <2>. SUFFICES ASSUME rows'[k] # None PROVE RowInv(k)'
    BY DEF RowInv
  <2>1. RowInv(k) /\ rows[k].owner \in Requests
    BY DEF ReplayInv, TypeOK, Row, RowInv
  <2>2. CASE rows[k].owner # r
    BY <2>1, <2>2, <1>1, <1>3 DEF RowInv, At
  <2>3. CASE rows[k].owner = r
    BY <2>1, <2>3, <1>1, <1>3 DEF RowInv, At, MayMove, Closed, Deleted
  <2>. QED
    BY <2>2, <2>3
<1>6. OneEngaged'
  <2>1. SUFFICES ASSUME NEW s \in Requests, s # r, KeyOf[s] = KeyOf[r], Engaged(s), EngagedState(q)
                 PROVE  FALSE
    BY <1>1 DEF OneEngaged, Engaged, ReplayInv
  <2>2. ~Engaged(r)
    BY <2>1 DEF ReplayInv, OneEngaged
  <2>3. Holds(r) /\ OwnInv(s)
    BY <2>1, <2>2 DEF MayMove, ReplayInv, ReqInv, OwnInv, At, Holding
  <2>4. Holds(s) \/ At(s, "answered")
    BY <2>1, <2>3 DEF OwnInv, Engaged, EngagedState, At, Holding
  <2>. QED
    BY <2>1, <2>3, <2>4 DEF OwnInv, Holds, RowOf, Pending
<1>. QED
  BY <1>2, <1>4, <1>5, <1>6 DEF ReplayInv

LEMMA MovedIs ==
  ASSUME TypeOK, NEW r \in Requests, NEW pc \in Active \cup Over
  PROVE  /\ Moved(r, pc) \in Request
         /\ Moved(r, pc).pc = pc
         /\ Moved(r, pc).effect = reqs[r].effect
         /\ Moved(r, pc).told = reqs[r].told
<1>1. reqs[r] \in Request
  BY DEF TypeOK
<1>. QED
  BY <1>1 DEF Moved, Request

LEMMA GotoKeeps ==
  ASSUME ReplayInv, NEW r \in Requests,
         NEW pc \in (Active \cup Over) \ {"answered", "verify"},
         reqs[r].pc \in Active,
         reqs[r].effect => pc \in {"settle", "publish", "stuck"},
         pc \in {"handler", "commit", "settle", "publish"}
            => Engaged(r) \/ (At(r, "admit") /\ ~Closed(KeyOf[r])),
         pc \in Holding => reqs[r].pc \in Holding,
         reqs[r].pc \in Holding => pc \in Holding \cup {"stuck"},
         reqs[r].pc \in Idle /\ Closed(KeyOf[r]) => pc \in Idle,
         Goto(r, pc), UNCHANGED <<rows, reclaimed, epoch>>
  PROVE  ReplayInv'
<1>. DEFINE q == Moved(r, pc)
<1>1. /\ q \in Request /\ q.pc = pc
      /\ q.effect = reqs[r].effect /\ q.told = reqs[r].told
  BY MovedIs DEF ReplayInv
<1>2. ReqInv(r)
  BY DEF ReplayInv
<1>3. reqs' = [reqs EXCEPT ![r] = q]
  BY DEF Goto
<1>. HIDE DEF q
<1>4. EngagedState(q) => Engaged(r) \/ (At(r, "admit") /\ ~Closed(KeyOf[r]))
  BY <1>1 DEF EngagedState, Engaged
<1>5. MayMove(r, q)
  BY <1>1, <1>2, <1>4 DEF MayMove, ReqInv, At, Active
<1>. QED
  BY <1>3, <1>5, MoveKeeps

\* A request without a claim is not engaged, and moves on as it likes.
LEMMA SeekKeeps ==
  ASSUME ReplayInv, NEW r \in Requests, NEW q \in Request,
         reqs[r].pc \in Active \ Holding,
         q.pc \in (Active \ Holding) \cup {"failed", "replayed", "stuck"},
         q.effect = reqs[r].effect,
         q.pc = "verify" => AnswerOf(q.got, r),
         \/ q.told = reqs[r].told
         \/ q.pc = "replayed" /\ AnswerOf(q.told, r),
         reqs' = [reqs EXCEPT ![r] = q], UNCHANGED <<rows, reclaimed, epoch>>
  PROVE  ReplayInv'
<1>1. ReqInv(r) /\ reqs[r] \in Request
  BY DEF ReplayInv, TypeOK
<1>2. ~reqs[r].effect /\ reqs[r].told = None
  BY <1>1 DEF ReqInv, Active, Holding, At
<1>3. MayMove(r, q)
  BY <1>1, <1>2 DEF MayMove, Active, Holding, At, EngagedState, Idle
<1>. QED
  BY <1>3, MoveKeeps

LEMMA SeekingGoesTo ==
  ASSUME ReplayInv, NEW r \in Requests, NEW pc \in (Active \ Holding) \cup {"failed", "stuck"},
         pc # "verify", reqs[r].pc \in Active \ Holding,
         Goto(r, pc), UNCHANGED <<rows, reclaimed, epoch>>
  PROVE  ReplayInv'
<1>. DEFINE q == Moved(r, pc)
<1>1. /\ q \in Request /\ q.pc = pc
      /\ q.effect = reqs[r].effect /\ q.told = reqs[r].told
  BY MovedIs DEF ReplayInv, Over
<1>2. reqs' = [reqs EXCEPT ![r] = q]
  BY DEF Goto
<1>. HIDE DEF q
<1>. QED
  BY <1>1, <1>2, SeekKeeps

LEMMA ShortSeeksKeep ==
  ASSUME ReplayInv, NEW r \in Requests,
         Bind(r) \/ GoStale(r) \/ InsertRefused(r) \/ Peek(r) \/ FindConflict(r)
  PROVE  ReplayInv'
<1>. USE DEF Active, Holding, At
<1>1. PICK pc \in {"read", "reserve", "peek", "join", "failed"} : Goto(r, pc)
  BY DEF Bind, GoStale, InsertRefused, Peek, FindConflict
<1>2. reqs[r].pc \in Active \ Holding /\ UNCHANGED <<rows, reclaimed, epoch>>
  BY DEF Bind, GoStale, InsertRefused, Peek, FindConflict, Looking
<1>. QED
  BY <1>1, <1>2, SeekingGoesTo

LEMMA SlotsTaken == ASSUME ReplayInv PROVE TakenSlots \subseteq Slots
  BY DEF ReplayInv, RowInv, TakenSlots, Pending

LEMMA SendInsertKeeps ==
  ASSUME ReplayInv, NEW r \in Requests, SendInsert(r) PROVE ReplayInv'
<1>. DEFINE q == [reqs[r] EXCEPT !.pc = "insert", !.swept = FALSE, !.busy = TakenSlots]
<1>1. reqs[r] \in Request
  BY DEF ReplayInv, TypeOK
<1>2. TakenSlots \subseteq Slots
  BY SlotsTaken
<1>3. q \in Request
  BY <1>1, <1>2 DEF Request, Active
<1>4. reqs' = [reqs EXCEPT ![r] = q]
  BY <1>1 DEF SendInsert, ReplayInv, TypeOK
<1>5. q.pc = "insert" /\ q.effect = reqs[r].effect /\ q.told = reqs[r].told
  BY <1>1 DEF Request
<1>. HIDE DEF q
<1>. QED
  BY <1>3, <1>4, <1>5, SeekKeeps DEF SendInsert, Active, Holding, At

LEMMA MissKeeps ==
  ASSUME ReplayInv, NEW r \in Requests, FindNothing(r) \/ StopWaiting(r)
  PROVE  ReplayInv'
<1>. DEFINE q == [reqs[r] EXCEPT !.pc = AfterMiss(r), !.swept = FALSE,
                                 !.attempt = IF At(r, "join") THEN 2 ELSE @]
<1>1. reqs[r] \in Request
  BY DEF ReplayInv, TypeOK
<1>2. AfterMiss(r) \in {"rebind", "reserve", "failed"}
  BY DEF AfterMiss
<1>3. q \in Request
  BY <1>1, <1>2 DEF Request, Active, Over
<1>4. reqs' = [reqs EXCEPT ![r] = q] /\ UNCHANGED <<rows, reclaimed, epoch>>
  BY <1>1 DEF FindNothing, StopWaiting, Miss, ReplayInv, TypeOK
<1>5. q.pc = AfterMiss(r) /\ q.effect = reqs[r].effect /\ q.told = reqs[r].told
  BY <1>1 DEF Request
<1>. HIDE DEF q
<1>6. reqs[r].pc \in {"read", "join"}
  BY DEF FindNothing, StopWaiting, Looking
<1>. QED
  BY <1>2, <1>3, <1>4, <1>5, <1>6, SeekKeeps DEF Active, Holding

LEMMA FindKeeps ==
  ASSUME ReplayInv, NEW r \in Requests, Find(r) PROVE ReplayInv'
<1>. USE KeysOfRequests
<1>. DEFINE o == RowOf(r).owner
            q == [reqs[r] EXCEPT !.pc = "verify", !.got = o, !.swept = FALSE]
<1>1. reqs[r] \in Request
  BY DEF ReplayInv, TypeOK
<1>2. AnswerOf(o, r)
  BY DEF Find, ReplayInv, RowInv, AnswerOf, RowOf, TypeOK, Row
<1>. HIDE DEF o
<1>3. q \in Request
  BY <1>1, <1>2 DEF Request, Active, AnswerOf
<1>4. reqs' = [reqs EXCEPT ![r] = q]
  BY <1>1 DEF Find, ReplayInv, TypeOK, o
<1>5. q.pc = "verify" /\ q.effect = reqs[r].effect /\ q.told = reqs[r].told /\ q.got = o
  BY <1>1 DEF Request
<1>. HIDE DEF q
<1>. QED
  BY <1>2, <1>3, <1>4, <1>5, SeekKeeps DEF Find, Looking, Active, Holding

LEMMA VerifyKeeps ==
  ASSUME ReplayInv, NEW r \in Requests, Verify(r) PROVE ReplayInv'
<1>. USE DEF Active, Holding
<1>1. CASE Goto(r, "failed")
  BY <1>1, SeekingGoesTo DEF Verify, At
<1>2. CASE reqs' = [reqs EXCEPT ![r].pc = "replayed", ![r].told = reqs[r].got, ![r].got = None]
  <2>. DEFINE q == [reqs[r] EXCEPT !.pc = "replayed", !.told = reqs[r].got, !.got = None]
  <2>1. reqs[r] \in Request /\ AnswerOf(reqs[r].got, r)
    BY DEF ReplayInv, TypeOK, ReqInv, Verify
  <2>2. q \in Request /\ reqs' = [reqs EXCEPT ![r] = q]
    BY <1>2, <2>1 DEF Request, Over, ReplayInv, TypeOK
  <2>3. q.pc = "replayed" /\ q.effect = reqs[r].effect /\ q.told = reqs[r].got
    BY <2>1 DEF Request
  <2>. HIDE DEF q
  <2>. QED
    BY <2>1, <2>2, <2>3, SeekKeeps DEF Verify, At
<1>. QED
  BY <1>1, <1>2 DEF Verify

-----------------------------------------------------------------------------
(* Steps of one request with its claim *)

LEMMA ClosedIs == \A r \in Requests : Closed(KeyOf[r]) <=> ~EpochFresh(r)
  BY DEF Closed, EpochFresh

LEMMA RunsKeep ==
  ASSUME ReplayInv, NEW r \in Requests,
         Admit(r) \/ HandlerReturns(r) \/ HandlerFails(r) \/ HandlerDeclines(r) \/ Settle(r)
  PROVE  ReplayInv'
<1>. USE ClosedIs DEF Active, Over, Holding, Idle, At, Engaged, EngagedState
<1>1. ReqInv(r)
  BY DEF ReplayInv
<1>2. UNCHANGED <<rows, reclaimed, epoch>>
  BY DEF Admit, HandlerReturns, HandlerFails, HandlerDeclines, Settle
<1>3. CASE Admit(r) /\ Goto(r, "handler")
  BY <1>1, <1>2, <1>3, GotoKeeps DEF Admit, ReqInv
<1>4. CASE At(r, "admit") /\ Goto(r, "release")
  BY <1>1, <1>2, <1>4, GotoKeeps DEF ReqInv
<1>5. CASE At(r, "handler") /\ (Goto(r, "commit") \/ Goto(r, "settle") \/ Goto(r, "release"))
  BY <1>1, <1>2, <1>5, GotoKeeps DEF ReqInv
<1>6. CASE At(r, "settle") /\ Goto(r, "publish")
  BY <1>1, <1>2, <1>6, GotoKeeps DEF ReqInv
<1>7. CASE At(r, "settle") /\ FailSettlement(r)
  BY <1>1, <1>2, <1>7, GotoKeeps DEF ReqInv, FailSettlement
<1>. QED
  BY <1>3, <1>4, <1>5, <1>6, <1>7 DEF Admit, HandlerReturns, HandlerFails, HandlerDeclines, Settle

LEMMA FailSettlementKeeps ==
  ASSUME ReplayInv, NEW r \in Requests, At(r, "publish"), FailSettlement(r),
         UNCHANGED <<rows, reclaimed, epoch>>
  PROVE  ReplayInv'
<1>. USE DEF Active, Over, Holding, Idle, At, Engaged, EngagedState
<1>1. ReqInv(r)
  BY DEF ReplayInv
<1>. QED
  BY <1>1, GotoKeeps DEF ReqInv, FailSettlement

\* The ways a COMMIT may end.
LEMMA CommitsKeep ==
  ASSUME ReplayInv, NEW r \in Requests, Commits(r) \/ CommitAmbiguous(r) \/ Crash(r)
  PROVE  ReplayInv'
<1>1. PICK pc \in {"settle", "stuck"}, done \in BOOLEAN :
        /\ reqs' = [reqs EXCEPT ![r].pc = pc, ![r].effect = done]
        /\ pc = "settle" => At(r, "commit")
        /\ done => reqs[r].effect \/ At(r, "commit")
  <2>1. CASE Commits(r)
    BY <2>1 DEF Commits
  <2>2. CASE CommitAmbiguous(r)
    BY <2>2 DEF CommitAmbiguous
  <2>3. CASE Crash(r)
    <3>1. PICK committed \in BOOLEAN :
            /\ committed => At(r, "commit")
            /\ reqs' = [reqs EXCEPT ![r].pc = "stuck", ![r].effect = reqs[r].effect \/ committed]
      BY <2>3 DEF Crash
    <3>2. (reqs[r].effect \/ committed) \in BOOLEAN
      OBVIOUS
    <3>. QED
      BY <3>1, <3>2
  <2>. QED
    BY <2>1, <2>2, <2>3
<1>2. UNCHANGED <<rows, reclaimed, epoch>> /\ reqs[r].pc \in Active
  BY DEF Commits, CommitAmbiguous, Crash, Active, At
<1>. DEFINE q == [reqs[r] EXCEPT !.pc = pc, !.effect = done]
<1>3. reqs[r] \in Request /\ ReqInv(r)
  BY DEF ReplayInv, TypeOK
<1>4. q \in Request /\ reqs' = [reqs EXCEPT ![r] = q]
  BY <1>1, <1>3 DEF Request, Active, Over, ReplayInv, TypeOK
<1>5. q.pc = pc /\ q.effect = done /\ q.told = reqs[r].told
  BY <1>3 DEF Request
<1>. HIDE DEF q
<1>6. MayMove(r, q)
  BY <1>1, <1>2, <1>3, <1>4, <1>5
     DEF MayMove, ReqInv, Active, Holding, Idle, At, Engaged, EngagedState
<1>. QED
  BY <1>2, <1>4, <1>6, MoveKeeps

-----------------------------------------------------------------------------
(* Steps that change the rows *)

LEMMA RetireKeeps ==
  ASSUME ReplayInv, NEW r \in Requests, Retire(r) PROVE ReplayInv'
<1>. USE KeysOfRequests
<1>1. PICK t \in Times :
        LET expired == {k \in Keys : rows[k] # None /\ ~Pending(k) /\ Expires[k] <= t}
        IN /\ rows' = [k \in Keys |-> IF k \in expired THEN None ELSE rows[k]]
           /\ reclaimed' \in {reclaimed} \cup {Expires[k] : k \in expired}
           /\ reclaimed' >= reclaimed /\ \A k \in expired : reclaimed' >= Expires[k]
  BY DEF Retire
<1>2. \A k \in Keys : \/ rows'[k] = rows[k]
                        \/ /\ rows[k] # None /\ ~Pending(k)
                           /\ rows'[k] = None /\ reclaimed' >= Expires[k]
  BY <1>1
<1>3. reclaimed' \in Nat /\ reclaimed' >= reclaimed /\ reclaimed \in Nat
  BY <1>1, TimeAssumption DEF ReplayInv, TypeOK
<1>4. rows' \in [Keys -> Row \cup {None}]
  BY <1>1 DEF ReplayInv, TypeOK
<1>. DEFINE q == [reqs[r] EXCEPT !.swept = TRUE]
<1>5. /\ q \in Request
      /\ q.pc = reqs[r].pc /\ q.effect = reqs[r].effect
      /\ q.told = reqs[r].told /\ q.got = reqs[r].got
  BY DEF ReplayInv, TypeOK, Request
<1>11. reqs' = [reqs EXCEPT ![r] = q]
  BY DEF Retire
<1>. HIDE DEF q
<1>6. /\ reqs' \in [Requests -> Request]
      /\ \A s \in Requests : /\ reqs'[s].pc = reqs[s].pc /\ reqs'[s].effect = reqs[s].effect
                              /\ reqs'[s].told = reqs[s].told /\ reqs'[s].got = reqs[s].got
  BY <1>5, <1>11 DEF ReplayInv, TypeOK
<1>7. TypeOK' /\ epoch' = epoch
  BY <1>3, <1>4, <1>6 DEF Retire, ReplayInv, TypeOK
<1>8. ASSUME NEW s \in Requests PROVE ReqInv(s)'
  <2>1. ReqInv(s) /\ KeyOf[s] \in Keys /\ Expires[KeyOf[s]] \in Nat
    BY TimeAssumption DEF ReplayInv
  <2>2. Holds(s) => Holds(s)'
    BY <1>2, <2>1 DEF Holds, RowOf, Pending
  <2>3. ~Closed(KeyOf[s]) => OwnInv(s)'
    BY <1>2, <1>3, <1>6, <1>7, <2>1, <2>2 DEF ReqInv, OwnInv, At, RowOf, Pending, Closed
  <2>. QED
    BY <1>6, <1>7, <2>1, <2>3 DEF ReqInv, At, AnswerOf, Closed
<1>9. ASSUME NEW k \in Keys PROVE RowInv(k)'
  <2>1. RowInv(k) /\ (rows[k] # None => rows[k].owner \in Requests)
    BY DEF ReplayInv, TypeOK, Row
  <2>. QED
    BY <1>2, <1>6, <1>7, <2>1 DEF RowInv, Pending, At, Deleted
<1>10. OneEngaged'
  BY <1>6 DEF ReplayInv, OneEngaged, Engaged, EngagedState
<1>. QED
  BY <1>7, <1>8, <1>9, <1>10 DEF ReplayInv

LEMMA InsertClaimKeeps ==
  ASSUME ReplayInv, NEW r \in Requests, InsertClaim(r) PROVE ReplayInv'
<1>. USE KeysOfRequests
<1>1. PICK slot \in Slots :
        /\ CanInsert(r, slot)
        /\ rows' = [rows EXCEPT ![KeyOf[r]] = [owner |-> r, state |-> "pending", slot |-> slot]]
  BY DEF InsertClaim
<1>2. PICK pc \in {"admit", "release"} : Goto(r, pc)
  BY DEF InsertClaim
<1>. DEFINE q == Moved(r, pc)
            row == [owner |-> r, state |-> "pending", slot |-> slot]
<1>3. /\ q \in Request /\ q.pc = pc
      /\ q.effect = reqs[r].effect /\ q.told = reqs[r].told
  BY MovedIs DEF ReplayInv, Active
<1>4. reqs' = [reqs EXCEPT ![r] = q]
  BY <1>2 DEF Goto
<1>5. row \in Row /\ row # None
  BY <1>1, RowAssumption DEF Row
<1>6. /\ RowOf(r) = None /\ Expires[KeyOf[r]] > reclaimed
      /\ reclaimed \in Nat /\ Expires[KeyOf[r]] \in Nat
      /\ UNCHANGED <<reclaimed, epoch>> /\ At(r, "insert") /\ ReqInv(r)
  BY <1>1, TimeAssumption DEF InsertClaim, CanInsert, ReplayInv, TypeOK
<1>. HIDE DEF q
<1>7. /\ reqs'[r] = q
      /\ \A s \in Requests \ {r} : reqs'[s] = reqs[s]
      /\ rows'[KeyOf[r]] = row
      /\ \A k \in Keys \ {KeyOf[r]} : rows'[k] = rows[k]
  BY <1>1, <1>4 DEF ReplayInv, TypeOK
<1>8. TypeOK'
  BY <1>1, <1>3, <1>4, <1>5, <1>6 DEF ReplayInv, TypeOK
<1>9. ~q.effect /\ q.told = None /\ ~Engaged(r)
  BY <1>3, <1>6 DEF ReqInv, At, Engaged, EngagedState
<1>10. \A s, t \in Requests : AnswerOf(s, t) => AnswerOf(s, t)'
  BY <1>6, <1>7 DEF AnswerOf, At
<1>11. ASSUME NEW s \in Requests PROVE ReqInv(s)'
  <2>1. CASE s = r
    BY <1>2, <1>3, <1>5, <1>7, <1>9, <2>1 DEF ReqInv, OwnInv, At, Holds, RowOf, Pending
  <2>2. CASE s # r
    <3>1. ReqInv(s) /\ KeyOf[s] \in Keys
      BY DEF ReplayInv
    <3>2. ~Closed(KeyOf[s]) => OwnInv(s)'
      <4>1. CASE KeyOf[s] = KeyOf[r]
        BY <1>6, <1>7, <2>2, <3>1, <4>1 DEF ReqInv, OwnInv, At, Holds, RowOf, Pending
      <4>2. CASE KeyOf[s] # KeyOf[r]
        BY <1>6, <1>7, <2>2, <3>1, <4>2 DEF ReqInv, OwnInv, At, Holds, RowOf, Pending
      <4>. QED
        BY <4>1, <4>2
    <3>. QED
      BY <1>6, <1>7, <1>10, <2>2, <3>1, <3>2 DEF ReqInv, At, Closed, AnswerOf
  <2>. QED
    BY <2>1, <2>2
<1>12. ASSUME NEW k \in Keys PROVE RowInv(k)'
  <2>1. CASE k = KeyOf[r]
    BY <1>2, <1>3, <1>5, <1>7, <2>1 DEF RowInv, Pending, Holding, Idle
  <2>2. CASE k # KeyOf[r]
    <3>1. RowInv(k) /\ (rows[k] # None => rows[k].owner \in Requests \ {r})
      BY <2>2 DEF ReplayInv, RowInv, TypeOK, Row
    <3>. QED
      BY <1>6, <1>7, <2>2, <3>1 DEF RowInv, Pending, At, Deleted
  <2>. QED
    BY <2>1, <2>2
<1>13. OneEngaged'
  BY <1>2, <1>3, <1>7, <1>9 DEF ReplayInv, OneEngaged, Engaged, EngagedState
<1>. QED
  BY <1>8, <1>11, <1>12, <1>13 DEF ReplayInv

\* Requests of one token: a claim of one is no claim of another.
LEMMA HoldsAlone ==
  ASSUME NEW r \in Requests, NEW s \in Requests, s # r, KeyOf[s] = KeyOf[r], Holds(r)
  PROVE  ~Holds(s)
  BY DEF Holds, RowOf

LEMMA CommitRowKeeps ==
  ASSUME ReplayInv, NEW r \in Requests, At(r, "publish"), CommitRow(r), Goto(r, "answered"),
         UNCHANGED <<reclaimed, epoch>>
  PROVE  ReplayInv'
<1>. USE KeysOfRequests
<1>. DEFINE q == Moved(r, "answered")
            row == [rows[KeyOf[r]] EXCEPT !.state = "committed", !.slot = None]
<1>1. /\ q \in Request /\ q.pc = "answered"
      /\ q.effect = reqs[r].effect /\ q.told = reqs[r].told
  BY MovedIs DEF ReplayInv, Over
<1>2. reqs' = [reqs EXCEPT ![r] = q]
  BY DEF Goto
<1>3. rows[KeyOf[r]] \in Row /\ rows[KeyOf[r]].owner = r /\ Holds(r)
  BY DEF CommitRow, Holds, Pending, RowOf, ReplayInv, TypeOK
<1>4. row \in Row /\ row # None /\ row.owner = r /\ row.state = "committed"
  <2>1. row \in Row /\ row.owner = r /\ row.state = "committed"
    BY <1>3 DEF Row
  <2>. QED
    BY <2>1, RowAssumption
<1>5. rows' = [rows EXCEPT ![KeyOf[r]] = row]
  BY <1>3 DEF CommitRow, ReplayInv, TypeOK
<1>. HIDE DEF q, row
<1>6. /\ reqs'[r] = q
      /\ \A s \in Requests \ {r} : reqs'[s] = reqs[s]
      /\ rows'[KeyOf[r]] = row
      /\ \A k \in Keys \ {KeyOf[r]} : rows'[k] = rows[k]
  BY <1>2, <1>5 DEF ReplayInv, TypeOK
<1>7. TypeOK'
  BY <1>1, <1>2, <1>4, <1>5 DEF ReplayInv, TypeOK
<1>8. \A s, t \in Requests : AnswerOf(s, t) => AnswerOf(s, t)'
  BY <1>1, <1>6 DEF AnswerOf, At
<1>9. ReqInv(r) /\ Engaged(r)
  BY DEF ReplayInv, Engaged, EngagedState, At
<1>10. ASSUME NEW s \in Requests PROVE ReqInv(s)'
  <2>1. CASE s = r
    BY <1>1, <1>4, <1>6, <1>9, <2>1 DEF ReqInv, OwnInv, At, Holding, RowOf, Pending
  <2>2. CASE s # r
    <3>1. ReqInv(s) /\ KeyOf[s] \in Keys
      BY DEF ReplayInv
    <3>2. ~Closed(KeyOf[s]) => OwnInv(s)'
      <4>1. CASE KeyOf[s] = KeyOf[r]
        <5>1. ~Holds(s) /\ ~Engaged(s)
          BY <1>3, <1>9, <2>2, <4>1, HoldsAlone DEF ReplayInv, OneEngaged
        <5>. QED
          BY <1>6, <2>2, <3>1, <5>1 DEF ReqInv, OwnInv, At, Engaged, EngagedState
      <4>2. CASE KeyOf[s] # KeyOf[r]
        BY <1>6, <2>2, <3>1, <4>2 DEF ReqInv, OwnInv, At, Holds, RowOf, Pending
      <4>. QED
        BY <4>1, <4>2
    <3>. QED
      BY <1>6, <1>8, <2>2, <3>1, <3>2 DEF ReqInv, At, Closed, AnswerOf
  <2>. QED
    BY <2>1, <2>2
<1>11. ASSUME NEW k \in Keys PROVE RowInv(k)'
  <2>1. CASE k = KeyOf[r]
    <3>1. ~Deleted(k)
      BY <1>3, <2>1 DEF ReplayInv, RowInv, At, Idle, Holds, Pending
    <3>. QED
      BY <1>1, <1>4, <1>6, <2>1, <3>1 DEF RowInv, Pending, At, Deleted
  <2>2. CASE k # KeyOf[r]
    <3>1. RowInv(k) /\ (rows[k] # None => rows[k].owner \in Requests \ {r})
      BY <2>2 DEF ReplayInv, RowInv, TypeOK, Row
    <3>. QED
      BY <1>6, <2>2, <3>1 DEF RowInv, Pending, At, Deleted
  <2>. QED
    BY <2>1, <2>2
<1>12. OneEngaged'
  BY <1>1, <1>6, <1>9 DEF ReplayInv, OneEngaged, Engaged, EngagedState
<1>. QED
  BY <1>7, <1>10, <1>11, <1>12 DEF ReplayInv

\* Request r, which is not engaged, gives its claim back and ends at q.
LEMMA ReleaseKeeps ==
  ASSUME ReplayInv, NEW r \in Requests, NEW q \in Request,
         q.pc \in {"failed", "stuck"}, ~q.effect, q.told = None,
         reqs[r].pc \in {"release", "stuck"}, ~reqs[r].effect,
         AbortRow(r), reqs' = [reqs EXCEPT ![r] = q], UNCHANGED <<reclaimed, epoch>>
  PROVE  ReplayInv'
<1>. USE KeysOfRequests
<1>1. /\ reqs'[r] = q
      /\ \A s \in Requests \ {r} : reqs'[s] = reqs[s]
      /\ \A k \in Keys : \/ rows'[k] = rows[k] /\ ~(k = KeyOf[r] /\ Holds(r))
                         \/ k = KeyOf[r] /\ Holds(r) /\ rows'[k] = None
      /\ rows' \in [Keys -> Row \cup {None}]
  BY DEF AbortRow, ReplayInv, TypeOK
<1>2. TypeOK'
  BY <1>1 DEF ReplayInv, TypeOK
<1>3. \A s, t \in Requests : AnswerOf(s, t) => AnswerOf(s, t)'
  BY <1>1 DEF AnswerOf, At
<1>4. ASSUME NEW s \in Requests PROVE ReqInv(s)'
  <2>1. CASE s = r
    BY <1>1, <2>1 DEF ReqInv, OwnInv, At, Holding
  <2>2. CASE s # r
    <3>1. ReqInv(s) /\ KeyOf[s] \in Keys
      BY DEF ReplayInv
    <3>2. ~Closed(KeyOf[s]) => OwnInv(s)'
      <4>1. CASE KeyOf[s] = KeyOf[r] /\ Holds(r)
        <5>1. ~Holds(s)
          BY <2>2, <4>1, HoldsAlone
        <5>. QED
          BY <1>1, <2>2, <3>1, <4>1, <5>1 DEF ReqInv, OwnInv, At, Holds, RowOf, Pending
      <4>2. CASE rows'[KeyOf[s]] = rows[KeyOf[s]]
        BY <1>1, <2>2, <3>1, <4>2 DEF ReqInv, OwnInv, At, Holds, RowOf, Pending
      <4>. QED
        BY <1>1, <3>1, <4>1, <4>2
    <3>. QED
      BY <1>1, <1>3, <2>2, <3>1, <3>2 DEF ReqInv, At, Closed, AnswerOf
  <2>. QED
    BY <2>1, <2>2
<1>5. ASSUME NEW k \in Keys PROVE RowInv(k)'
  <2>1. CASE rows'[k] = None
    BY <2>1 DEF RowInv
  <2>2. CASE rows'[k] # None
    <3>1. /\ RowInv(k) /\ rows'[k] = rows[k] /\ rows[k].owner \in Requests
          /\ ~(k = KeyOf[r] /\ Holds(r))
      BY <1>1, <2>2 DEF ReplayInv, TypeOK, Row
    <3>2. CASE rows[k].owner = r
      BY <2>2, <3>1, <3>2 DEF RowInv, Holds, RowOf, At
    <3>3. CASE rows[k].owner # r
      BY <1>1, <3>1, <3>3 DEF RowInv, Pending, At, Deleted
    <3>. QED
      BY <3>2, <3>3
  <2>. QED
    BY <2>1, <2>2
<1>6. OneEngaged'
  BY <1>1 DEF ReplayInv, OneEngaged, Engaged, EngagedState
<1>. QED
  BY <1>2, <1>4, <1>5, <1>6 DEF ReplayInv

LEMMA AbortKeeps ==
  ASSUME ReplayInv, NEW r \in Requests, Abort(r) PROVE ReplayInv'
<1>. DEFINE q == Moved(r, "failed")
<1>1. /\ q \in Request /\ q.pc = "failed"
      /\ q.effect = reqs[r].effect /\ q.told = reqs[r].told
  BY MovedIs DEF ReplayInv, Over
<1>2. reqs' = [reqs EXCEPT ![r] = q] /\ AbortRow(r) /\ UNCHANGED <<reclaimed, epoch>>
  BY DEF Goto, Abort
<1>3. reqs[r].pc = "release" /\ ~reqs[r].effect /\ reqs[r].told = None
  BY DEF Abort, At, ReplayInv, ReqInv
<1>. HIDE DEF q
<1>. QED
  BY <1>1, <1>2, <1>3, ReleaseKeeps

LEMMA OperatorReleaseKeeps ==
  ASSUME ReplayInv, NEW r \in Requests, OperatorRelease(r) PROVE ReplayInv'
<1>1. /\ reqs[r] \in Request /\ reqs[r].pc = "stuck" /\ ~reqs[r].effect /\ reqs[r].told = None
      /\ AbortRow(r) /\ UNCHANGED <<reclaimed, epoch>>
  BY DEF OperatorRelease, At, ReplayInv, TypeOK, ReqInv
<1>2. reqs' = [reqs EXCEPT ![r] = reqs[r]]
  BY DEF OperatorRelease, ReplayInv, TypeOK
<1>. QED
  BY <1>1, <1>2, ReleaseKeeps

\* The epoch ends, its rows are deleted, the absence probe.
LEMMA ErasureKeeps ==
  ASSUME ReplayInv, EndEpoch \/ EraseRows \/ Probe PROVE ReplayInv'
<1>. USE KeysOfRequests
<1>1. /\ UNCHANGED <<reclaimed, reqs>> /\ epoch' # "open" /\ epoch' \in Epochs
      /\ rows' \in [Keys -> Row \cup {None}]
      /\ \A k \in Keys : \/ rows'[k] = rows[k]
                         \/ k \in Owned /\ rows'[k] = None /\ epoch' = "deleted"
      /\ \A k \in Keys : Closed(k) => Closed(k)'
  BY DEF EndEpoch, EraseRows, Probe, Epochs, ReplayInv, TypeOK, Closed
<1>2. \A k \in Keys : rows'[k] # None /\ Deleted(k)' => Deleted(k)
  BY DEF EndEpoch, EraseRows, Probe, Deleted
<1>3. TypeOK'
  BY <1>1 DEF ReplayInv, TypeOK
<1>4. ASSUME NEW s \in Requests PROVE ReqInv(s)'
  <2>1. ReqInv(s) /\ KeyOf[s] \in Keys
    BY DEF ReplayInv
  <2>2. ~Closed(KeyOf[s])' => rows'[KeyOf[s]] = rows[KeyOf[s]] /\ ~Closed(KeyOf[s])
    BY <1>1, <2>1 DEF Closed
  <2>. QED
    BY <1>1, <2>1, <2>2 DEF ReqInv, OwnInv, At, AnswerOf, Holds, RowOf, Pending
<1>5. ASSUME NEW k \in Keys PROVE RowInv(k)'
  <2>1. RowInv(k)
    BY DEF ReplayInv
  <2>. QED
    BY <1>1, <1>2, <2>1 DEF RowInv, Pending, At
<1>6. OneEngaged'
  BY <1>1 DEF ReplayInv, OneEngaged, Engaged, EngagedState
<1>. QED
  BY <1>3, <1>4, <1>5, <1>6 DEF ReplayInv

-----------------------------------------------------------------------------
(* The invariant, and what follows from it *)

LEMMA PublishKeeps ==
  ASSUME ReplayInv, NEW r \in Requests, Publish(r) PROVE ReplayInv'
<1>1. CASE CommitRow(r) /\ Goto(r, "answered")
  BY <1>1, CommitRowKeeps DEF Publish
<1>2. CASE UNCHANGED rows /\ FailSettlement(r)
  BY <1>2, FailSettlementKeeps DEF Publish
<1>. QED
  BY <1>1, <1>2 DEF Publish

LEMMA NextReplayInv ==
  ASSUME ReplayInv, [Next]_vars PROVE ReplayInv'
<1>1. CASE UNCHANGED vars
  <2>1. UNCHANGED <<rows, reclaimed, epoch, reqs>>
    BY <1>1 DEF vars
  <2>. QED
    BY <2>1 DEF ReplayInv, TypeOK, ReqInv, OwnInv, RowInv, OneEngaged, Engaged, AnswerOf,
                At, Holds, RowOf, Pending, Closed, Deleted
<1>2. ASSUME NEW r \in Requests, Step(r) PROVE ReplayInv'
  BY <1>2, ShortSeeksKeep, RetireKeeps, SendInsertKeeps, InsertClaimKeeps, FindKeeps, MissKeeps,
     VerifyKeeps, RunsKeep, CommitsKeep, PublishKeeps, AbortKeeps DEF Step
<1>3. ASSUME NEW r \in Requests, Crash(r) PROVE ReplayInv'
  BY <1>3, CommitsKeep
<1>4. ASSUME NEW r \in Requests, OperatorRelease(r) PROVE ReplayInv'
  BY <1>4, OperatorReleaseKeeps
<1>5. CASE EndEpoch \/ EraseRows \/ Probe
  BY <1>5, ErasureKeeps
<1>. QED
  BY <1>1, <1>2, <1>3, <1>4, <1>5 DEF Next

\* The inductive invariant of the replay lifecycle: at most one engaged request
\* per token, and what rows, watermark and epoch know of it (reserveReplayBeforeRun
\* with the statements of postgres-replay.ts).
THEOREM ReplayInvHolds == Spec => []ReplayInv
<1>1. Init => ReplayInv
  BY InitReplayInv
<1>2. ReplayInv /\ [Next]_vars => ReplayInv'
  BY NextReplayInv
<1>. QED
  BY <1>1, <1>2, PTL DEF Spec

\* Rows, watermark, epoch and requests stay well formed.
THEOREM ReplayTypeCorrect == Spec => []TypeOK
<1>1. ReplayInv => TypeOK
  BY DEF ReplayInv
<1>. QED
  BY <1>1, ReplayInvHolds, PTL

LEMMA AnyOfIs ==
  ASSUME NEW S, \A r, s \in S : r = s
  PROVE  /\ \A r \in S : AnyOf(S) = r
         /\ AnyOf(S) # None => S # {}
<1>1. S # {} => (CHOOSE r \in S : TRUE) \in S
  OBVIOUS
<1>. QED
  BY <1>1 DEF AnyOf

\* The answer of a token is the one request of it that is "answered".
LEMMA AnswersAre ==
  ASSUME ReplayInv, NEW k \in Keys
  PROVE  /\ \A r \in Requests : KeyOf[r] = k /\ At(r, "answered") => Answers[k] = r
         /\ Answers[k] # None => \E r \in Requests : KeyOf[r] = k /\ At(r, "answered")
<1>1. \A r, s \in Answered(k) : r = s
  BY DEF ReplayInv, OneEngaged, Engaged, EngagedState, At, Answered
<1>2. Answers[k] = AnyOf(Answered(k))
  BY DEF Answers
<1>. QED
  BY <1>1, <1>2, AnyOfIs DEF Answered

\* No token has two effects, and the kept answer is that of its effect: for any
\* requests, clocks, crashes, reclaimed and erased rows.
THEOREM EffectsHappenOnce == Spec => []EffectsOnce
<1>1. ASSUME ReplayInv PROVE EffectsOnce
  <2>1. SUFFICES ASSUME NEW k \in Keys
                 PROVE  /\ \A r, s \in Effects[k] : r = s
                        /\ Answers[k] # None => Effects[k] \subseteq {Answers[k]}
    BY DEF EffectsOnce, Once!EffectsOnce
  <2>2. Effects[k] = {r \in Requests : KeyOf[r] = k /\ reqs[r].effect}
    BY DEF Effects
  <2>3. \A r, s \in Effects[k] : r = s
    BY <1>1, <2>2 DEF ReplayInv, OneEngaged, Engaged, EngagedState
  <2>4. ASSUME Answers[k] # None PROVE Effects[k] \subseteq {Answers[k]}
    <3>1. PICK r \in Requests : KeyOf[r] = k /\ At(r, "answered") /\ Answers[k] = r
      BY <1>1, <2>4, AnswersAre
    <3>. QED
      BY <1>1, <2>2, <3>1 DEF ReplayInv, OneEngaged, Engaged, EngagedState, At
  <2>. QED
    BY <2>3, <2>4
<1>. QED
  BY <1>1, ReplayInvHolds, PTL

\* Two requests that are answered for one token are given one answer, that of
\* the effect.
THEOREM RepliesAlwaysAgree == Spec => []Once!RepliesAgree
<1>1. ReplayInv => Once!RepliesAgree
  BY KeysOfRequests, AnswersAre DEF ReplayInv, ReqInv, AnswerOf, Once!RepliesAgree, Told
<1>. QED
  BY <1>1, ReplayInvHolds, PTL

\* A claim outlives its request only as "stuck" (the aborts of mutation.ts).
THEOREM ClaimsAreReleased == Spec => []ClaimsReleased
<1>1. ReplayInv => ClaimsReleased
  BY KeysOfRequests DEF ReplayInv, RowInv, ClaimsReleased, Holds, RowOf, Holding, Active, Pending
<1>. QED
  BY <1>1, ReplayInvHolds, PTL

\* No effect is forgotten while its token could still be admitted.
THEOREM EffectsStayRemembered == Spec => []EffectsRemembered
<1>1. ASSUME ReplayInv PROVE EffectsRemembered
  <2>. SUFFICES ASSUME NEW r \in Requests, reqs[r].effect, EpochFresh(r)
                PROVE  \/ RowOf(r) # None /\ RowOf(r).owner = r
                       \/ reclaimed >= Expires[KeyOf[r]]
    BY DEF EffectsRemembered
  <2>1. ~Closed(KeyOf[r])
    BY DEF EpochFresh, Closed
  <2>2. OwnInv(r)
    BY <1>1, <2>1 DEF ReplayInv, ReqInv
  <2>3. CASE At(r, "answered")
    <3>1. reclaimed \in Nat /\ Expires[KeyOf[r]] \in Nat
      BY <1>1, KeysOfRequests, TimeAssumption DEF ReplayInv, TypeOK
    <3>. QED
      BY <2>2, <2>3, <3>1 DEF OwnInv
  <2>4. CASE ~At(r, "answered")
    BY <2>2, <2>4 DEF OwnInv, Holds, Pending, RowOf
  <2>. QED
    BY <2>3, <2>4
<1>. QED
  BY <1>1, ReplayInvHolds, PTL

\* Whoever is refused, fails or is told the answer of another request has no effect.
THEOREM FailuresNeverChange == Spec => []FailuresChangeNothing
<1>1. ReplayInv => FailuresChangeNothing
  BY DEF ReplayInv, ReqInv, FailuresChangeNothing
<1>. QED
  BY <1>1, ReplayInvHolds, PTL

\* After the receipt the principal has no answer, and no claim on the way to one.
THEOREM ErasureHolds == Spec => []ErasedStaysErased
<1>1. ReplayInv => ErasedStaysErased
  BY KeyAssumption DEF ReplayInv, RowInv, ErasedStaysErased, OwnedRows, Deleted, Idle
<1>. QED
  BY <1>1, ReplayInvHolds, PTL

-----------------------------------------------------------------------------
(* The refinement of OnceOnly *)

\* A step that neither takes effect nor answers nor tells.
Silent ==
    \A s \in Requests : /\ reqs'[s].effect = reqs[s].effect
                        /\ reqs'[s].told = reqs[s].told
                        /\ reqs'[s].pc = "answered" <=> reqs[s].pc = "answered"

LEMMA SilentStutters ==
  ASSUME Silent PROVE UNCHANGED <<Effects, Answers, Told>>
<1>1. Told' = Told
  BY DEF Silent, Told
<1>2. Effects' = Effects
  <2>1. \A k \in Keys : {r \in Requests : KeyOf[r] = k /\ reqs'[r].effect}
                       = {r \in Requests : KeyOf[r] = k /\ reqs[r].effect}
    BY DEF Silent
  <2>. QED
    BY <2>1 DEF Effects
<1>3. Answers' = Answers
  <2>1. \A k \in Keys : Answered(k)' = Answered(k)
    BY DEF Silent, Answered, At
  <2>. QED
    BY <2>1 DEF Answers
<1>. QED
  BY <1>1, <1>2, <1>3

\* Request r moves to q, which is not "answered": the step is silent, if effect
\* and told stay.
LEMMA MoveIsSilent ==
  ASSUME TypeOK, NEW r \in Requests, NEW q, reqs' = [reqs EXCEPT ![r] = q],
         q.effect = reqs[r].effect, q.told = reqs[r].told,
         q.pc # "answered", ~At(r, "answered")
  PROVE  Silent
  BY DEF Silent, TypeOK, At

LEMMA GotoIsSilent ==
  ASSUME TypeOK, NEW r \in Requests, NEW pc \in (Active \cup Over) \ {"answered"},
         Goto(r, pc), reqs[r].pc \in Active
  PROVE  Silent
<1>. DEFINE q == Moved(r, pc)
<1>1. /\ q.pc = pc /\ q.effect = reqs[r].effect /\ q.told = reqs[r].told
  BY MovedIs
<1>2. reqs' = [reqs EXCEPT ![r] = q] /\ ~At(r, "answered")
  BY DEF Goto, At, Active
<1>. HIDE DEF q
<1>. QED
  BY <1>1, <1>2, MoveIsSilent

\* Statements that only read, and the notes a request takes of them.
LEMMA NotesAreSilent ==
  ASSUME TypeOK, NEW r \in Requests,
         Retire(r) \/ SendInsert(r) \/ Find(r) \/ FindNothing(r) \/ StopWaiting(r)
  PROVE  Silent
<1>1. /\ reqs[r] \in Request /\ reqs \in [Requests -> Request]
      /\ reqs[r].pc \in {"read", "reserve", "join"}
  BY DEF TypeOK, Retire, SendInsert, Find, FindNothing, StopWaiting, Looking, At
<1>2. CASE Retire(r)
  <2>. DEFINE q == [reqs[r] EXCEPT !.swept = TRUE]
  <2>1. /\ reqs' = [reqs EXCEPT ![r] = q] /\ q.pc = reqs[r].pc
        /\ q.effect = reqs[r].effect /\ q.told = reqs[r].told
    BY <1>1, <1>2 DEF Retire, Request
  <2>. HIDE DEF q
  <2>. QED
    BY <1>1, <2>1, MoveIsSilent DEF At
<1>3. CASE SendInsert(r)
  <2>. DEFINE q == [reqs[r] EXCEPT !.pc = "insert", !.swept = FALSE, !.busy = TakenSlots]
  <2>1. /\ reqs' = [reqs EXCEPT ![r] = q] /\ q.pc = "insert"
        /\ q.effect = reqs[r].effect /\ q.told = reqs[r].told
    BY <1>1, <1>3 DEF SendInsert, Request
  <2>. HIDE DEF q
  <2>. QED
    BY <1>1, <2>1, MoveIsSilent DEF At
<1>4. CASE Find(r)
  <2>. DEFINE q == [reqs[r] EXCEPT !.pc = "verify", !.got = RowOf(r).owner, !.swept = FALSE]
  <2>1. /\ reqs' = [reqs EXCEPT ![r] = q] /\ q.pc = "verify"
        /\ q.effect = reqs[r].effect /\ q.told = reqs[r].told
    BY <1>1, <1>4 DEF Find, Request
  <2>. HIDE DEF q
  <2>. QED
    BY <1>1, <2>1, MoveIsSilent DEF At
<1>5. CASE FindNothing(r) \/ StopWaiting(r)
  <2>. DEFINE q == [reqs[r] EXCEPT !.pc = AfterMiss(r), !.swept = FALSE,
                                   !.attempt = IF At(r, "join") THEN 2 ELSE @]
  <2>1. /\ reqs' = [reqs EXCEPT ![r] = q] /\ q.pc = AfterMiss(r)
        /\ q.effect = reqs[r].effect /\ q.told = reqs[r].told
    BY <1>1, <1>5 DEF FindNothing, StopWaiting, Miss, Request
  <2>2. AfterMiss(r) # "answered"
    BY DEF AfterMiss
  <2>. HIDE DEF q
  <2>. QED
    BY <1>1, <2>1, <2>2, MoveIsSilent DEF At
<1>. QED
  BY <1>2, <1>3, <1>4, <1>5

\* A request that commits has its effect, alone among those of its token.
LEMMA EffectRefines ==
  ASSUME ReplayInv, NEW r \in Requests, At(r, "commit"),
         NEW q, reqs' = [reqs EXCEPT ![r] = q],
         q.effect, q.told = reqs[r].told, q.pc # "answered"
  PROVE  Once!TakeEffect(r)
<1>. USE KeysOfRequests
<1>. DEFINE k == KeyOf[r]
<1>1. /\ reqs'[r] = q
      /\ \A s \in Requests \ {r} : reqs'[s] = reqs[s]
  BY DEF ReplayInv, TypeOK
<1>2. Engaged(r) /\ ~reqs[r].effect
  BY DEF ReplayInv, ReqInv, Engaged, EngagedState, At
<1>3. \A s \in Requests : KeyOf[s] = k => ~reqs[s].effect /\ ~At(s, "answered")
  BY <1>2 DEF ReplayInv, OneEngaged, Engaged, EngagedState, At
<1>4. Effects[k] = {} /\ Answers[k] = None
  BY <1>3, AnswersAre DEF Effects
<1>5. Effects' = [Effects EXCEPT ![k] = {r}]
  <2>1. \A j \in Keys : {s \in Requests : KeyOf[s] = j /\ reqs'[s].effect}
          = IF j = k THEN {r} ELSE {s \in Requests : KeyOf[s] = j /\ reqs[s].effect}
    BY <1>1, <1>3
  <2>. QED
    BY <2>1 DEF Effects
<1>6. Answers' = Answers
  <2>1. \A j \in Keys : Answered(j)' = Answered(j)
    BY <1>1 DEF Answered, At
  <2>. QED
    BY <2>1 DEF Answers
<1>7. Told' = Told
  BY <1>1 DEF Told
<1>. QED
  BY <1>4, <1>5, <1>6, <1>7 DEF Once!TakeEffect

\* The row that is committed makes its request the answer of the token.
LEMMA AnswerRefines ==
  ASSUME ReplayInv, ReplayInv', NEW r \in Requests, At(r, "publish"), Goto(r, "answered")
  PROVE  Once!Answer(r)
<1>. USE KeysOfRequests
<1>. DEFINE k == KeyOf[r]
            q == Moved(r, "answered")
<1>1. q.pc = "answered" /\ q.effect = reqs[r].effect /\ q.told = reqs[r].told
  BY MovedIs DEF ReplayInv, Over
<1>2. reqs' = [reqs EXCEPT ![r] = q]
  BY DEF Goto
<1>. HIDE DEF q
<1>3. /\ reqs'[r] = q
      /\ \A s \in Requests \ {r} : reqs'[s] = reqs[s]
  BY <1>2 DEF ReplayInv, TypeOK
<1>4. \A s \in Requests : KeyOf[s] = k /\ Engaged(s) => s = r
  BY DEF ReplayInv, OneEngaged, Engaged, EngagedState, At
<1>5. Answers[k] = None /\ Effects[k] \subseteq {r}
  BY <1>4, AnswersAre DEF Engaged, EngagedState, At, Effects
<1>6. Answers' = [Answers EXCEPT ![k] = r]
  <2>1. AnyOf({r}) = r
    BY AnyOfIs
  <2>2. Answered(k)' = {r}
    BY <1>1, <1>3, <1>4 DEF Answered, At, Engaged, EngagedState
  <2>3. \A j \in Keys \ {k} : Answered(j)' = Answered(j)
    BY <1>3 DEF Answered, At
  <2>. QED
    BY <2>1, <2>2, <2>3 DEF Answers
<1>7. Effects' = Effects
  <2>1. \A j \in Keys : {s \in Requests : KeyOf[s] = j /\ reqs'[s].effect}
                       = {s \in Requests : KeyOf[s] = j /\ reqs[s].effect}
    BY <1>1, <1>3
  <2>. QED
    BY <2>1 DEF Effects
<1>8. Told' = Told
  BY <1>1, <1>3 DEF Told
<1>. QED
  BY <1>5, <1>6, <1>7, <1>8 DEF Once!Answer

\* A retry is told what its token was answered.
LEMMA TellRefines ==
  ASSUME ReplayInv, NEW r \in Requests, At(r, "verify"),
         NEW q, reqs' = [reqs EXCEPT ![r] = q],
         q.pc = "replayed", q.told = reqs[r].got, q.effect = reqs[r].effect
  PROVE  Once!Tell(r)
<1>. USE KeysOfRequests
<1>1. /\ reqs[r] \in Request /\ reqs \in [Requests -> Request]
      /\ AnswerOf(reqs[r].got, r) /\ reqs[r].told = None
  BY DEF ReplayInv, TypeOK, ReqInv, At
<1>2. /\ reqs'[r].pc = "replayed" /\ reqs'[r].told = reqs[r].got
      /\ reqs'[r].effect = reqs[r].effect
      /\ \A s \in Requests \ {r} : reqs'[s] = reqs[s]
  BY <1>1 DEF Request
<1>3. Answers[KeyOf[r]] = reqs[r].got /\ reqs[r].got # None
  BY <1>1, AnswersAre, KeyAssumption DEF AnswerOf
<1>4. Told' = [Told EXCEPT ![r] = Answers[KeyOf[r]]]
  <2>1. \A s \in Requests : reqs'[s].told = IF s = r THEN Answers[KeyOf[r]] ELSE reqs[s].told
    BY <1>2, <1>3
  <2>. QED
    BY <2>1 DEF Told
<1>5. Effects' = Effects
  <2>1. \A j \in Keys : {s \in Requests : KeyOf[s] = j /\ reqs'[s].effect}
                       = {s \in Requests : KeyOf[s] = j /\ reqs[s].effect}
    BY <1>2
  <2>. QED
    BY <2>1 DEF Effects
<1>6. Answers' = Answers
  <2>1. \A j \in Keys : Answered(j)' = Answered(j)
    BY <1>2 DEF Answered, At
  <2>. QED
    BY <2>1 DEF Answers
<1>. QED
  BY <1>1, <1>3, <1>4, <1>5, <1>6 DEF Once!Tell, Told

LEMMA CommitsRefine ==
  ASSUME ReplayInv, NEW r \in Requests, Commits(r) \/ CommitAmbiguous(r) \/ Crash(r)
  PROVE  Silent \/ Once!TakeEffect(r)
<1>1. PICK pc \in {"settle", "stuck"}, done \in BOOLEAN :
        /\ reqs' = [reqs EXCEPT ![r].pc = pc, ![r].effect = done]
        /\ done => reqs[r].effect \/ At(r, "commit")
        /\ reqs[r].effect => done
  <2>1. ~At(r, "commit") \/ ~reqs[r].effect
    BY DEF ReplayInv, ReqInv, At
  <2>2. CASE Commits(r)
    BY <2>1, <2>2 DEF Commits
  <2>3. CASE CommitAmbiguous(r)
    BY <2>1, <2>3 DEF CommitAmbiguous
  <2>4. CASE Crash(r)
    <3>1. PICK committed \in BOOLEAN :
            /\ committed => At(r, "commit")
            /\ reqs' = [reqs EXCEPT ![r].pc = "stuck", ![r].effect = reqs[r].effect \/ committed]
      BY <2>4 DEF Crash
    <3>2. (reqs[r].effect \/ committed) \in BOOLEAN
      OBVIOUS
    <3>. QED
      BY <3>1, <3>2
  <2>. QED
    BY <2>2, <2>3, <2>4
<1>. DEFINE q == [reqs[r] EXCEPT !.pc = pc, !.effect = done]
<1>2. /\ reqs[r] \in Request /\ reqs[r].effect \in BOOLEAN
      /\ reqs' = [reqs EXCEPT ![r] = q] /\ ~At(r, "answered")
  BY <1>1 DEF ReplayInv, TypeOK, Request, Commits, CommitAmbiguous, Crash, At, Active
<1>3. q.pc = pc /\ q.effect = done /\ q.told = reqs[r].told
  BY <1>2 DEF Request
<1>. HIDE DEF q
<1>4. CASE done = reqs[r].effect
  BY <1>2, <1>3, <1>4, MoveIsSilent DEF ReplayInv
<1>5. CASE done /\ At(r, "commit")
  BY <1>2, <1>3, <1>5, EffectRefines
<1>. QED
  BY <1>1, <1>2, <1>4, <1>5

LEMMA StepRefines ==
  ASSUME ReplayInv, ReplayInv', NEW r \in Requests, Step(r) \/ Crash(r)
  PROVE  Silent \/ Once!TakeEffect(r) \/ Once!Answer(r) \/ Once!Tell(r)
<1>1. TypeOK
  BY DEF ReplayInv
<1>2. CASE Commits(r) \/ CommitAmbiguous(r) \/ Crash(r)
  BY <1>2, CommitsRefine
<1>3. CASE Retire(r) \/ SendInsert(r) \/ Find(r) \/ FindNothing(r) \/ StopWaiting(r)
  BY <1>1, <1>3, NotesAreSilent
<1>4. CASE Publish(r)
  <2>1. CASE Goto(r, "answered")
    BY <1>4, <2>1, AnswerRefines DEF Publish
  <2>2. CASE FailSettlement(r)
    BY <1>1, <1>4, <2>2, GotoIsSilent DEF Publish, FailSettlement, At, Active, Over
  <2>. QED
    BY <1>4, <2>1, <2>2 DEF Publish
<1>5. CASE Verify(r)
  <2>1. CASE Goto(r, "failed")
    BY <1>1, <1>5, <2>1, GotoIsSilent DEF Verify, At, Active, Over
  <2>2. CASE reqs' = [reqs EXCEPT ![r].pc = "replayed", ![r].told = reqs[r].got, ![r].got = None]
    <3>. DEFINE q == [reqs[r] EXCEPT !.pc = "replayed", !.told = reqs[r].got, !.got = None]
    <3>1. /\ reqs' = [reqs EXCEPT ![r] = q]
          /\ q.pc = "replayed" /\ q.told = reqs[r].got /\ q.effect = reqs[r].effect
      BY <1>1, <2>2 DEF TypeOK, Request
    <3>. HIDE DEF q
    <3>. QED
      BY <1>5, <3>1, TellRefines DEF Verify
  <2>. QED
    BY <1>5, <2>1, <2>2 DEF Verify
<1>6. CASE \/ Bind(r) \/ GoStale(r) \/ InsertRefused(r) \/ Peek(r) \/ FindConflict(r)
           \/ InsertClaim(r) \/ Admit(r) \/ HandlerReturns(r) \/ HandlerFails(r)
           \/ HandlerDeclines(r) \/ Settle(r) \/ Abort(r)
  <2>1. \E pc \in {"read", "reserve", "peek", "join", "admit", "release", "handler", "commit",
                   "settle", "publish", "stuck", "failed"} : Goto(r, pc)
    BY <1>6 DEF Bind, GoStale, InsertRefused, Peek, FindConflict, InsertClaim, Admit,
                HandlerReturns, HandlerFails, HandlerDeclines, Settle, Abort, FailSettlement
  <2>2. reqs[r].pc \in Active
    BY <1>6 DEF Bind, GoStale, InsertRefused, Peek, FindConflict, InsertClaim, Admit, Looking,
                HandlerReturns, HandlerFails, HandlerDeclines, Settle, Abort, At, Active
  <2>. QED
    BY <1>1, <2>1, <2>2, GotoIsSilent DEF Active, Over
<1>. QED
  BY <1>2, <1>3, <1>4, <1>5, <1>6 DEF Step

LEMMA NextRefines ==
  ASSUME ReplayInv, ReplayInv', [Next]_vars
  PROVE  [Once!OnceNext]_<<Effects, Answers, Told>>
<1>1. CASE UNCHANGED reqs
  BY <1>1, SilentStutters DEF Silent
<1>2. ASSUME NEW r \in Requests, Step(r) \/ Crash(r)
      PROVE  [Once!OnceNext]_<<Effects, Answers, Told>>
  BY <1>2, StepRefines, SilentStutters DEF Once!OnceNext
<1>. QED
  BY <1>1, <1>2 DEF Next, vars, OperatorRelease, EndEpoch, EraseRows, Probe

LEMMA InitRefines == Init => Once!OnceInit
<1>. SUFFICES ASSUME Init PROVE Once!OnceInit
  OBVIOUS
<1>1. \A r \in Requests : ~reqs[r].effect /\ reqs[r].told = None /\ ~At(r, "answered")
  BY DEF Init, New, At
<1>2. \A k \in Keys : Answered(k) = {}
  BY <1>1 DEF Answered
<1>. QED
  BY <1>1, <1>2 DEF Once!OnceInit, Effects, Answers, AnyOf, Told

\* The lifecycle over the Postgres store implements what replay promises: every
\* step is an effect, an answer, a retry that is told the answer, or none of them.
THEOREM ReplayImplementsOnce == Spec => OnceImplemented
<1>1. Init => Once!OnceInit
  BY InitRefines
<1>2. ReplayInv /\ ReplayInv' /\ [Next]_vars => [Once!OnceNext]_(Once!onceVars)
  BY NextRefines DEF Once!onceVars
<1>. QED
  BY <1>1, <1>2, ReplayInvHolds, PTL DEF Spec, OnceImplemented, Once!OnceSpec
=============================================================================
