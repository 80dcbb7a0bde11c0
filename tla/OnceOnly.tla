------------------------------ MODULE OnceOnly ------------------------------
(***************************************************************************)
(* What mutation replay promises to a client that sends one idempotency    *)
(* token several times (spec/10-data-plane.md, replay.ts): whatever stores *)
(* and claims the server keeps, the work of the token is done at most      *)
(* once, the answer kept for it is the answer of the request that did the  *)
(* work, and every retry that is answered is given that answer.            *)
(*                                                                         *)
(* This is the abstract specification that DurableReplay implements.  It   *)
(* says nothing about claims, clocks, rows or who may fail.                *)
(***************************************************************************)
CONSTANTS
    Keys,      \* replay identities: idempotency tokens in their scope
    Requests,
    KeyOf,     \* the token a request carries
    None

VARIABLES
    done,    \* per key, the requests whose transaction took effect
    answer,  \* per key, the request whose answer is its truth
    told     \* per request, the request whose answer it was given as a replay

onceVars == <<done, answer, told>>

OnceTypeOK ==
    /\ done \in [Keys -> SUBSET Requests]
    /\ answer \in [Keys -> Requests \cup {None}]
    /\ told \in [Requests -> Requests \cup {None}]

OnceInit ==
    /\ done = [k \in Keys |-> {}]
    /\ answer = [k \in Keys |-> None]
    /\ told = [r \in Requests |-> None]

\* The work of a token is done only if nothing was done or answered for it.
TakeEffect(r) ==
    /\ done[KeyOf[r]] = {} /\ answer[KeyOf[r]] = None
    /\ done' = [done EXCEPT ![KeyOf[r]] = {r}]
    /\ UNCHANGED <<answer, told>>

\* An answer is final, and is given by the request that did the work, if any.
Answer(r) ==
    /\ answer[KeyOf[r]] = None /\ done[KeyOf[r]] \subseteq {r}
    /\ answer' = [answer EXCEPT ![KeyOf[r]] = r]
    /\ UNCHANGED <<done, told>>

\* A retry is given the answer of its token.
Tell(r) ==
    /\ told[r] = None /\ answer[KeyOf[r]] # None
    /\ told' = [told EXCEPT ![r] = answer[KeyOf[r]]]
    /\ UNCHANGED <<done, answer>>

OnceNext == \E r \in Requests : TakeEffect(r) \/ Answer(r) \/ Tell(r)

OnceSpec == OnceInit /\ [][OnceNext]_onceVars

\* No token has the effect of two requests, and its answer tells of the effect.
EffectsOnce ==
    \A k \in Keys :
        /\ \A r, s \in done[k] : r = s
        /\ answer[k] # None => done[k] \subseteq {answer[k]}

\* Two requests that are answered for one token are given the same answer.
RepliesAgree ==
    \A r \in Requests : told[r] # None => told[r] = answer[KeyOf[r]]
=============================================================================
