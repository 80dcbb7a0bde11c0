--------------------------- MODULE OccurrenceOnce ---------------------------
(***************************************************************************)
(* What the materializer of recurring tasks promises of each occurrence    *)
(* (packages/server/src/task-cron.ts): it is taken once and for ever, it   *)
(* gets at most one job and never another one, two occurrences never share *)
(* a job, and what it is bound to is that job.                             *)
(*                                                                         *)
(* This is the abstract specification that TaskCron implements.  It says   *)
(* nothing of nodes, passes, clocks or of what becomes of the jobs.        *)
(***************************************************************************)
CONSTANTS Occurrences, Jobs

VARIABLES
    taken,   \* the occurrences somebody took
    job,     \* a partial function: the job of an occurrence
    named    \* a partial function: the job an occurrence is bound to

onceVars == <<taken, job, named>>

OnceInit ==
    /\ taken = {}
    /\ job = [o \in {} |-> {}]
    /\ named = [o \in {} |-> {}]

Extended(f, o, j) == [p \in DOMAIN f \cup {o} |-> IF p = o THEN j ELSE f[p]]

Take(o) ==
    /\ o \notin taken
    /\ taken' = taken \cup {o}
    /\ UNCHANGED <<job, named>>

Give(o, j) ==
    /\ o \in taken \ DOMAIN job
    /\ \A p \in DOMAIN job : job[p] # j
    /\ job' = Extended(job, o, j)
    /\ UNCHANGED <<taken, named>>

Name(o) ==
    /\ o \in DOMAIN job \ DOMAIN named
    /\ named' = Extended(named, o, job[o])
    /\ UNCHANGED <<taken, job>>

OnceNext ==
    \E o \in Occurrences : Take(o) \/ Name(o) \/ \E j \in Jobs : Give(o, j)

OnceSpec == OnceInit /\ [][OnceNext]_onceVars
=============================================================================
