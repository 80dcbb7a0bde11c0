---------------------------- MODULE MCTaskRunner ----------------------------
(***************************************************************************)
(* Two nodes that share one owner string draining two jobs.                *)
(***************************************************************************)
EXTENDS TaskRunner, TLC

CONSTANTS j1, j2, r1, r2, mail, report, k1, pid1, alice, nobody, nokey,
          noowner, first, second, third

OneOwner == [n \in Nodes |-> pid1]
AllTasks == [n \in Nodes |-> Tasks]

OneEach == [t \in Tasks |-> 1]
TwoEach == [t \in Tasks |-> 2]
ThreeEach == [t \in Tasks |-> 3]
MailTwice == [t \in Tasks |-> IF t = mail THEN 2 ELSE 1]
RetryMail == [n \in Nodes |-> MailTwice]
RetryThree == [n \in Nodes |-> ThreeEach]

Schedules(task, key, args, coalesce, maxAttempts) ==
    [task |-> task, key |-> key, coalesce |-> coalesce, args |-> args,
     due |-> TRUE, maxAttempts |-> maxAttempts]

NoInputs == {}
Unkeyed == { Schedules(mail, nokey, first, "debounce", 2),
             Schedules(report, nokey, first, "debounce", 1) }
Stubborn == { Schedules(mail, nokey, first, "debounce", 3) }
Keyed == { Schedules(mail, k1, first, "throttle", 2) }
Throttled == { Schedules(mail, k1, a, "throttle", 2) : a \in {first, second} }
Chained == { Schedules(report, k1, third, "debounce", 2) }
ThrottledAndChained == Throttled \cup Chained
Rescheduled == { Schedules(mail, k1, a, "debounce", 2) : a \in {first, second} }

Symmetric == Permutations({j1, j2})
SymmetricArgs == Symmetric \cup Permutations({first, second})

\* Two jobs of two attempts, or one job of three, mint at most four tokens.
FairSpec == Spec /\ Fairness(1..4)

=============================================================================
