---------------------------- MODULE MCTaskQueue ----------------------------
(***************************************************************************)
(* The job table under its most general client: two tasks, one logical     *)
(* key, one keyed task scheduled with both coalescing modes and with two   *)
(* retry ceilings (a rolling deployment), one unkeyed task.                *)
(***************************************************************************)
EXTENDS TaskQueue, TLC

CONSTANTS j1, j2, mail, report, k1, pid1, alice, nobody, nokey, noowner,
          first, second

MCCeiling == [t \in {mail, report} |-> IF t = mail THEN 2 ELSE 1]

MailInput(args, coalesce, due, maxAttempts) ==
    [task |-> mail, key |-> k1, coalesce |-> coalesce, args |-> args,
     due |-> due, maxAttempts |-> maxAttempts]

MCInputs ==
    { MailInput(first, "debounce", TRUE, 2),
      MailInput(second, "debounce", FALSE, 1),
      MailInput(second, "throttle", TRUE, 2),
      [task |-> report, key |-> nokey, coalesce |-> "debounce",
       args |-> first, due |-> TRUE, maxAttempts |-> 1] }

Symmetric == Permutations({j1, j2})

=============================================================================
