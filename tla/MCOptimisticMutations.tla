----------------------- MODULE MCOptimisticMutations -----------------------
(***************************************************************************)
(* Instances of OptimisticMutations for TLC.                                *)
(***************************************************************************)
EXTENDS OptimisticMutations

CONSTANTS a, b, c, p, q

\* The writers of p, a and b, wait for each other; those of q, a and c, race.
MCTargets ==
    [m \in Mutations |-> Queries \cap (IF m = a THEN {p, q} ELSE IF m = b THEN {p} ELSE {q})]

\* One transform of a may throw while its other one does not.
MCFragile == {<<a, q>>, <<b, p>>}
=============================================================================
