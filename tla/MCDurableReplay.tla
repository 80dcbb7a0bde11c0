--------------------------- MODULE MCDurableReplay ---------------------------
(* Instances of DurableReplay for TLC: a and b retry one token, d reuses it  *)
(* with another input, c has a token of its own.                             *)
EXTENDS DurableReplay

CONSTANTS a, b, c, d, k, m

MCKeyOf == [r \in Requests |-> IF r = c THEN m ELSE k]
MCPrint == [r \in Requests |-> IF r = d THEN 2 ELSE 1]
MCExpires == [j \in Keys |-> 1]
=============================================================================
