------------------------------ MODULE MCLogStore ------------------------------
(***************************************************************************)
(* LogStore for TLC: the query q matches every record but q.               *)
(***************************************************************************)
EXTENDS LogStore

MCMatches(q) == (1..LogSize) \ {q}

=============================================================================
