------------------------------ MODULE MCGitSync ------------------------------
(* One source file and the ignore file of the workspace; everything fits.   *)
EXTENDS GitSync

MCRank == [p \in Paths |-> IF p = "a" THEN 2 ELSE 1]
MCSize == [p \in Paths |-> [v \in 1..MaxVersion |-> 1]]
Flushes == [c \in Callers |-> {"remove", "ensure", "all"}]
=============================================================================
