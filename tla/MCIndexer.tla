------------------------------ MODULE MCIndexer ------------------------------
(* Two files, a before b in the order of names.  a grows with its versions   *)
(* and b shrinks, so that the order of sizes, the limit of a file and that  *)
(* of the store are all met by some versions and not by others.             *)
EXTENDS Indexer

MCRank == [p \in Paths |-> IF p = "a" THEN 1 ELSE 2]
MCSize == [p \in Paths |-> [v \in 1..MaxVersion |->
               IF p = "a" THEN v ELSE 4 - v]]
ToolsAndMonitor == [c \in Callers |-> IF c = "tool" THEN {"diff"} ELSE {"all", "ensure"}]
WithClear == [c \in Callers |-> IF c = "tool" THEN {"clear"} ELSE {"ensure", "remove", "all"}]
=============================================================================
