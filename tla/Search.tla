------------------------------- MODULE Search -------------------------------
(***************************************************************************)
(* The two structures of search.c that find by key: the binary tree and    *)
(* the hash table.  They share no state, so a program that uses both is    *)
(* one that uses each of them.                                             *)
(***************************************************************************)
EXTENDS Tree, HashTable

VARIABLE job  \* which of them the program uses

searchVars == <<job, vars, tableVars>>

\* A program that does not hash anything has one hash function: the least.
SearchInit ==
  /\ TableInit
  /\ Init
  /\ \/ job = "table"
     \/ job = "tree" /\ \A d \in Datas, n \in Hashes : hash[d] <= n

SearchNext ==
  /\ \/ job = "table" /\ TableNext /\ UNCHANGED vars
     \/ job = "tree" /\ Next /\ UNCHANGED tableVars
  /\ UNCHANGED job

SearchSpec == SearchInit /\ [][SearchNext]_searchVars
=============================================================================
