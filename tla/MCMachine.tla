------------------------------ MODULE MCMachine ------------------------------
(***************************************************************************)
(* An instance of Machine: two calls at a time, two entries, and two URLs  *)
(* whose images have one file name in the cache.                           *)
(***************************************************************************)
EXTENDS Machine, TLC

OneFile == [s \in Source |-> "image"]

OneEach == {{c} : c \in Scope}

\* Caller and Task have the same elements: both are requests to the manager.
Alike == Permutations(Task) \cup Permutations(Name) \cup Permutations(Source)
=============================================================================
