------------------------------- MODULE MCApi -------------------------------
(***************************************************************************)
(* An instance of Api: two calls of every kind, one after the other on one *)
(* thread or interleaved on two, each with and without a callback.         *)
(***************************************************************************)
EXTENDS Api, TLC

CONSTANTS t1, t2

(* Every request, the fields that do not matter to the op fixed.           *)
EachRequest ==
    {r \in AllRequests :
        /\ r.op # "convert" => r.reconcile
        /\ r.op \in {"detect", "reconcile_result"} => r.auto /\ r.pages = 1
        /\ r.xlsx => r.op \in {"parse", "convert"} /\ r.pages = 1}

(* The threads differ in nothing but their names.                          *)
Symmetry == Permutations(Threads)
=============================================================================
