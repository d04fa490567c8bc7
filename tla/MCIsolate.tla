----------------------------- MODULE MCIsolate -----------------------------
(***************************************************************************)
(* The instance of Isolate that TLC checks; the .cfg files give the bounds *)
(* and the question.                                                       *)
(***************************************************************************)
EXTENDS Isolate
=============================================================================
