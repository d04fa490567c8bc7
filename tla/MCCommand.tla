----------------------------- MODULE MCCommand -----------------------------
(***************************************************************************)
(* Instances of Command; the .cfg file gives the bound.                    *)
(***************************************************************************)
EXTENDS Command
=============================================================================
