------------------------------ MODULE MCConfig ------------------------------
(* Values of Config's constants for model checking.                        *)
EXTENDS Config

(* The whole .env is read, or a bad line hides half of it.                 *)
WholeOrHalf == {Vars, {"LIB", "SLOT_ID", "PASSWORD", "PORT", "URL"}}
=============================================================================
