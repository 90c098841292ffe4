-------------------------------- MODULE Absent --------------------------------
(***************************************************************************)
(* The value of a field, a path or an answer that is not there: Python's     *)
(* None, one value for the modules that are composed.                        *)
(***************************************************************************)
CONSTANT None
=============================================================================
