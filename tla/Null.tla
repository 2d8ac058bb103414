--------------------------------- MODULE Null ---------------------------------
(***************************************************************************)
(* The value of a column, or of a variable of the code, that holds none.   *)
(***************************************************************************)
CONSTANT None  \* SQL NULL, Python's None, and the empty plate
=============================================================================
