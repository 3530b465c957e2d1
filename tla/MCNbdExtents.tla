---------------------------- MODULE MCNbdExtents ----------------------------
EXTENDS NbdExtents

(* Areas inside the export that take one request or several, and two that  *)
(* are out of bounds.                                                      *)
AreasValue == {[offset |-> 0, length |-> 4], [offset |-> 1, length |-> 2],
               [offset |-> 2, length |-> 3], [offset |-> 0, length |-> 0]}
=============================================================================
