--------------------------- MODULE MCIndexedDatabase ---------------------------
(* An instance of IndexedDatabase for TLC.  Replacing puts back an empty database
   or one whose records share a value. *)
EXTENDS IndexedDatabase, TLC

CONSTANTS i1, i2, a, b

MCArrays == {{a, b}}
MCStates == {[i \in Ids |-> NoRecord], [i \in Ids |-> a]}
MCSymmetry == Permutations(Ids)
=============================================================================
