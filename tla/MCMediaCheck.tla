---------------------------- MODULE MCMediaCheck ----------------------------
(* An instance of MediaCheck for TLC: the file path and the file name of    *)
(* the first item write one path in two ways; those of the second are on a  *)
(* drive that has no mount.                                                 *)
EXTENDS MediaCheck, TLC

CONSTANTS i1, i2, k1

MCRefs == (i1 :> <<k1, k1>>) @@ (i2 :> << >>)

Searched(hits) == [indexed |-> TRUE,
                   copies |-> [i \in Items |-> IF i = i2 THEN hits ELSE [name |-> 0, other |-> 0]]]

Others == Searched([name |-> 0, other |-> 2])
NameAndOthers == Searched([name |-> 1, other |-> 2])

MCDisks == {[Others EXCEPT !.indexed = FALSE], Others, NameAndOthers}
=============================================================================
