--------------------------- MODULE MCCheckStream ---------------------------
(* Instances of CheckStream for TLC. *)
EXTENDS CheckStream

CONSTANTS d1, d2, t1, c1

Lists == {<<d1, d2>>}
Lists1 == {<<d1>>}
OwnTenant == [c \in Client |-> t1]
=============================================================================
