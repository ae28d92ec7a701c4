------------------------------ MODULE MCNotify ------------------------------
(* Notify.tla on small instances: one endpoint, one or two certificates. *)
EXTENDS Notify

CONSTANTS w1, w2, e1, c1, c2

P(thresholds, endpoints) == [thresholds |-> thresholds, endpoints |-> endpoints]

\* The second certificate is issued before the first has run out.
MCExpires == (c1 :> 5) @@ (c2 :> 7)
MCSoon    == c1 :> 2

\* A request may name negative thresholds, and an empty policy.
MCEdited  == {P({0, -1}, {e1}), P({}, {})}
MCLate    == {P({1}, {e1})}
MCCrossed == {P({0, 1}, {e1})}
=============================================================================
