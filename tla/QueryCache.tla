------------------------------ MODULE QueryCache ------------------------------
(***************************************************************************)
(* One cached query of the page's QueryClient, as the pages use it: no     *)
(* staleTime, so that every mount fetches; a fetch in flight is shared,    *)
(* and an invalidation starts it again only if there is data to show in    *)
(* the meantime.                                                           *)
(***************************************************************************)
CONSTANT NoData

Blank == [data |-> NoData, flight |-> "idle", got |-> NoData, old |-> FALSE]

\* A fetch: sent, answered (the server has taken its snapshot), then settled.
\* old: the answer awaited, or the data kept, may be older than the last reason to fetch.
Started(q) == [q EXCEPT !.flight = "sent", !.got = NoData, !.old = FALSE]
Joined(q)  == [q EXCEPT !.old = @ \/ q.flight = "answered"]

Mounted(q)     == IF q.flight = "idle" THEN Started(q) ELSE Joined(q)
Invalidated(q) == IF q.flight # "idle" /\ q.data = NoData THEN Joined(q) ELSE Started(q)

Answered(q, value) == [q EXCEPT !.flight = "answered", !.got = value]
Settled(q)         == [q EXCEPT !.flight = "idle", !.data = q.got, !.got = NoData]

\* Every retry has failed: the data there was stays.
Failed(q)   == [q EXCEPT !.flight = "idle", !.got = NoData, !.old = TRUE]
Outdated(q) == [q EXCEPT !.old = TRUE]
=============================================================================
