-------------------------------- MODULE Lists --------------------------------
(***************************************************************************)
(* What a query with a condition (scheduler/service.go) and the filter of  *)
(* an array (admin-page.tsx) make of a list.                               *)
(***************************************************************************)
EXTENDS Naturals, Sequences

\* The elements of a list that are in the set, in the order they have there: SelectSeq, as a
\* function on the places of the list.
Among(list, set) ==
    LET upTo[i \in 0..Len(list)] ==
            IF i = 0 THEN <<>>
            ELSE IF list[i] \in set THEN Append(upTo[i - 1], list[i]) ELSE upTo[i - 1]
    IN  upTo[Len(list)]
=============================================================================
