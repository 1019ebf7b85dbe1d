------------------------------- MODULE Listing -------------------------------
(***************************************************************************)
(* What a page that lists the answer to a query promises, whatever its     *)
(* calls do: it shows nothing, the rows of an earlier query until the      *)
(* first answer to the present one, or rows of the present query; and more *)
(* rows only ever continue the ones on screen, downwards and without gap.  *)
(***************************************************************************)
EXTENDS Naturals, Sequences

CONSTANTS Queries, MaxRow

VARIABLES query, shown

(* Rows hi, hi - 1, ..., lo of a query.                                    *)
Run(q, hi, lo) == [i \in 1 .. (hi + 1 - lo) |-> [q |-> q, n |-> hi + 1 - i]]

Init == query \in Queries /\ shown = <<>>

Choose(q) == query' = q /\ shown' \in {shown, <<>>}
Show == \E hi \in 0 .. MaxRow : \E lo \in 1 .. hi + 1 :
          shown' = Run(query, hi, lo) /\ UNCHANGED query
More ==
  /\ shown # <<>> /\ shown[Len(shown)].q = query
  /\ \E lo \in 1 .. shown[Len(shown)].n :
       shown' = shown \o Run(query, shown[Len(shown)].n - 1, lo)
  /\ UNCHANGED query
Drop == shown' = <<>> /\ UNCHANGED query

Next == (\E q \in Queries : Choose(q)) \/ Show \/ More \/ Drop

Spec == Init /\ [][Next]_<<query, shown>>
=============================================================================
