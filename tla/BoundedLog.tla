----------------------------- MODULE BoundedLog -----------------------------
(***************************************************************************)
(* What a bounded collector promises: it keeps the first Limit messages,    *)
(* each cut to LineBytes, in one order, and says whether anything was lost. *)
(***************************************************************************)
EXTENDS Naturals, Sequences

CONSTANTS Limit, LineBytes, Messages

VARIABLES kept, lost

Line(m) == [from |-> m.from, seq |-> m.seq, cut |-> m.size > LineBytes]

Init == kept = <<>> /\ lost = FALSE

Keep(m) ==
    /\ Len(kept) < Limit
    /\ kept' = Append(kept, Line(m))
    /\ lost' = (lost \/ Line(m).cut)

Lose == Len(kept) = Limit /\ lost' = TRUE /\ UNCHANGED kept

Next == (\E m \in Messages : Keep(m)) \/ Lose

Spec == Init /\ [][Next]_<<kept, lost>>
=============================================================================
