-------------------------- MODULE MCEvaluationArgs --------------------------
(***************************************************************************)
(* Every way one argument can be wrong, beside every way the list can be.   *)
(***************************************************************************)
EXTENDS EvaluationArgs

Good(n) == Object([m \in Members(n) |-> "string"])
Broken(n) ==
    {Object([m \in Members(n) |-> IF m = x THEN v ELSE "string"]) :
        x \in Members(n), v \in {"empty", "other"}}
    \cup {Object([m \in Members(n) \ {x} |-> "string"]) : x \in Members(n)}

NoValue == {Value(x) : x \in Kinds \ {"object"}}

Slot(x, v) == [exact |-> x, value |-> v]

NoSlots == [n \in Entities \cup {"context"} |-> <<>>]

Entry(s) == [kind |-> "object", slots |-> s]

\* Entries: nothing of their own, everything, one member replaced by a good or a
\* bad value, and things that are no entries.
Own == [n \in Entities \cup {"context"} |->
          IF n = "context" THEN <<>> ELSE <<Slot(TRUE, Good(n))>>]

ExactEntries ==
    {Entry(NoSlots), Entry(Own)}
    \cup {Entry([NoSlots EXCEPT !["subject"] = <<Slot(TRUE, v)>>]) :
             v \in Broken("subject") \cup {Value("null"), Good("subject")}}
    \cup {[kind |-> x, slots |-> NoSlots] : x \in {"null", "other"}}

FoldedEntries ==
    {Entry([Own EXCEPT !["subject"] = <<Slot(x, v), Slot(~x, Good("subject"))>>]) :
        x \in BOOLEAN, v \in {Good("subject"), Value("null")}}
    \cup {Entry([Own EXCEPT !["subject"] = <<Slot(FALSE, Good("subject"))>>])}

ContextEntries == {Entry([Own EXCEPT !["context"] = <<Slot(TRUE, Value("other"))>>])}

Lists(E, n) == [kind : {"array"}, entries : UNION {[1..i -> E] : i \in 0..n}]
NoLists == [kind : Kinds, entries : {<<>>}]

\* Arguments that are all good, all absent, or wrong in one place.
Sound == {[n \in Entities \cup {"context"} |-> Good(n)],
          [n \in Entities \cup {"context"} |-> Absent]}

Arguments ==
    Sound \cup
    UNION {{[a EXCEPT ![n] = v] : a \in Sound, v \in NoValue \cup Broken(n)}
             : n \in Entities}
    \cup {[a EXCEPT !["context"] = v] : a \in Sound, v \in NoValue}

Call(tool, args, list, semantic) ==
    [tool |-> tool, args |-> args, list |-> list, semantic |-> semantic]

NoList == [kind |-> "absent", entries |-> <<>>]

MCInputs ==
    {Call("evaluate", a, NoList, "execute_all") : a \in Arguments}
    \cup {Call("batch", a, l, "execute_all") : a \in Arguments,
             l \in Lists(ExactEntries, 1) \cup NoLists}
    \cup {Call("batch", a, l, s) : a \in Sound, s \in {"execute_all", "other"},
             l \in Lists(ExactEntries, 2)}
    \cup {Call("batch", a, l, "execute_all") : a \in Sound, l \in Lists({Entry(Own)}, 3)}

FoldedInputs ==
    {Call("batch", a, l, "execute_all") : a \in Sound, l \in Lists(FoldedEntries, 2)}

ContextInputs ==
    {Call("batch", a, l, "execute_all") : a \in Sound, l \in Lists(ContextEntries, 2)}
=============================================================================
