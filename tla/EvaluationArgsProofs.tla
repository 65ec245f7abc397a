------------------------ MODULE EvaluationArgsProofs ------------------------
(***************************************************************************)
(* What the argument checks let through and what they refuse, for any       *)
(* calls and any batch limit.                                               *)
(***************************************************************************)
EXTENDS EvaluationArgs, NumberLemmas

AllNames == Entities \cup {"context"}

LEMMA NameList ==
    /\ Len(Names) = 4
    /\ \A i \in 1..4 : Names[i] \in AllNames
    /\ \A i \in 1..3 : Names[i] \in Entities /\ Names[i] # "context"
    /\ \A n \in Entities : n # "context" /\ \E i \in 1..3 : Names[i] = n
    /\ \A n \in AllNames : \E i \in 1..4 : Names[i] = n
  BY DEF Names, Entities, AllNames

\* An argument that is read.
Passes(n) == jsonObjectArg(input.args[n], Required /\ n # "context")

Checked(n) == requireMembers(input.args[n], Members(n))

ArgsRead(m) == \A i \in 1..m : Passes(Names[i])
ArgsChecked(m) == \A i \in 1..m : Checked(Names[i])
EntriesChecked(m) == \A i \in 1..m : EntryPasses(input.list.entries[i])

AllArgs == (\A n \in AllNames : Passes(n)) /\ \A n \in Entities : Checked(n)

\* What a refusal names is what did not pass.
FaultTold ==
    \/ \E n \in AllNames : fault = <<n>> /\ ~Passes(n)
    \/ \E n \in Entities : fault = <<n>> /\ ~Checked(n)
    \/ fault = <<"evaluations">> /\ input.tool = "batch" /\ ~ListPasses(input.list)
    \/ /\ ListPasses(input.list)
       /\ \E i \in DOMAIN input.list.entries :
             fault = <<"evaluations", i>> /\ ~EntryPasses(input.list.entries[i])
    \/ fault = <<"evaluations_semantic">> /\ input.semantic = "other"

\* What was read before passed.
ReadInv ==
    /\ input \in Inputs
    /\ at = "arguments" => ArgsRead(k - 1)
    /\ at = "entities" => ArgsRead(4) /\ ArgsChecked(k - 1)
    /\ at \in {"list", "entries", "semantic", "sent"} => AllArgs
    /\ at \in {"list", "entries", "semantic"} => input.tool = "batch"
    /\ at \in {"entries", "semantic"} => ListPasses(input.list)
    /\ at = "entries" => EntriesChecked(k - 1)
    /\ at = "semantic" => EntriesChecked(Len(input.list.entries))
    /\ at = "sent" =>
          /\ input.semantic # "other"
          /\ input.tool = "batch" =>
                ListPasses(input.list) /\ EntriesChecked(Len(input.list.entries))
    /\ at = "refused" => FaultTold

IInv == TypeOK /\ ReadInv

LEMMA InputFields ==
    ASSUME ReadInv
    PROVE  /\ input.tool \in {"evaluate", "batch"} /\ IsList(input.list.entries)
           /\ input.tool = "evaluate" => input.semantic # "other"
           /\ \A n \in AllNames : input.args[n].kind \in Kinds
           /\ input.list.kind \in Kinds \cup {"array"}
           /\ \A i \in 1..Len(input.list.entries) : IsEntry(input.list.entries[i])
  BY InputAssumption DEF ReadInv, AllNames

LEMMA InitHolds == Init => IInv
  BY InputAssumption DEF Init, IInv, TypeOK, ReadInv, ArgsRead

\* Nothing but the position moves, so what passed has passed.
LEMMA PassedStays ==
    ASSUME UNCHANGED input
    PROVE  /\ \A n : (Passes(n)' <=> Passes(n)) /\ (Checked(n)' <=> Checked(n))
           /\ AllArgs' <=> AllArgs
           /\ \A e : EntryPasses(e)' <=> EntryPasses(e)
  BY DEF Passes, Checked, AllArgs, Required, EntryPasses, Effective

LEMMA RefuseHolds ==
    ASSUME IInv, NEW f, Refuse(f), fault' = f => FaultTold'
    PROVE  IInv'
  <1>1. at' = "refused" /\ fault' = f /\ UNCHANGED <<input, k>>
    BY DEF Refuse
  <1> QED BY <1>1 DEF IInv, TypeOK, ReadInv

LEMMA ReadArgumentHolds == IInv /\ ReadArgument => IInv'
  <1> SUFFICES ASSUME IInv, ReadArgument PROVE IInv'
    OBVIOUS
  <1> DEFINE n == Names[k]
  <1>0. at = "arguments" /\ k \in 1..4 /\ ArgsRead(k - 1) /\ n \in AllNames
    BY NameList DEF ReadArgument, IInv, TypeOK, ReadInv
  <1>1. CASE ~Passes(n)
    <2>1. Refuse(<<n>>)
      BY <1>1 DEF ReadArgument, Passes
    <2>2. UNCHANGED input
      BY <2>1 DEF Refuse
    <2>3. fault' = <<n>> => FaultTold'
      BY <1>0, <1>1, <2>2, PassedStays DEF FaultTold
    <2> QED BY <2>1, <2>3, RefuseHolds
  <1>2. CASE Passes(n)
    <2>1. ArgsRead(k)
      BY <1>0, <1>2 DEF ArgsRead
    <2>2. CASE k < 4
      <3>1. at' = "arguments" /\ k' = k + 1 /\ UNCHANGED <<input, fault>>
        BY <1>2, <2>2, NameList DEF ReadArgument, Passes, Continue
      <3>2. ArgsRead(k - 1)'
        BY <1>0, <2>1, <3>1, PassedStays DEF ArgsRead
      <3> QED BY <1>0, <2>2, <3>1, <3>2 DEF IInv, TypeOK, ReadInv
    <2>3. CASE k = 4
      <3>1. at' = "entities" /\ k' = 1 /\ UNCHANGED <<input, fault>>
        BY <1>2, <2>3, NameList DEF ReadArgument, Passes, Continue
      <3>2. ArgsRead(4)' /\ ArgsChecked(k - 1)'
        BY <2>1, <2>3, <3>1, PassedStays DEF ArgsRead, ArgsChecked
      <3> QED BY <3>1, <3>2 DEF IInv, TypeOK, ReadInv
    <2> QED BY <1>0, <2>2, <2>3
  <1> QED BY <1>1, <1>2

LEMMA CheckArgumentHolds == IInv /\ CheckArgument => IInv'
  <1> SUFFICES ASSUME IInv, CheckArgument PROVE IInv'
    OBVIOUS
  <1> DEFINE n == Names[k]
  <1>0. /\ at = "entities" /\ k \in 1..3 /\ ArgsRead(4) /\ ArgsChecked(k - 1)
        /\ n \in Entities
    BY NameList DEF CheckArgument, IInv, TypeOK, ReadInv
  <1>1. CASE ~Checked(n)
    <2>1. Refuse(<<n>>)
      BY <1>1 DEF CheckArgument, Checked
    <2>2. UNCHANGED input
      BY <2>1 DEF Refuse
    <2>3. fault' = <<n>> => FaultTold'
      BY <1>0, <1>1, <2>2, PassedStays DEF FaultTold
    <2> QED BY <2>1, <2>3, RefuseHolds
  <1>2. CASE Checked(n)
    <2>1. ArgsChecked(k)
      BY <1>0, <1>2 DEF ArgsChecked
    <2>2. CASE k < 3
      <3>1. at' = "entities" /\ k' = k + 1 /\ UNCHANGED <<input, fault>>
        BY <1>2, <2>2 DEF CheckArgument, Checked, Continue
      <3>2. ArgsRead(4)' /\ ArgsChecked(k - 1)'
        BY <1>0, <2>1, <3>1, PassedStays DEF ArgsRead, ArgsChecked
      <3> QED BY <1>0, <2>2, <3>1, <3>2 DEF IInv, TypeOK, ReadInv
    <2>3. CASE k = 3
      <3>1. /\ at' = (IF input.tool = "batch" THEN "list" ELSE "sent")
            /\ UNCHANGED <<input, fault>>
        BY <1>2, <2>3 DEF CheckArgument, Checked, Continue
      <3>2. AllArgs'
        BY <1>0, <2>1, <2>3, <3>1, NameList, PassedStays DEF ArgsRead, ArgsChecked, AllArgs
      <3>3. input.tool = "evaluate" => input.semantic # "other"
        BY InputFields DEF IInv
      <3> QED BY <3>1, <3>2, <3>3 DEF IInv, TypeOK, ReadInv
    <2> QED BY <1>0, <2>2, <2>3
  <1> QED BY <1>1, <1>2

LEMMA ReadListHolds == IInv /\ ReadList => IInv'
  <1> SUFFICES ASSUME IInv, ReadList PROVE IInv'
    OBVIOUS
  <1>0. at = "list" /\ AllArgs /\ input.tool = "batch" /\ IsList(input.list.entries)
    BY InputFields DEF ReadList, IInv, ReadInv
  <1>1. CASE ~ListPasses(input.list)
    <2>1. Refuse(<<"evaluations">>)
      BY <1>1 DEF ReadList
    <2>2. fault' = <<"evaluations">> => FaultTold'
      BY <1>0, <1>1, <2>1 DEF FaultTold, Refuse, ListPasses
    <2> QED BY <2>1, <2>2, RefuseHolds
  <1>2. CASE ListPasses(input.list)
    <2>1. at' = "entries" /\ k' = 1 /\ UNCHANGED <<input, fault>>
      BY <1>2 DEF ReadList, Continue
    <2>2. AllArgs' /\ ListPasses(input.list)' /\ EntriesChecked(k - 1)'
      BY <1>0, <1>2, <2>1, PassedStays DEF ListPasses, EntriesChecked
    <2>3. k' \in DOMAIN input.list.entries /\ Len(input.list.entries) <= MaxBatch
      BY <1>0, <1>2, <2>1, BatchAssumption DEF ListPasses, IsList
    <2> QED BY <1>0, <2>1, <2>2, <2>3 DEF IInv, TypeOK, ReadInv
  <1> QED BY <1>1, <1>2

LEMMA ReadEntryHolds == IInv /\ ReadEntry => IInv'
  <1> SUFFICES ASSUME IInv, ReadEntry PROVE IInv'
    OBVIOUS
  <1> DEFINE e == input.list.entries[k]
             len == Len(input.list.entries)
  <1>0. /\ at = "entries" /\ AllArgs /\ input.tool = "batch" /\ ListPasses(input.list)
        /\ EntriesChecked(k - 1) /\ len \in Nat /\ k \in 1..len /\ len <= MaxBatch
        /\ DOMAIN input.list.entries = 1..len
    BY InputFields DEF ReadEntry, IInv, TypeOK, ReadInv, IsList
  <1>1. CASE ~EntryPasses(e)
    <2>1. Refuse(<<"evaluations", k>>)
      BY <1>1 DEF ReadEntry
    <2>2. UNCHANGED input
      BY <2>1 DEF Refuse
    <2>3. fault' = <<"evaluations", k>> => FaultTold'
      BY <1>0, <1>1, <2>2, PassedStays DEF FaultTold, ListPasses
    <2> QED BY <2>1, <2>3, RefuseHolds
  <1>2. CASE EntryPasses(e)
    <2>1. EntriesChecked(k)
      BY <1>0, <1>2 DEF EntriesChecked
    <2>2. UNCHANGED <<input, fault>>
      BY <1>2 DEF ReadEntry, Continue
    <2>3. AllArgs' /\ ListPasses(input.list)'
      BY <1>0, <2>2, PassedStays DEF ListPasses
    <2>4. CASE k < len
      <3>1. at' = "entries" /\ k' = k + 1
        BY <1>2, <2>4 DEF ReadEntry, Continue
      <3>2. EntriesChecked(k - 1)'
        BY <1>0, <2>1, <2>2, <3>1, PassedStays DEF EntriesChecked
      <3> QED BY <1>0, <2>2, <2>3, <2>4, <3>1, <3>2 DEF IInv, TypeOK, ReadInv
    <2>5. CASE k = len
      <3>1. at' = "semantic" /\ k' = k
        BY <1>0, <1>2, <2>5 DEF ReadEntry, Continue
      <3>2. EntriesChecked(Len(input.list.entries))'
        BY <1>0, <2>1, <2>2, <2>5, PassedStays DEF EntriesChecked
      <3> QED BY <1>0, <2>2, <2>3, <2>5, <3>1, <3>2 DEF IInv, TypeOK, ReadInv
    <2> QED BY <1>0, <2>4, <2>5
  <1> QED BY <1>1, <1>2

LEMMA CheckSemanticHolds == IInv /\ CheckSemantic => IInv'
  <1> SUFFICES ASSUME IInv, CheckSemantic PROVE IInv'
    OBVIOUS
  <1>0. /\ at = "semantic" /\ AllArgs /\ input.tool = "batch" /\ ListPasses(input.list)
        /\ EntriesChecked(Len(input.list.entries))
    BY DEF CheckSemantic, IInv, ReadInv
  <1>1. CASE input.semantic = "other"
    <2>1. Refuse(<<"evaluations_semantic">>)
      BY <1>1 DEF CheckSemantic
    <2>2. fault' = <<"evaluations_semantic">> => FaultTold'
      BY <1>1, <2>1 DEF FaultTold, Refuse
    <2> QED BY <2>1, <2>2, RefuseHolds
  <1>2. CASE input.semantic # "other"
    <2>1. at' = "sent" /\ UNCHANGED <<input, fault>>
      BY <1>2 DEF CheckSemantic, Continue
    <2>2. AllArgs' /\ ListPasses(input.list)' /\ EntriesChecked(Len(input.list.entries))'
      BY <1>0, <2>1, PassedStays DEF ListPasses, EntriesChecked
    <2> QED BY <1>2, <2>1, <2>2 DEF IInv, TypeOK, ReadInv
  <1> QED BY <1>1, <1>2

LEMMA StepHolds == IInv /\ [Next]_vars => IInv'
  <1> SUFFICES ASSUME IInv, [Next]_vars PROVE IInv'
    OBVIOUS
  <1>1. CASE UNCHANGED vars
    <2>1. UNCHANGED <<input, at, k, fault>>
      BY <1>1 DEF vars
    <2>2. TypeOK'
      BY <2>1 DEF IInv, TypeOK
    <2>3. /\ (ArgsRead(k - 1)' <=> ArgsRead(k - 1)) /\ (ArgsRead(4)' <=> ArgsRead(4))
          /\ (ArgsChecked(k - 1)' <=> ArgsChecked(k - 1)) /\ (AllArgs' <=> AllArgs)
      BY <2>1, PassedStays DEF ArgsRead, ArgsChecked
    <2>4. /\ EntriesChecked(k - 1)' <=> EntriesChecked(k - 1)
          /\ EntriesChecked(Len(input.list.entries))' <=> EntriesChecked(Len(input.list.entries))
      BY <2>1, PassedStays DEF EntriesChecked
    <2>5. (ListPasses(input.list)' <=> ListPasses(input.list)) /\ (FaultTold' <=> FaultTold)
      BY <2>1, PassedStays DEF ListPasses, FaultTold
    <2>6. ReadInv'
      BY <2>1, <2>3, <2>4, <2>5 DEF IInv, ReadInv
    <2> QED BY <2>2, <2>6 DEF IInv
  <1> QED BY <1>1, ReadArgumentHolds, CheckArgumentHolds, ReadListHolds, ReadEntryHolds,
             CheckSemanticHolds DEF Next, Ended

\* What was read before passed, and a refusal names what did not.
THEOREM Invariance == Spec => []IInv
  BY InitHolds, StepHolds, PTL DEF Spec

\* No index leaves what it indexes.
THEOREM IndicesStayInside == Spec => []TypeOK
  <1>1. IInv => TypeOK
    BY DEF IInv
  <1> QED BY <1>1, Invariance, PTL
-----------------------------------------------------------------------------
(* What the checks come to. *)

\* An argument that is read and checked is an object with what AuthZEN requires,
\* unless it may be absent and is.
LEMMA EntityHolds ==
    ASSUME NEW n \in Entities, Passes(n), Checked(n)
    PROVE  /\ input.args[n].kind = "object" \/ (input.args[n].kind = "absent" /\ ~Required)
           /\ input.args[n].kind = "object" =>
                 \A m \in Members(n) : /\ m \in DOMAIN input.args[n].members
                                       /\ input.args[n].members[m] = "string"
  BY NameList DEF Passes, Checked, jsonObjectArg, requireMembers

\* Spelled exactly, an entry is to the PDP what it was to the handler.
LEMMA ReadAlike ==
    ASSUME NEW e, IsEntry(e), e.kind = "object",
           \A n \in DOMAIN e.slots : \A j \in DOMAIN e.slots[n] : e.slots[n][j].exact
    PROVE  \A n \in AllNames : ReadByPDP(e)[n] = Effective(e)[n]
  <1> SUFFICES ASSUME NEW n \in AllNames PROVE ReadByPDP(e)[n] = Effective(e)[n]
    OBVIOUS
  <1> DEFINE s == e.slots[n]
             own == {j \in DOMAIN s : s[j].exact}
             last == CHOOSE j \in own : \A i \in own : i <= j
  <1>1. DOMAIN e.slots = AllNames /\ Len(s) \in Nat /\ DOMAIN s = 1..Len(s)
    BY DEF IsEntry, IsList, AllNames
  <1>2. own = 1..Len(s)
    BY <1>1
  <1>3. ReadByPDP(e)[n] = IF own = {} THEN input.args[n] ELSE s[last].value
    BY <1>1 DEF ReadByPDP
  <1>4. Effective(e)[n] = firstPresent(Decoded(e)[n], input.args[n])
    BY <1>1 DEF Effective
  <1>5. Decoded(e)[n] = IF s = <<>> THEN Absent ELSE s[Len(s)].value
    BY <1>1 DEF Decoded
  <1>6. CASE s = <<>>
    <2>1. own = {}
      BY <1>6
    <2>2. Absent.kind = "absent"
      BY DEF Absent, Value
    <2> QED BY <1>3, <1>4, <1>5, <1>6, <2>1, <2>2 DEF firstPresent
  <1>7. CASE s # <<>> /\ Len(s) > 0
    <2>1. Len(s) \in own /\ \A i \in own : i <= Len(s)
      BY <1>1, <1>2, <1>7
    <2>2. last \in own /\ \A i \in own : i <= last
      BY <2>1
    <2> HIDE DEF last
    <2>3. last = Len(s)
      BY <1>1, <1>2, <2>1, <2>2
    <2>4. s[Len(s)].value.kind # "absent"
      BY <1>1, <1>2, <2>1 DEF IsEntry, AllNames
    <2> QED BY <1>3, <1>4, <1>5, <1>7, <2>1, <2>3, <2>4 DEF firstPresent
  <1>8. CASE s # <<>> /\ Len(s) = 0
    BY <1>1, <1>8
  <1> QED BY <1>1, <1>6, <1>7, <1>8

\* An entry passes exactly when what is evaluated for it conforms.
LEMMA PassesWhenItConforms ==
    ASSUME NEW e, e.kind = "object"
    PROVE  EntryPasses(e) <=> Conforms(Effective(e))
  BY DEF EntryPasses, Conforms, validateEntities, requireMembers

\* What is sent conforms, as the PDP reads it.
THEOREM WhatIsSentConforms == Spec => []SentConforms
  <1>1. IInv => SentConforms
    <2> SUFFICES ASSUME IInv, at = "sent", Exact, NEW r \in Evaluations PROVE Conforms(r)
      BY DEF SentConforms
    <2>1. AllArgs /\ input.tool \in {"evaluate", "batch"} /\ IsList(input.list.entries)
      BY InputFields DEF IInv, ReadInv
    <2>2. CASE input.tool = "evaluate"
      <3>1. r = input.args /\ Required
        BY <2>2 DEF Evaluations, Required
      <3>2. \A n \in Entities : Passes(n) /\ Checked(n)
        BY <2>1 DEF AllArgs, AllNames
      <3> QED BY <3>1, <3>2, EntityHolds DEF Conforms
    <2>3. CASE input.tool = "batch"
      <3>1. PICK i \in DOMAIN input.list.entries : r = ReadByPDP(input.list.entries[i])
        BY <2>3 DEF Evaluations
      <3> DEFINE e == input.list.entries[i]
      <3>2. i \in 1..Len(input.list.entries)
        BY <2>1, <3>1 DEF IsList
      <3>3. EntryPasses(e) /\ IsEntry(e)
        BY <2>3, <3>2, InputFields DEF IInv, ReadInv, EntriesChecked
      <3>4. \A n \in DOMAIN e.slots : \A j \in DOMAIN e.slots[n] : e.slots[n][j].exact
        BY <3>1 DEF Exact
      <3>5. Conforms(Effective(e)) /\ \A n \in AllNames : ReadByPDP(e)[n] = Effective(e)[n]
        BY <3>3, <3>4, PassesWhenItConforms, ReadAlike DEF EntryPasses
      <3> QED BY <3>1, <3>5 DEF Conforms, AllNames
    <2> QED BY <2>1, <2>2, <2>3
  <1> QED BY <1>1, Invariance, PTL

\* The form of what a refusal names.
LEMMA FaultShapes ==
    ASSUME NEW x, NEW y
    PROVE  /\ Len(<<x>>) = 1 /\ <<x>>[1] = x
           /\ Len(<<x, y>>) = 2 /\ <<x, y>>[1] = x /\ <<x, y>>[2] = y
  OBVIOUS

\* An error result names what is wrong.
THEOREM RefusalsNameTheFault == Spec => []RefusalNamesTheFault
  <1>1. IInv => RefusalNamesTheFault
    <2> SUFFICES ASSUME IInv, at = "refused", Exact PROVE RefusalNamesTheFault
      BY DEF RefusalNamesTheFault
    <2>0. FaultTold /\ IsList(input.list.entries) /\ input.tool \in {"evaluate", "batch"}
          /\ \A n \in AllNames : input.args[n].kind \in Kinds
      BY InputFields DEF IInv, ReadInv
    <2>n. Entities = {"subject", "action", "resource"}
          /\ AllNames = {"subject", "action", "resource", "context"}
      BY DEF Entities, AllNames
    <2>1. ASSUME NEW n \in AllNames, fault = <<n>>, ~Passes(n) PROVE RefusalNamesTheFault
      <3>1. Len(fault) = 1 /\ fault[1] = n
        BY <2>1, FaultShapes
      <3>2. \/ input.args[n].kind = "absent" /\ Required /\ n # "context"
            \/ input.args[n].kind \notin {"absent", "object"}
        BY <2>1 DEF Passes, jsonObjectArg
      <3> QED BY <2>n, <3>1, <3>2 DEF RefusalNamesTheFault, Required
    <2>2. ASSUME NEW n \in Entities, fault = <<n>>, ~Checked(n) PROVE RefusalNamesTheFault
      <3>1. Len(fault) = 1 /\ fault[1] = n
        BY <2>2, FaultShapes
      <3>2. \/ input.args[n].kind \notin {"absent", "object"}
            \/ \E m \in Members(n) :
                  /\ input.args[n].kind = "object"
                  /\ m \notin DOMAIN input.args[n].members \/ input.args[n].members[m] # "string"
        BY <2>2 DEF Checked, requireMembers
      <3> QED BY <2>n, <3>1, <3>2 DEF RefusalNamesTheFault
    <2>3. ASSUME fault = <<"evaluations">>, ~ListPasses(input.list) PROVE RefusalNamesTheFault
      <3>1. Len(fault) = 1 /\ fault[1] = "evaluations"
        BY <2>3, FaultShapes
      <3> QED BY <2>n, <2>3, <3>1 DEF RefusalNamesTheFault, ListPasses
    <2>4. ASSUME NEW i \in DOMAIN input.list.entries, fault = <<"evaluations", i>>,
                 ~EntryPasses(input.list.entries[i])
          PROVE  RefusalNamesTheFault
      <3> DEFINE e == input.list.entries[i]
      <3>1. Len(fault) = 2 /\ fault[2] = i /\ fault[1] = "evaluations" /\ fault # <<"evaluations">>
        BY <2>4, FaultShapes
      <3>2. ASSUME e.kind = "object", Conforms(ReadByPDP(e)) PROVE FALSE
        <4>1. IsEntry(e)
          BY <2>0, InputFields DEF IsList, IInv
        <4>2. \A n \in DOMAIN e.slots : \A j \in DOMAIN e.slots[n] : e.slots[n][j].exact
          BY DEF Exact
        <4>3. \A n \in AllNames : ReadByPDP(e)[n] = Effective(e)[n]
          BY <3>2, <4>1, <4>2, ReadAlike
        <4>4. Conforms(Effective(e))
          BY <3>2, <4>3 DEF Conforms, AllNames
        <4> QED BY <2>4, <3>2, <4>4, PassesWhenItConforms
      <3> QED BY <2>n, <3>1, <3>2 DEF RefusalNamesTheFault
    <2>5. ASSUME fault = <<"evaluations_semantic">>, input.semantic = "other"
          PROVE  RefusalNamesTheFault
      <3>1. Len(fault) = 1 /\ fault[1] = "evaluations_semantic"
        BY <2>5, FaultShapes
      <3> QED BY <2>n, <2>5, <3>1 DEF RefusalNamesTheFault
    <2> QED BY <2>0, <2>1, <2>2, <2>3, <2>4, <2>5 DEF FaultTold
  <1> QED BY <1>1, Invariance, PTL

\* What the schemas require is what the handlers require.
THEOREM TheSchemaIsEnforced == Spec => []SchemaIsEnforced
  <1> DEFINE kind(n) == IF n = "evaluations" THEN input.list.kind ELSE input.args[n].kind
             missing == {n \in Schema(input.tool) : kind(n) = "absent"}
  <1>1. IInv => SchemaIsEnforced
    <2> SUFFICES ASSUME IInv PROVE SchemaIsEnforced
      OBVIOUS
    <2>0. input.tool \in {"evaluate", "batch"}
      BY InputFields DEF IInv
    <2>n. Entities = {"subject", "action", "resource"}
          /\ AllNames = {"subject", "action", "resource", "context"}
      BY DEF Entities, AllNames
    <2>1. ASSUME at = "sent" PROVE missing = {} /\ input.semantic # "other"
      <3>1. AllArgs /\ input.semantic # "other"
            /\ (input.tool = "batch" => ListPasses(input.list))
        BY <2>1 DEF IInv, ReadInv
      <3>2. CASE input.tool = "evaluate"
        <4>1. \A n \in Entities : input.args[n].kind = "object" /\ n # "evaluations"
          BY <2>n, <3>1, <3>2, EntityHolds DEF AllArgs, Required
        <4>2. Schema(input.tool) = Entities
          BY <2>n, <3>2 DEF Schema, registerEvaluateTool
        <4> QED BY <3>1, <4>1, <4>2
      <3>3. CASE input.tool = "batch"
        <4>1. Schema(input.tool) = {"evaluations"} /\ input.list.kind = "array"
          BY <3>1, <3>3 DEF Schema, registerBatchTool, ListPasses
        <4> QED BY <3>1, <4>1
      <3> QED BY <2>0, <3>2, <3>3
    <2>2. ASSUME at = "refused", fault[1] # "evaluations_semantic", kind(fault[1]) = "absent",
                 Len(fault) = 1
          PROVE  fault[1] \in missing
      <3>0. FaultTold
        BY <2>2 DEF IInv, ReadInv
      <3>1. ASSUME NEW n \in AllNames, fault = <<n>>, ~Passes(n) PROVE fault[1] \in missing
        <4>1. fault[1] = n /\ n # "evaluations"
          BY <2>n, <3>1, FaultShapes
        <4>2. input.args[n].kind = "absent"
          BY <2>2, <4>1
        <4>3. input.tool = "evaluate" /\ n # "context"
          BY <3>1, <4>2 DEF Passes, jsonObjectArg, Required
        <4> QED BY <2>n, <4>1, <4>2, <4>3 DEF Schema, registerEvaluateTool, registerBatchTool
      <3>2. ASSUME NEW n \in Entities, fault = <<n>>, ~Checked(n) PROVE FALSE
        <4>1. fault[1] = n /\ n # "evaluations"
          BY <2>n, <3>2, FaultShapes
        <4> QED BY <2>2, <3>2, <4>1 DEF Checked, requireMembers
      <3>3. ASSUME fault = <<"evaluations">>, input.tool = "batch" PROVE fault[1] \in missing
        <4>1. fault[1] = "evaluations"
          BY <3>3, FaultShapes
        <4> QED BY <2>2, <3>3, <4>1 DEF Schema, registerEvaluateTool, registerBatchTool
      <3>4. \A i : fault # <<"evaluations", i>>
        BY <2>2, FaultShapes
      <3>5. fault # <<"evaluations_semantic">>
        BY <2>2, FaultShapes
      <3> QED BY <3>0, <3>1, <3>2, <3>3, <3>4, <3>5 DEF FaultTold
    <2> QED BY <2>1, <2>2 DEF SchemaIsEnforced
  <1> QED BY <1>1, Invariance, PTL

-----------------------------------------------------------------------------
(* What reading does at every step, and what it leaves unread. *)

Stage ==
    CASE at = "arguments" -> 0 [] at = "entities" -> 1 [] at = "list" -> 2
      [] at = "entries" -> 3 [] at = "semantic" -> 4 [] OTHER -> 5

\* One step of the reading: on to a later stage, or to the next argument or entry
\* of this one, and never past the limit on the list.
ReadsOn ==
    /\ Stage' > Stage \/ (Stage' = Stage /\ k' > k)
    /\ at' = "entries" => k' <= MaxBatch

\* Every step reads on, so a call is sent or refused after a bounded number of
\* steps and nothing is read twice (tool_authzen.go:373-456).
THEOREM ReadingMovesOn == Spec => [][ReadsOn]_vars
  <1>1. IInv /\ IInv' /\ [Next]_vars => [ReadsOn]_vars
    <2> SUFFICES ASSUME IInv, IInv', Next, ~ UNCHANGED vars PROVE ReadsOn
      OBVIOUS
    <2>1. k \in Nat \/ at \in {"list", "sent", "refused"}
      BY InputFields DEF IInv, TypeOK, IsList
    <2>2. at' = "entries" => k' <= MaxBatch
      <3> SUFFICES ASSUME at' = "entries" PROVE k' <= MaxBatch
        OBVIOUS
      <3> DEFINE len == Len(input'.list.entries)
      <3>1. k' \in DOMAIN input'.list.entries /\ len <= MaxBatch
        BY DEF IInv, TypeOK
      <3>2. ReadInv'
        BY DEF IInv
      <3>3. IsList(input'.list.entries)
        BY <3>2, InputAssumption DEF ReadInv
      <3>4. len \in Nat /\ DOMAIN input'.list.entries = 1..len
        BY <3>3 DEF IsList
      <3> QED BY <3>1, <3>4, BatchAssumption
    <2>3. CASE ReadArgument
      BY <2>1, <2>2, <2>3 DEF ReadArgument, Refuse, Continue, Stage, ReadsOn
    <2>4. CASE CheckArgument
      BY <2>1, <2>2, <2>4 DEF CheckArgument, Refuse, Continue, Stage, ReadsOn
    <2>5. CASE ReadList
      <3>1. at = "list" /\ at' \in {"entries", "refused"}
        BY <2>5 DEF ReadList, Refuse, Continue
      <3> QED BY <2>2, <3>1 DEF Stage, ReadsOn
    <2>6. CASE ReadEntry
      <3>1. at = "entries" /\ \/ at' \in {"semantic", "refused"}
                              \/ at' = "entries" /\ k' = k + 1
        BY <2>6 DEF ReadEntry, Refuse, Continue
      <3> QED BY <2>1, <2>2, <3>1 DEF Stage, ReadsOn
    <2>7. CASE CheckSemantic
      BY <2>2, <2>7 DEF CheckSemantic, Refuse, Continue, Stage, ReadsOn
    <2> QED BY <2>3, <2>4, <2>5, <2>6, <2>7 DEF Next, Ended
  <1> QED BY <1>1, Invariance, PTL DEF Spec

\* What the handler read of every entry of a batch that is sent, as json.Unmarshal
\* takes it and over the defaults, is all there.
ReadConforms ==
    at = "sent" /\ input.tool = "batch" =>
        \A i \in DOMAIN input.list.entries : Conforms(Effective(input.list.entries[i]))

\* However members are spelled, nothing is sent that the handler itself found
\* wanting: a PDP is left with less only where it reads names otherwise than
\* json.Unmarshal does (tool_authzen.go:424-453).
THEOREM WhatWasReadConforms == Spec => []ReadConforms
  <1>1. IInv => ReadConforms
    <2> SUFFICES ASSUME IInv, at = "sent", input.tool = "batch",
                        NEW i \in DOMAIN input.list.entries
                 PROVE  Conforms(Effective(input.list.entries[i]))
      BY DEF ReadConforms
    <2>1. i \in 1..Len(input.list.entries)
      BY InputFields DEF IInv, IsList
    <2>2. EntryPasses(input.list.entries[i])
      BY <2>1 DEF IInv, ReadInv, EntriesChecked
    <2> QED BY <2>2, PassesWhenItConforms DEF EntryPasses
  <1> QED BY <1>1, Invariance, PTL

\* r's context is one that some entry of a batch gave as its own.
OwnContext(r) ==
    /\ input.tool = "batch"
    /\ \E i \in DOMAIN input.list.entries :
       \E j \in DOMAIN input.list.entries[i].slots["context"] :
          r["context"] = input.list.entries[i].slots["context"][j].value

ContextsRead ==
    at = "sent" => \A r \in Evaluations :
        r["context"].kind \in {"absent", "object"} \/ OwnContext(r)

\* The contexts of the entries are all that is sent unchecked: a context that is
\* not an object is one some entry gave as its own, and a call of authzen_evaluate
\* sends none (args.go:50-54, tool_authzen.go:431-453).
THEOREM OnlyEntryContextsGoUnchecked == Spec => []ContextsRead
  <1>1. IInv => ContextsRead
    <2> SUFFICES ASSUME IInv, at = "sent", NEW r \in Evaluations
                 PROVE  r["context"].kind \in {"absent", "object"} \/ OwnContext(r)
      BY DEF ContextsRead
    <2> DEFINE a == input.args["context"]
    <2>1. a.kind \in {"absent", "object"}
      BY DEF IInv, ReadInv, AllArgs, AllNames, Passes, jsonObjectArg
    <2>2. CASE input.tool = "evaluate"
      BY <2>1, <2>2 DEF Evaluations
    <2>3. CASE input.tool = "batch"
      <3> DEFINE l == input.list.entries
      <3>1. PICK i \in DOMAIN l : r = ReadByPDP(l[i])
        BY <2>3 DEF Evaluations
      <3>2. IsEntry(l[i]) /\ l[i].kind = "object" /\ IsList(l[i].slots["context"])
        <4>1. IsList(l) /\ i \in 1..Len(l)
          BY <2>3, <3>1, InputFields DEF IInv, IsList
        <4>2. IsEntry(l[i]) /\ EntryPasses(l[i])
          BY <2>3, <4>1, InputFields DEF IInv, ReadInv, EntriesChecked
        <4> QED BY <4>2 DEF IsEntry, EntryPasses
      <3> DEFINE s == l[i].slots["context"]
                 own == {j \in DOMAIN s : s[j].exact}
                 last == CHOOSE j \in own : \A x \in own : x <= j
      <3>3. r["context"] = IF own = {} THEN a ELSE s[last].value
        BY <3>1, <3>2 DEF ReadByPDP, IsEntry
      <3>4. CASE own = {}
        BY <2>1, <3>3, <3>4
      <3>5. CASE own # {}
        <4>1. Len(s) \in Nat /\ own \in SUBSET (0..Len(s))
          BY <3>2 DEF IsList
        <4>2. \E j \in own : \A x \in own : x <= j
          BY <3>5, <4>1, GreatestNumber
        <4>3. last \in DOMAIN s
          BY <4>2
        <4> QED BY <2>3, <3>1, <3>3, <3>5, <4>3 DEF OwnContext
      <3> QED BY <3>4, <3>5
    <2> QED BY <2>2, <2>3, InputFields DEF IInv
  <1> QED BY <1>1, Invariance, PTL
=============================================================================
