------------------------- MODULE AuthZENToolsProofs -------------------------
(***************************************************************************)
(* The safety properties of AuthZENTools for any number of calls, PDPs,     *)
(* batch entries and faults.  Each follows from the inductive invariant     *)
(* Inv, whose preservation is proved conjunct by conjunct, action by action.*)
(***************************************************************************)
EXTENDS AuthZENTools, NumberLemmas, TLAPS

(* Lemmas on the data. *)

\* A ruling on n evaluations is a sequence of n decisions.
LEMMA RulingIsSeq ==
    ASSUME NEW n \in Nat, NEW D \in [1..n -> Decision]
    PROVE  D \in Seq(Decision) /\ Len(D) = n /\ DOMAIN D = 1..n
  OBVIOUS

\* The leading part of a ruling is a sequence that agrees with it.
LEMMA PrefixOfRuling ==
    ASSUME NEW n \in Nat, NEW D \in [1..n -> Decision], NEW k \in 0..n
    PROVE  /\ SubSeq(D, 1, k) \in Seq(Decision)
           /\ Len(SubSeq(D, 1, k)) = k
           /\ \A i \in 1..k : SubSeq(D, 1, k)[i] = D[i]
  BY RulingIsSeq

\* A leading part of a ruling agrees with it place by place.
LEMMA LeadingOfRuling ==
    ASSUME NEW n \in Nat, NEW D \in [1..n -> Decision], NEW S \in Leading(D)
    PROVE  S \in Seq(Decision) /\ Len(S) <= n /\ \A i \in 1..Len(S) : S[i] = D[i]
  <1>1. PICK k \in 0..n : S = SubSeq(D, 1, k)
    BY RulingIsSeq DEF Leading
  <1> QED BY <1>1, PrefixOfRuling

\* It is what is left when the last decisions are left out.
LEMMA LeadingIsPart ==
    ASSUME NEW n \in Nat, NEW D \in [1..n -> Decision], NEW k \in 0..n
    PROVE  SubSeq(D, 1, k) \in Leading(D) /\ SubSeq(D, 1, k) \in Parts(D)
  <1>1. Len(D) = n
    BY RulingIsSeq
  <1> DEFINE f == [i \in 1..k |-> i]
  <1>2. f \in Picks(k, n)
    BY DEF Picks
  <1>3. SubSeq(D, 1, k) = [i \in 1..k |-> D[f[i]]]
    <2>1. SubSeq(D, 1, k) \in Seq(Decision) /\ Len(SubSeq(D, 1, k)) = k
          /\ \A i \in 1..k : SubSeq(D, 1, k)[i] = D[i]
      BY PrefixOfRuling
    <2> QED BY <2>1
  <1> HIDE DEF f
  <1> QED BY <1>1, <1>2, <1>3 DEF Leading, Parts

\* What is left of a ruling has its decisions, and all of them in their places if
\* there are as many.
LEMMA PartOfRuling ==
    ASSUME NEW n \in Nat, NEW D \in [1..n -> Decision], NEW S \in Parts(D)
    PROVE  /\ S \in Seq(Decision) /\ Len(S) <= n
           /\ Len(S) = n => S \in Leading(D)
  <1>1. Len(D) = n
    BY RulingIsSeq
  <1>2. PICK k \in 0..n : S \in {[i \in 1..k |-> D[f[i]]] : f \in Picks(k, n)}
    BY <1>1 DEF Parts
  <1>3. PICK f \in Picks(k, n) : S = [i \in 1..k |-> D[f[i]]]
    BY <1>2
  <1>4. f \in [1..k -> 1..n] /\ \A i, j \in 1..k : i < j => f[i] < f[j]
    BY DEF Picks
  <1>5. S \in [1..k -> Decision]
    BY <1>3, <1>4
  <1>6. S \in Seq(Decision) /\ Len(S) = k
    BY <1>5
  <1>7. ASSUME k = n PROVE S = SubSeq(D, 1, n)
    <2>1. \A i \in 1..n : f[i] = i
      BY <1>4, <1>7, IncreasingIsIdentity
    <2>2. \A i \in 1..n : S[i] = D[i]
      BY <1>3, <1>7, <2>1
    <2>3. SubSeq(D, 1, n) \in Seq(Decision) /\ Len(SubSeq(D, 1, n)) = n
          /\ \A i \in 1..n : SubSeq(D, 1, n)[i] = D[i]
      BY PrefixOfRuling
    <2> QED BY <1>6, <1>7, <2>2, <2>3
  <1> QED BY <1>1, <1>6, <1>7 DEF Leading

\* Whatever a PDP gets wrong in its decision members, the list is as long as
\* no request asked for, or has a hole, or is what is left of the ruling.
LEMMA ItemsTell ==
    ASSUME NEW r \in RequestSet, r.tool = "evaluate" => r.n = 1,
           r.tool = "evaluate" => r.semantic = "execute_all",
           NEW D \in [1..r.n -> Decision],
           NEW f \in FaultsFor(r), NEW items \in Items(f, r, D)
    PROVE  /\ items \in Seq(Pointer)
           /\ r.tool = "evaluate" => Len(items) = 1
           /\ (\A i \in 1..Len(items) : items[i] # "nil") /\ Len(items) <= r.n
                => items \in Parts(D)
  <1>n. r.n \in Nat /\ r.tool \in Tools
    BY DEF RequestSet
  <1>D. D \in Seq(Decision) /\ Len(D) = r.n
    BY <1>n, RulingIsSeq
  <1>f. r.tool = "evaluate" => f \notin {"short", "extra", "noMember"}
    BY DEF FaultsFor
  <1>p. ASSUME items \in Parts(D)
        PROVE  items \in Seq(Pointer)
    <2>1. items \in Seq(Decision)
      BY <1>p, <1>n, PartOfRuling
    <2> QED BY <2>1 DEF Pointer
  <1>1. CASE f = "short"
    <2>1. items \in Parts(D)
      BY <1>1 DEF Items
    <2> QED BY <1>1, <1>f, <2>1, <1>p
  <1>2. CASE f = "missing"
    <2>1. PICK j \in 1..r.n : items = [D EXCEPT ![j] = "nil"]
      BY <1>2 DEF Items
    <2>2. items \in [1..r.n -> Pointer] /\ items[j] = "nil"
      BY <2>1 DEF Pointer
    <2>3. items \in Seq(Pointer) /\ Len(items) = r.n
      BY <2>2, <1>n
    <2> QED BY <2>2, <2>3
  <1>3. CASE f = "extra"
    <2>1. PICK d \in Decision : items = <<d>> \o D
      BY <1>3 DEF Items
    <2>2. items \in Seq(Pointer) /\ Len(items) = r.n + 1
      BY <2>1, <1>D DEF Pointer
    <2> QED BY <2>2, <1>n, <1>3, <1>f
  <1>4. CASE f = "noMember"
    <2>1. items = <<>>
      BY <1>4 DEF Items
    <2>2. SubSeq(D, 1, 0) \in Parts(D) /\ SubSeq(D, 1, 0) = <<>>
      <3>1. 0 \in 0..r.n
        BY <1>n
      <3>2. SubSeq(D, 1, 0) \in Seq(Decision) /\ Len(SubSeq(D, 1, 0)) = 0
        BY <1>n, <3>1, PrefixOfRuling
      <3> QED BY <1>n, <3>1, <3>2, LeadingIsPart
    <2>3. items \in Parts(D)
      BY <2>1, <2>2
    <2> QED BY <2>3, <1>p, <1>4, <1>f
  <1>5. CASE f \notin {"short", "missing", "extra", "noMember"}
    <2>1. PICK k \in Stops(r.semantic, D) : items = SubSeq(D, 1, k)
      BY <1>5 DEF Items
    <2>2. k \in 0..r.n
      BY <1>D DEF Stops
    <2>3. r.semantic = "execute_all" => k = r.n
      BY <1>D DEF Stops
    <2>4. items \in Parts(D) /\ Len(items) = k
      BY <1>n, <2>1, <2>2, LeadingIsPart, PrefixOfRuling
    <2> QED BY <2>3, <2>4, <1>p
  <1> QED BY <1>1, <1>2, <1>3, <1>4, <1>5

-----------------------------------------------------------------------------
(* Lemmas on the state. *)

\* An answer that carries a call's id answers the request of that call.
LEMMA AnswerOfCall ==
    ASSUME Inv, NEW c \in Calls, NEW a \in AnswersTo(c)
    PROVE  /\ a \in AnswerSet
           /\ reqId[c] # ""
           /\ Accepts(args[c])
           /\ args[c] \in AllInputs
           /\ args[c].tool = "evaluate" => Len(a.items) = 1 /\ args[c].n = 1
           /\ a.ruling \in [1..args[c].n -> Decision]
           /\ HasDecisions(a) /\ Len(a.items) <= args[c].n => a.items \in Parts(a.ruling)
  <1>1. a \in answers /\ a \in AnswerSet /\ a.id = reqId[c]
    BY DEF AnswersTo, Inv, TypeOK
  <1>2. reqId[c] # ""
    BY <1>1, IdAssumption DEF AnswerSet
  <1>3. PICK r \in requests : Faithful(a, r)
    BY <1>1 DEF Inv, AnswerInv
  <1>4. r \in RequestSet /\ r.id = reqId[c] /\ reqId[r.call] = r.id
    BY <1>1, <1>3 DEF Faithful, Inv, TypeOK, RequestInv
  <1>5. r.call = c
    BY <1>2, <1>4 DEF Inv, CallInv, RequestSet
  <1>6. r.tool = args[c].tool /\ r.n = args[c].n
    BY <1>5 DEF Inv, RequestInv, Request
  <1>7. args[c] \in AllInputs /\ (args[c].tool = "evaluate" => args[c].n = 1)
    <2>1. NoArgs \in AllInputs /\ NoArgs.n = 1
      BY DEF NoArgs, AllInputs, Tools, URLs
    <2>2. args[c] \in Inputs \/ args[c] = NoArgs
      BY DEF Inv, TypeOK
    <2> QED BY <2>1, <2>2, InputAssumption
  <1>8. Accepts(args[c])
    BY <1>2 DEF Inv, CallInv
  <1> QED BY <1>1, <1>2, <1>3, <1>6, <1>7, <1>8 DEF Faithful

\* The six fields of an output make a result.
LEMMA FieldsMakeResult ==
    ASSUME NEW ds \in Seq([index: Nat, decision: Pointer]),
           NEW sem \in Semantics \cup {"", "other"}, NEW t \in BOOLEAN,
           NEW u \in URLs, NEW i \in RequestIds \cup {""}
    PROVE  [status |-> "ok", decisions |-> ds, semantic |-> sem,
            truncated |-> t, pdp_url |-> u, request_id |-> i] \in ResultSet
  BY DEF ResultSet

\* What a handler returns is a result.
LEMMA OutputIsResult ==
    ASSUME Inv, NEW c \in Calls, NEW a \in AnswersTo(c)
    PROVE  Output(c, a) \in ResultSet /\ Output(c, a).status = "ok"
  <1>1. a.items \in Seq(Pointer)
    BY AnswerOfCall DEF AnswerSet
  <1>2. args[c] \in AllInputs /\ reqId[c] \in RequestIds \cup {""}
    BY AnswerOfCall DEF Inv, TypeOK
  <1>3. EndpointOf(args[c]) \in URLs
    BY <1>2, URLAssumption DEF EndpointOf, AllInputs
  <1>4. <<>> \in Seq([index: Nat, decision: Pointer])
    OBVIOUS
  <1>5. CASE args[c].tool = "evaluate"
    <2>0. Len(a.items) = 1
      BY <1>5, AnswerOfCall
    <2>1. a.items[1] \in Pointer
      BY <1>1, <2>0
    <2>2. <<[index |-> 0, decision |-> a.items[1]]>> \in Seq([index: Nat, decision: Pointer])
      BY <2>1
    <2> QED BY <1>5, <1>2, <1>3, <2>2 DEF Output, Blank, ResultSet
  <1>6. CASE args[c].tool = "batch"
    <2> DEFINE ds == [i \in 1..Len(a.items) |-> [index |-> i - 1, decision |-> a.items[i]]]
    <2>1. ds \in Seq([index: Nat, decision: Pointer])
      <3>1. Len(a.items) \in Nat /\ \A i \in 1..Len(a.items) : a.items[i] \in Pointer
        BY <1>1
      <3>2. ds \in [1..Len(a.items) -> [index: Nat, decision: Pointer]]
        BY <3>1
      <3> QED BY <3>1, <3>2
    <2> DEFINE t == Truncated(c, a)
    <2>2. t \in BOOLEAN
      BY DEF Truncated
    <2>3. args[c].semantic \in Semantics \cup {"", "other"}
      BY <1>2 DEF AllInputs
    <2>4. Output(c, a) = [status |-> "ok", decisions |-> ds,
            semantic |-> args[c].semantic, truncated |-> t,
            pdp_url |-> EndpointOf(args[c]), request_id |-> reqId[c]]
      BY <1>6 DEF Output
    <2>5. Output(c, a).status = "ok"
      BY <1>6 DEF Output
    <2> HIDE DEF ds, t
    <2>6. [status |-> "ok", decisions |-> ds, semantic |-> args[c].semantic,
           truncated |-> t, pdp_url |-> EndpointOf(args[c]), request_id |-> reqId[c]]
          \in ResultSet
      BY <1>2, <1>3, <2>1, <2>2, <2>3, FieldsMakeResult
    <2> QED BY <2>4, <2>5, <2>6, Zenon
  <1>7. CASE args[c].tool \notin {"evaluate", "batch"}
    BY <1>7, <1>3, <1>4 DEF Output, Blank, ResultSet
  <1> QED BY <1>5, <1>6, <1>7

\* A call that has its result keeps the answer it was built from.
LEMMA ResultStands ==
    ASSUME Inv, NEW d \in Calls, result[d].status = "ok",
           result'[d] = result[d], args'[d] = args[d], reqId'[d] = reqId[d],
           answers \subseteq answers'
    PROVE  /\ reqId'[d] # ""
           /\ \E a \in AnswersTo(d)' : Usable(d, a)' /\ result'[d] = Output(d, a)'
  <1>1. PICK a \in AnswersTo(d) : Usable(d, a) /\ result[d] = Output(d, a)
    BY DEF Inv, ResultInv
  <1>2. a \in AnswersTo(d)' /\ Usable(d, a)' /\ Output(d, a)' = Output(d, a)
    BY <1>1 DEF AnswersTo, Usable, Output, Matches, Truncated
  <1> QED BY <1>1, <1>2, AnswerOfCall

\* Before it sends, a call has no request and no result.
LEMMA NothingSentYet ==
    ASSUME Inv, NEW c \in Calls, pc[c] = "idle"
    PROVE  /\ reqId[c] = "" /\ result[c].status = "none"
           /\ \A r \in requests : r.call \in Calls \ {c}
  <1>1. reqId[c] = ""
    BY DEF Inv, CallInv
  <1>2. result[c].status = "none"
    <2>1. result[c] = Blank
      BY DEF Inv, CallInv
    <2>2. Blank.status = "none"
      BY DEF Blank
    <2> QED BY <2>1, <2>2
  <1>3. ASSUME NEW r \in requests PROVE r.call \in Calls \ {c}
    <2>1. r.call \in Calls /\ r.id \in RequestIds /\ reqId[r.call] = r.id
      BY DEF Inv, TypeOK, RequestSet, RequestInv
    <2> QED BY <2>1, <1>1, IdAssumption
  <1> QED BY <1>1, <1>2, <1>3

\* The requests of the other calls stay what their arguments made them.
LEMMA RequestsStand ==
    ASSUME Inv, NEW c \in Calls, NEW r \in requests, r.call \in Calls \ {c},
           \A d \in Calls \ {c} : args'[d] = args[d] /\ reqId'[d] = reqId[d]
    PROVE  reqId'[r.call] = r.id /\ r = Request(r.call, args'[r.call], r.id)
  BY DEF Inv, RequestInv

\* Every way a call ends keeps the invariant: with an error, or with a result
\* built from a usable answer to its own request.
LEMMA FinishKeepsInv ==
    ASSUME Inv, NEW c \in Calls, NEW r \in ResultSet, Finish(c, r),
           pc[c] # "idle", r.status # "none",
           r.status = "ok" => \E a \in AnswersTo(c) : Usable(c, a) /\ r = Output(c, a),
           UNCHANGED <<args, reqId, requests, answers, ctxDone>>
    PROVE  Inv'
  <1>1. TypeOK'
    BY DEF Inv, TypeOK, Finish
  <1>2. CallInv'
    BY DEF Inv, TypeOK, CallInv, Finish, Accepts, Resolves, EndpointOf
  <1>3. RequestInv'
    BY DEF Inv, RequestInv, Request, EndpointOf
  <1>4. AnswerInv'
    BY DEF Inv, AnswerInv, Faithful, HasDecisions
  <1>5. ResultInv'
    <2>1. ASSUME NEW d \in Calls, result'[d].status = "ok"
          PROVE  /\ reqId'[d] # ""
                 /\ \E a \in AnswersTo(d)' : Usable(d, a)' /\ result'[d] = Output(d, a)'
      <3>1. CASE d = c
        <4>1. result'[d] = r
          BY <3>1 DEF Inv, TypeOK, Finish
        <4>2. PICK a \in AnswersTo(d) : Usable(d, a) /\ r = Output(d, a)
          BY <2>1, <3>1, <4>1
        <4>3. a \in AnswersTo(d)' /\ Usable(d, a)' /\ Output(d, a)' = Output(d, a)
          BY <4>2 DEF AnswersTo, Usable, Output, Matches, Truncated
        <4> QED BY <4>1, <4>2, <4>3, AnswerOfCall
      <3>2. CASE d # c
        BY <2>1, <3>2, ResultStands DEF Inv, TypeOK, Finish
      <3> QED BY <3>1, <3>2
    <2> QED BY <2>1 DEF ResultInv
  <1> QED BY <1>1, <1>2, <1>3, <1>4, <1>5 DEF Inv

-----------------------------------------------------------------------------
(* The invariant is inductive. *)

\* An error result is a result (toolErrorf, args.go:15-20).
LEMMA ErrorIsResult == ToolError \in ResultSet /\ ToolError.status = "error"
  <1>1. <<>> \in Seq([index: Nat, decision: Pointer])
    OBVIOUS
  <1> QED BY <1>1 DEF ToolError, Blank, ResultSet, URLs

\* The invariant holds before any call.
LEMMA InitInv == Init => Inv
  <1> SUFFICES ASSUME Init PROVE Inv
    OBVIOUS
  <1>1. Blank \in ResultSet /\ Blank.status = "none"
    <2>1. <<>> \in Seq([index: Nat, decision: Pointer])
      OBVIOUS
    <2> QED BY <2>1 DEF Blank, ResultSet, URLs
  <1>2. TypeOK
    BY <1>1 DEF Init, TypeOK
  <1>3. CallInv /\ ResultInv
    BY <1>1 DEF Init, CallInv, ResultInv
  <1>4. RequestInv /\ AnswerInv
    BY DEF Init, RequestInv, AnswerInv
  <1> QED BY <1>2, <1>3, <1>4 DEF Inv

\* Refusing arguments ends one call that never sent anything.
LEMMA RejectKeepsInv ==
    ASSUME Inv, NEW c \in Calls, RejectArguments(c)
    PROVE  Inv'
  <1> USE DEF RejectArguments, Finish
  <1>0. reqId[c] = "" /\ \A r \in requests : r.call \in Calls \ {c}
    BY NothingSentYet
  <1>1. TypeOK'
    BY ErrorIsResult DEF Inv, TypeOK
  <1>2. CallInv'
    BY <1>0, ErrorIsResult DEF Inv, TypeOK, CallInv, Accepts, Resolves, EndpointOf
  <1>3. RequestInv'
    <2>1. \A d \in Calls \ {c} : args'[d] = args[d] /\ reqId'[d] = reqId[d]
      BY DEF Inv, TypeOK
    <2> QED BY <1>0, <2>1, RequestsStand DEF RequestInv, Request, EndpointOf
  <1>4. AnswerInv'
    BY DEF Inv, AnswerInv
  <1>5. ResultInv'
    <2>1. ASSUME NEW d \in Calls, result'[d].status = "ok"
          PROVE  /\ reqId'[d] # ""
                 /\ \E a \in AnswersTo(d)' : Usable(d, a)' /\ result'[d] = Output(d, a)'
      <3>1. d # c
        BY <2>1, ErrorIsResult DEF Inv, TypeOK
      <3> QED BY <2>1, <3>1, ResultStands DEF Inv, TypeOK
    <2> QED BY <2>1 DEF ResultInv
  <1> QED BY <1>1, <1>2, <1>3, <1>4, <1>5 DEF Inv

\* Sending adds one request, under an id no other call has.
LEMMA SendKeepsInv ==
    ASSUME Inv, NEW c \in Calls, Send(c)
    PROVE  Inv'
  <1>0. PICK a \in Inputs, id \in FreshIds :
          /\ Accepts(a)
          /\ args' = [args EXCEPT ![c] = a]
          /\ reqId' = [reqId EXCEPT ![c] = id]
          /\ requests' = requests \cup {Request(c, a, id)}
    BY DEF Send
  <1>a. /\ pc[c] = "idle" /\ pc' = [pc EXCEPT ![c] = "await"]
        /\ UNCHANGED <<answers, ctxDone, result>>
    BY DEF Send
  <1>b. id \in RequestIds /\ id # "" /\ \A d \in Calls : reqId[d] # id
    BY IdAssumption DEF FreshIds
  <1>c. /\ reqId[c] = "" /\ result[c].status = "none"
        /\ \A r \in requests : r.call \in Calls \ {c}
    BY <1>a, NothingSentYet
  <1>d. \A d \in Calls \ {c} : args'[d] = args[d] /\ reqId'[d] = reqId[d]
    BY <1>0 DEF Inv, TypeOK
  <1>1. TypeOK'
    <2>1. a \in AllInputs /\ EndpointOf(a) \in PDPs
      BY <1>0, InputAssumption DEF Accepts, Resolves
    <2>2. Request(c, a, id) \in RequestSet
      BY <1>0, <1>b, <2>1 DEF Accepts, Request, RequestSet, AllInputs, Semantics
    <2> QED BY <1>0, <1>a, <1>b, <2>2 DEF Inv, TypeOK
  <1>2. CallInv'
    BY <1>0, <1>a, <1>b, <1>c DEF Inv, TypeOK, CallInv, Accepts, Resolves, EndpointOf
  <1>3. RequestInv'
    <2>1. \A r \in requests : reqId'[r.call] = r.id /\ r = Request(r.call, args'[r.call], r.id)
      BY <1>c, <1>d, RequestsStand
    <2>2. args'[c] = a /\ reqId'[c] = id
      BY <1>0 DEF Inv, TypeOK
    <2>3. Request(c, a, id).call = c /\ Request(c, a, id).id = id
      BY DEF Request
    <2>4. \A r \in requests' : reqId'[r.call] = r.id /\ r = Request(r.call, args'[r.call], r.id)
      BY <1>0, <2>1, <2>2, <2>3
    <2> QED BY <2>4 DEF RequestInv, Request, EndpointOf
  <1>4. AnswerInv'
    BY <1>0, <1>a DEF Inv, AnswerInv
  <1>5. ResultInv'
    <2>1. ASSUME NEW d \in Calls, result'[d].status = "ok"
          PROVE  /\ reqId'[d] # ""
                 /\ \E b \in AnswersTo(d)' : Usable(d, b)' /\ result'[d] = Output(d, b)'
      <3>1. d # c /\ result'[d] = result[d]
        BY <2>1, <1>a, <1>c
      <3> QED BY <2>1, <3>1, <1>a, <1>d, ResultStands
    <2> QED BY <2>1 DEF ResultInv
  <1> QED BY <1>1, <1>2, <1>3, <1>4, <1>5 DEF Inv

\* The steps that move a call along without ending it.
LEMMA WaitKeepsInv ==
    ASSUME Inv, NEW c \in Calls, ContextDone(c) \/ ReceiveHeader(c)
    PROVE  Inv'
  <1>0. UNCHANGED <<args, reqId, requests, answers, result>>
    BY DEF ContextDone, ReceiveHeader
  <1>1. TypeOK' /\ CallInv'
    <2>1. CASE ContextDone(c)
      BY <2>1 DEF Inv, TypeOK, CallInv, ContextDone, Accepts, Resolves, EndpointOf
    <2>2. CASE ReceiveHeader(c)
      BY <2>2 DEF Inv, TypeOK, CallInv, ReceiveHeader, Accepts, Resolves, EndpointOf
    <2> QED BY <2>1, <2>2
  <1>2. RequestInv' /\ AnswerInv'
    BY <1>0 DEF Inv, RequestInv, AnswerInv, Request
  <1>3. ResultInv'
    <2>1. \A d \in Calls : result'[d].status = "ok" =>
            /\ reqId'[d] # ""
            /\ \E a \in AnswersTo(d)' : Usable(d, a)' /\ result'[d] = Output(d, a)'
      BY <1>0, ResultStands
    <2> QED BY <2>1 DEF ResultInv
  <1> QED BY <1>1, <1>2, <1>3 DEF Inv

\* A PDP adds one faithful answer, the first to carry its id.
LEMMA PDPAnswersKeepsInv ==
    ASSUME Inv, NEW r \in requests, PDPAnswers(r)
    PROVE  Inv'
  <1>0. UNCHANGED <<pc, args, reqId, requests, ctxDone, result>>
    BY DEF PDPAnswers
  <1>1. PICK f \in FaultsFor(r), D \in [1..r.n -> Decision] :
        \E items \in Items(f, r, D), size \in Sizes(f) :
          answers' = answers \cup {AnswerTo(r, f, D, items, size)}
    BY DEF PDPAnswers
  <1>2. PICK items \in Items(f, r, D), size \in Sizes(f) :
          answers' = answers \cup {AnswerTo(r, f, D, items, size)}
    BY <1>1
  <1> DEFINE st == IF f \in {"status", "redirect"} THEN f ELSE "ok"
             mb == f # "noMember"
             js == f # "malformed"
             new == AnswerTo(r, f, D, items, size)
  <1>3. r \in RequestSet
    BY DEF Inv, TypeOK
  <1>4. (r.tool = "evaluate" => r.n = 1 /\ r.semantic = "execute_all")
    <2>1. r.call \in Calls /\ r = Request(r.call, args[r.call], r.id)
      BY <1>3 DEF Inv, RequestInv, RequestSet
    <2>2. r.tool = args[r.call].tool /\ r.n = args[r.call].n
          /\ (r.tool # "batch" => r.semantic = "execute_all")
      BY <2>1 DEF Request
    <2>3. args[r.call] \in Inputs \/ args[r.call] = NoArgs
      BY <2>1 DEF Inv, TypeOK
    <2>4. NoArgs.n = 1
      BY DEF NoArgs
    <2> QED BY <2>2, <2>3, <2>4, InputAssumption
  <1>5. /\ items \in Seq(Pointer)
        /\ r.tool = "evaluate" => Len(items) = 1
        /\ (\A i \in 1..Len(items) : items[i] # "nil") /\ Len(items) <= r.n
             => items \in Parts(D)
    BY <1>3, <1>4, ItemsTell
  <1>6. size[1] \in Nat /\ size[2] \in Nat
    BY BoundAssumption DEF Sizes
  <1>7. new \in AnswerSet
    <2>1. st \in {"ok", "status", "redirect"} /\ mb \in BOOLEAN /\ js \in BOOLEAN
      OBVIOUS
    <2>2. r.id \in RequestIds /\ r.to \in PDPs
      BY <1>3 DEF RequestSet
    <2>3. D \in Seq(Decision)
      BY <1>3, RulingIsSeq DEF RequestSet
    <2>4. new = [id |-> r.id, from |-> r.to, ruling |-> D, items |-> items,
                 status |-> st, member |-> mb, json |-> js,
                 len |-> size[1], tail |-> size[2]]
      BY Zenon DEF AnswerTo
    <2> HIDE DEF st, mb, js, new
    <2>5. [id |-> r.id, from |-> r.to, ruling |-> D, items |-> items,
           status |-> st, member |-> mb, json |-> js,
           len |-> size[1], tail |-> size[2]] \in AnswerSet
      BY <1>5, <1>6, <2>1, <2>2, <2>3 DEF AnswerSet
    <2> QED BY <2>4, <2>5, Zenon
  <1>8. new.id = r.id /\ new.from = r.to /\ new.ruling = D /\ new.items = items
    BY DEF AnswerTo
  <1>9. answers' = answers \cup {new}
    BY <1>2
  <1> HIDE DEF new
  <1>a. TypeOK'
    BY <1>0, <1>7, <1>9 DEF Inv, TypeOK
  <1>b. CallInv' /\ RequestInv'
    <2>1. CallInv'
      BY <1>0 DEF Inv, CallInv, Accepts, Resolves, EndpointOf
    <2>2. RequestInv'
      BY <1>0 DEF Inv, RequestInv, Request, EndpointOf
    <2> QED BY <2>1, <2>2
  <1>c. AnswerInv'
    <2>1. Faithful(new, r)
      BY <1>5, <1>8 DEF Faithful, HasDecisions
    <2>2. \A a \in answers : a.id # r.id
      BY DEF PDPAnswers
    <2>3. \A a \in answers' : \E q \in requests' : Faithful(a, q)
      BY <1>0, <1>9, <2>1 DEF Inv, AnswerInv
    <2>4. \A a, b \in answers' : a.id = b.id => a = b
      BY <1>8, <1>9, <2>2 DEF Inv, AnswerInv
    <2> QED BY <2>3, <2>4 DEF AnswerInv
  <1>d. ResultInv'
    <2>1. \A d \in Calls : result'[d].status = "ok" =>
            /\ reqId'[d] # ""
            /\ \E a \in AnswersTo(d)' : Usable(d, a)' /\ result'[d] = Output(d, a)'
      BY <1>0, <1>9, ResultStands
    <2> QED BY <2>1 DEF ResultInv
  <1> QED BY <1>a, <1>b, <1>c, <1>d DEF Inv

\* Every step keeps the invariant, action by action.
LEMMA StepInv == Inv /\ [Next]_vars => Inv'
  <1> SUFFICES ASSUME Inv, [Next]_vars PROVE Inv'
    OBVIOUS
  <1>e. ASSUME NEW c \in Calls, pc[c] \in {"await", "body"}, Finish(c, ToolError),
               UNCHANGED <<args, reqId, requests, answers, ctxDone>>
        PROVE  Inv'
    BY <1>e, ErrorIsResult, FinishKeepsInv
  <1>1. ASSUME NEW c \in Calls, RejectArguments(c) PROVE Inv'
    BY <1>1, RejectKeepsInv
  <1>2. ASSUME NEW c \in Calls, Send(c) PROVE Inv'
    BY <1>2, SendKeepsInv
  <1>3. ASSUME NEW c \in Calls, ContextDone(c) PROVE Inv'
    BY <1>3, WaitKeepsInv
  <1>4. ASSUME NEW c \in Calls, Abort(c) PROVE Inv'
    BY <1>4, <1>e DEF Abort
  <1>5. ASSUME NEW c \in Calls, NetworkError(c) PROVE Inv'
    BY <1>5, <1>e DEF NetworkError
  <1>6. ASSUME NEW c \in Calls, ReceiveHeader(c) PROVE Inv'
    BY <1>6, WaitKeepsInv
  <1>7. ASSUME NEW c \in Calls, RefuseRedirect(c) PROVE Inv'
    BY <1>7, <1>e DEF RefuseRedirect
  <1>8. ASSUME NEW c \in Calls, UseBody(c) PROVE Inv'
    <2>1. PICK a \in AnswersTo(c) :
            Finish(c, IF Usable(c, a) THEN Output(c, a) ELSE ToolError)
      BY <1>8 DEF UseBody
    <2>2. pc[c] = "body" /\ UNCHANGED <<args, reqId, requests, answers, ctxDone>>
      BY <1>8 DEF UseBody
    <2>3. CASE Usable(c, a)
      <3>1. Finish(c, Output(c, a))
        BY <2>1, <2>3
      <3>2. Output(c, a) \in ResultSet /\ Output(c, a).status = "ok"
        BY OutputIsResult
      <3> QED BY <2>2, <2>3, <3>1, <3>2, FinishKeepsInv
    <2>4. CASE ~Usable(c, a)
      BY <2>1, <2>2, <2>4, <1>e
    <2> QED BY <2>3, <2>4
  <1>9. ASSUME NEW r \in requests, PDPAnswers(r) PROVE Inv'
    BY <1>9, PDPAnswersKeepsInv
  <1>10. ASSUME UNCHANGED vars PROVE Inv'
    <2> USE <1>10 DEF vars
    <2>1. TypeOK' /\ AnswerInv'
      BY DEF Inv, TypeOK, AnswerInv
    <2>2. CallInv'
      BY DEF Inv, CallInv, Accepts, Resolves, EndpointOf
    <2>3. RequestInv'
      BY DEF Inv, RequestInv, Request, EndpointOf
    <2>4. \A d \in Calls : result'[d].status = "ok" =>
            /\ reqId'[d] # ""
            /\ \E a \in AnswersTo(d)' : Usable(d, a)' /\ result'[d] = Output(d, a)'
      BY ResultStands
    <2> QED BY <2>1, <2>2, <2>3, <2>4 DEF Inv, ResultInv
  <1> QED BY <1>1, <1>2, <1>3, <1>4, <1>5, <1>6, <1>7, <1>8, <1>9, <1>10
      DEF Next, Call, AllAnswered

\* The bookkeeping of calls, requests, answers and results agrees in every
\* reachable state, and with it every variable has its type.
THEOREM Invariance == Spec => []Inv
  BY InitInv, StepInv, PTL DEF Spec

\* Every variable keeps its type.
THEOREM TypeCorrectness == Spec => []TypeOK
  <1>1. Inv => TypeOK
    BY DEF Inv
  <1> QED BY <1>1, Invariance, PTL

-----------------------------------------------------------------------------
(* What the invariant says of the results. *)

\* What a usable answer to a call that asks for decisions is, and what the
\* handler makes of it.
LEMMA OutputFields ==
    ASSUME Inv, NEW c \in Calls, NEW a \in AnswersTo(c), Usable(c, a),
           args[c].tool # "discover"
    PROVE  /\ a.items \in Seq(Pointer)
           /\ args[c].n \in Nat /\ Len(a.items) <= args[c].n
           /\ a.ruling \in [1..args[c].n -> Decision]
           /\ a.items \in Parts(a.ruling)
           /\ Output(c, a).status = "ok"
           /\ Output(c, a).pdp_url = EndpointOf(args[c])
           /\ Output(c, a).request_id = reqId[c]
           /\ Len(Output(c, a).decisions) = Len(a.items)
           /\ \A i \in 1..Len(a.items) :
                 /\ Output(c, a).decisions[i].index = i - 1
                 /\ Output(c, a).decisions[i].decision = a.items[i]
           /\ Output(c, a).truncated <=> Len(a.items) < args[c].n
  <1>3. /\ a \in AnswerSet /\ args[c] \in AllInputs
        /\ args[c].tool = "evaluate" => Len(a.items) = 1 /\ args[c].n = 1
        /\ a.ruling \in [1..args[c].n -> Decision]
        /\ HasDecisions(a) /\ Len(a.items) <= args[c].n => a.items \in Parts(a.ruling)
    BY AnswerOfCall
  <1>4. HasDecisions(a) /\ Len(a.items) <= args[c].n
    BY DEF Usable, Matches
  <1>5. a.items \in Seq(Pointer) /\ Len(a.items) \in Nat /\ args[c].n \in Nat
    <2>1. a.items \in Seq(Pointer)
      BY <1>3 DEF AnswerSet
    <2>2. args[c].n \in Nat
      BY <1>3 DEF AllInputs
    <2> QED BY <2>1, <2>2
  <1>7. /\ Output(c, a).pdp_url = EndpointOf(args[c])
        /\ Output(c, a).request_id = reqId[c]
        /\ Len(Output(c, a).decisions) = Len(a.items)
        /\ \A i \in 1..Len(a.items) :
              /\ Output(c, a).decisions[i].index = i - 1
              /\ Output(c, a).decisions[i].decision = a.items[i]
        /\ Output(c, a).truncated <=> Len(a.items) < args[c].n
    <2>1. CASE args[c].tool = "evaluate"
      <3> DEFINE one == [index |-> 0, decision |-> a.items[1]]
      <3>1. Output(c, a).decisions = <<one>> /\ Output(c, a).pdp_url = EndpointOf(args[c])
            /\ Output(c, a).request_id = reqId[c]
        BY <2>1 DEF Output, Blank
      <3>2. Output(c, a).truncated = FALSE
        BY <2>1 DEF Output, Blank
      <3>3. Len(a.items) = 1 /\ args[c].n = 1
        BY <2>1, <1>3
      <3>4. \A i \in 1..Len(a.items) :
              /\ Output(c, a).decisions[i].index = i - 1
              /\ Output(c, a).decisions[i].decision = a.items[i]
        BY <3>1, <3>3
      <3> QED BY <3>1, <3>2, <3>3, <3>4
    <2>2. CASE args[c].tool = "batch"
      <3> DEFINE ds == [i \in 1..Len(a.items) |-> [index |-> i - 1, decision |-> a.items[i]]]
      <3>1. Output(c, a).decisions = ds /\ Output(c, a).pdp_url = EndpointOf(args[c])
            /\ Output(c, a).request_id = reqId[c]
        BY <2>2 DEF Output
      <3>2. Output(c, a).truncated <=> Len(a.items) < args[c].n
        BY <2>2 DEF Output, Truncated
      <3>3. Len(ds) = Len(a.items)
        BY <1>5
      <3> QED BY <3>1, <3>2, <3>3
    <2>3. args[c].tool \in {"evaluate", "batch"}
      BY <1>3 DEF AllInputs, Tools
    <2> QED BY <2>1, <2>2, <2>3
  <1> QED BY <1>3, <1>4, <1>5, <1>7, OutputIsResult

\* A decision given to a caller comes from a usable answer to its own request,
\* member by member and index by index.
LEMMA WhereDecisionsComeFrom ==
    ASSUME Inv, NEW c \in Calls, IsDecision(c)
    PROVE  \E a \in Traced(c) :
             /\ a.items \in Seq(Pointer)
             /\ args[c].n \in Nat /\ Len(a.items) <= args[c].n
             /\ a.ruling \in [1..args[c].n -> Decision]
             /\ a.items \in Parts(a.ruling)
             /\ Len(result[c].decisions) = Len(a.items)
             /\ \A i \in 1..Len(a.items) :
                   /\ result[c].decisions[i].index = i - 1
                   /\ result[c].decisions[i].decision = a.items[i]
             /\ result[c].truncated <=> Len(a.items) < args[c].n
  <1>1. PICK a \in AnswersTo(c) : Usable(c, a) /\ result[c] = Output(c, a)
    BY DEF Inv, ResultInv, IsDecision
  <1>2. args[c].tool # "discover"
    BY DEF IsDecision
  <1>3. result[c].pdp_url = EndpointOf(args[c]) /\ result[c].request_id = reqId[c]
    BY <1>1, <1>2, OutputFields
  <1>4. a \in Traced(c)
    BY <1>3 DEF Traced, AnswersTo
  <1> QED BY <1>1, <1>2, <1>4, OutputFields

\* A decision the PDP did not make is in no result, and one it made is never tied
\* to another evaluation unless a list marked truncated lacks an earlier one.
THEOREM NoDecisionIsFabricated == Spec => []NoFabricatedDecision
  <1>1. Inv => NoFabricatedDecision
    <2> SUFFICES ASSUME Inv, NEW c \in Calls, IsDecision(c)
                 PROVE  \E a \in Traced(c) :
                          /\ Reported(c) \in Parts(a.ruling)
                          /\ a.items \in Leading(a.ruling) \/ ~result[c].truncated
                               => InPlace(c, a)
      BY DEF NoFabricatedDecision
    <2>1. PICK a \in Traced(c) :
             /\ a.items \in Seq(Pointer) /\ args[c].n \in Nat
             /\ a.ruling \in [1..args[c].n -> Decision]
             /\ a.items \in Parts(a.ruling) /\ Len(a.items) <= args[c].n
             /\ Len(result[c].decisions) = Len(a.items)
             /\ \A i \in 1..Len(a.items) :
                   result[c].decisions[i].index = i - 1 /\ result[c].decisions[i].decision = a.items[i]
             /\ result[c].truncated <=> Len(a.items) < args[c].n
      BY WhereDecisionsComeFrom
    <2>2. Len(a.items) \in Nat /\ a.items = [i \in 1..Len(a.items) |-> a.items[i]]
      BY <2>1
    <2>3. Reported(c) = a.items
      <3>1. Reported(c) = [i \in 1..Len(a.items) |-> result[c].decisions[i].decision]
        BY <2>1 DEF Reported
      <3> QED BY <2>1, <2>2, <3>1
    <2>4. ASSUME a.items \in Leading(a.ruling) \/ ~result[c].truncated
          PROVE  InPlace(c, a)
      <3>1. ~result[c].truncated => Len(a.items) = args[c].n
        BY <2>1, <2>2
      <3>2. a.items \in Leading(a.ruling)
        BY <2>1, <2>4, <3>1, PartOfRuling
      <3>3. \A i \in 1..Len(a.items) : a.items[i] = a.ruling[i]
        BY <2>1, <3>2, LeadingOfRuling
      <3>4. ASSUME NEW i \in 1..Len(result[c].decisions)
            PROVE  /\ result[c].decisions[i].index + 1 \in DOMAIN a.ruling
                   /\ result[c].decisions[i].decision
                        = a.ruling[result[c].decisions[i].index + 1]
        <4>1. i \in 1..Len(a.items)
          BY <2>1, <3>4
        <4>2. result[c].decisions[i].index = i - 1 /\ result[c].decisions[i].decision = a.items[i]
          BY <2>1, <4>1
        <4>3. result[c].decisions[i].index + 1 = i /\ i \in 1..args[c].n
          BY <2>1, <2>2, <4>1, <4>2
        <4> QED BY <2>1, <3>3, <4>1, <4>2, <4>3
      <3> QED BY <3>4 DEF InPlace
    <2> QED BY <2>1, <2>3, <2>4
  <1> QED BY <1>1, Invariance, PTL

\* A batch result whose truncated flag is clear decides every evaluation.
THEOREM ClearFlagMeansComplete == Spec => []CompleteUnlessTruncated
  <1>1. Inv => CompleteUnlessTruncated
    <2> SUFFICES ASSUME Inv, NEW c \in Calls, IsDecision(c), ~result[c].truncated
                 PROVE  {result[c].decisions[i].index : i \in 1..Len(result[c].decisions)}
                          = 0..(args[c].n - 1)
      BY DEF CompleteUnlessTruncated
    <2>1. PICK a \in Traced(c) :
             /\ a.items \in Seq(Pointer) /\ args[c].n \in Nat
             /\ Len(a.items) <= args[c].n
             /\ Len(result[c].decisions) = Len(a.items)
             /\ \A i \in 1..Len(a.items) :
                   result[c].decisions[i].index = i - 1 /\ result[c].decisions[i].decision = a.items[i]
             /\ result[c].truncated <=> Len(a.items) < args[c].n
      BY WhereDecisionsComeFrom
    <2>2. args[c].n \in Nat
      BY <2>1
    <2>3. Len(result[c].decisions) = args[c].n
      <3>1. Len(a.items) \in Nat
        BY <2>1
      <3>2. ~(Len(a.items) < args[c].n)
        BY <2>1
      <3> QED BY <2>1, <2>2, <3>1, <3>2
    <2>4. \A i \in 1..args[c].n : result[c].decisions[i].index = i - 1
      <3>1. Len(a.items) = args[c].n
        BY <2>1, <2>3
      <3>2. ASSUME NEW i \in 1..Len(a.items) PROVE result[c].decisions[i].index = i - 1
        BY <2>1
      <3> QED BY <3>1, <3>2
    <2>5. \A j \in 0..(args[c].n - 1) : j + 1 \in 1..args[c].n /\ j = (j + 1) - 1
      BY <2>2
    <2> DEFINE index == {result[c].decisions[i].index : i \in 1..Len(result[c].decisions)}
    <2>6. index = {result[c].decisions[i].index : i \in 1..args[c].n}
      BY <2>3
    <2>7. \A j \in index : j \in 0..(args[c].n - 1)
      <3> TAKE j \in index
      <3>1. PICK i \in 1..args[c].n : j = result[c].decisions[i].index
        BY <2>6
      <3>2. j = i - 1
        BY <2>4, <3>1
      <3> HIDE DEF index
      <3> QED BY <2>2, <3>2
    <2>8. \A j \in 0..(args[c].n - 1) : j \in index
      <3> TAKE j \in 0..(args[c].n - 1)
      <3>1. j + 1 \in 1..args[c].n /\ result[c].decisions[j + 1].index = j
        BY <2>2, <2>4, <2>5
      <3> QED BY <2>6, <3>1
    <2> QED BY <2>7, <2>8
  <1> QED BY <1>1, Invariance, PTL

\* A call sends its request, and the Authorization header on it, to its own
\* endpoint only, and none at all when its arguments were refused.
THEOREM RequestsNeverStray == Spec => []RequestsStayAtEndpoint
  <1>1. Inv => RequestsStayAtEndpoint
    <2> SUFFICES ASSUME Inv, NEW r \in requests
                 PROVE  r.to = EndpointOf(args[r.call]) /\ Accepts(args[r.call])
      BY DEF RequestsStayAtEndpoint
    <2>1. r \in RequestSet /\ reqId[r.call] = r.id /\ r = Request(r.call, args[r.call], r.id)
      BY DEF Inv, TypeOK, RequestInv
    <2>2. Accepts(args[r.call])
      BY <2>1, IdAssumption DEF Inv, CallInv, RequestSet
    <2>3. Request(r.call, args[r.call], r.id).to = EndpointOf(args[r.call])
      BY DEF Request
    <2> QED BY <2>1, <2>2, <2>3
  <1> QED BY <1>1, Invariance, PTL

\* The semantic a result reports is the one its PDP was asked to apply, so an
\* answer that honours one honours the other.
THEOREM SemanticsAreReported == Spec => []SemanticIsApplied
  <1>1. Inv => SemanticIsApplied
    <2> SUFFICES ASSUME Inv, NEW c \in Calls, NEW a \in Traced(c), NEW r \in requests,
                        IsDecision(c), r.id = a.id,
                        a.items \in {SubSeq(a.ruling, 1, k) : k \in Stops(r.semantic, a.ruling)}
                 PROVE  Len(result[c].decisions) \in
                          Stops(IF args[c].tool = "batch" THEN result[c].semantic
                                ELSE "execute_all", a.ruling)
      BY DEF SemanticIsApplied
    <2>1. PICK b \in Traced(c) :
             /\ Len(result[c].decisions) = Len(b.items)
             /\ args[c].n \in Nat /\ b.ruling \in [1..args[c].n -> Decision]
      BY WhereDecisionsComeFrom
    <2>2. a = b
      BY <2>1 DEF Traced, Inv, AnswerInv
    <2>8. Len(a.items) \in Stops(r.semantic, a.ruling)
      <3>1. PICK k \in Stops(r.semantic, a.ruling) : a.items = SubSeq(a.ruling, 1, k)
        OBVIOUS
      <3>2. k \in 0..args[c].n
        <4>1. Len(a.ruling) = args[c].n
          BY <2>1, <2>2, RulingIsSeq
        <4> QED BY <4>1 DEF Stops
      <3>3. Len(a.items) = k
        BY <2>1, <2>2, <3>1, <3>2, PrefixOfRuling
      <3> QED BY <3>3
    <2>3. PICK o \in AnswersTo(c) : Usable(c, o) /\ result[c] = Output(c, o)
      BY DEF Inv, ResultInv, IsDecision
    <2>4. args[c].tool # "discover" /\ result[c].request_id = reqId[c]
      BY <2>3, OutputFields DEF IsDecision
    <2>5. r.call = c
      <3>1. r.call \in Calls /\ reqId[r.call] = r.id /\ r.id # ""
        BY IdAssumption DEF Inv, TypeOK, RequestSet, RequestInv
      <3>2. reqId[c] = r.id
        BY <2>4 DEF Traced
      <3> QED BY <3>1, <3>2 DEF Inv, CallInv
    <2>6. r.semantic = IF args[c].tool = "batch" THEN args[c].semantic ELSE "execute_all"
      <3>1. r = Request(c, args[c], r.id)
        BY <2>5 DEF Inv, RequestInv
      <3>2. Request(c, args[c], r.id).semantic =
              IF args[c].tool = "batch" THEN args[c].semantic ELSE "execute_all"
        BY DEF Request
      <3> QED BY <3>1, <3>2
    <2>7. args[c].tool = "batch" => result[c].semantic = args[c].semantic
      BY <2>3 DEF Output
    <2> QED BY <2>1, <2>2, <2>6, <2>7, <2>8
  <1> QED BY <1>1, Invariance, PTL

\* The request id of a result finds, in any PDP's log, the requests of that
\* call and of no other.
THEOREM IdsFindTheirCall == Spec => []IdsCorrelate
  <1>1. Inv => IdsCorrelate
    <2> SUFFICES ASSUME Inv, NEW c \in Calls, IsDecision(c)
                 PROVE  {r.call : r \in {q \in requests : q.id = result[c].request_id}} = {c}
      BY DEF IdsCorrelate
    <2>1. PICK a \in AnswersTo(c) : Usable(c, a) /\ result[c] = Output(c, a)
      BY DEF Inv, ResultInv, IsDecision
    <2>2. result[c].request_id = reqId[c] /\ reqId[c] # ""
      <3>1. args[c].tool # "discover"
        BY DEF IsDecision
      <3>2. Output(c, a).request_id = reqId[c]
        BY <2>1, <3>1, OutputFields
      <3> QED BY <2>1, <3>2, AnswerOfCall
    <2>3. PICK r \in requests : r.id = reqId[c]
      BY <2>1 DEF AnswersTo, Inv, AnswerInv, Faithful
    <2>4. ASSUME NEW q \in requests, q.id = reqId[c] PROVE q.call = c
      <3>1. q.call \in Calls /\ reqId[q.call] = q.id
        BY DEF Inv, TypeOK, RequestSet, RequestInv
      <3> QED BY <2>2, <2>4, <3>1 DEF Inv, CallInv
    <2> QED BY <2>2, <2>3, <2>4
  <1> QED BY <1>1, Invariance, PTL

\* No document longer than the byte cap makes a success, and none that has
\* anything behind it, unless the cap hides that.
THEOREM CapBoundsDocuments == Spec => []WithinByteCap
  <1>1. Inv => WithinByteCap
    <2> SUFFICES ASSUME Inv, NEW c \in Calls, result[c].status = "ok", NEW a \in AnswersTo(c)
                 PROVE  a.len <= PDPMaxBytes /\ (a.len < PDPMaxBytes => a.tail = 0)
      BY DEF WithinByteCap
    <2>1. PICK b \in AnswersTo(c) : Usable(c, b)
      BY DEF Inv, ResultInv
    <2>2. a = b
      BY <2>1 DEF AnswersTo, Inv, AnswerInv
    <2>3. a.len \in Nat /\ a.tail \in Nat
      BY AnswerOfCall DEF AnswerSet
    <2>4. BytesRead(a) = a.len
      BY <2>1, <2>2 DEF Usable, Unmarshals
    <2> QED BY <2>3, <2>4, BoundAssumption DEF BytesRead, Smaller
  <1> QED BY <1>1, Invariance, PTL

\* README.md:134 has the request id echoed back by the tools. A success reports the
\* id of its request, unless it is a discovery, and then it reports none
\* (tool_authzen.go:28-30, 43-44, 53-57, 145, 291, 365; authzen.go:200).
IdIsReported ==
    \A c \in Calls : result[c].status = "ok" =>
        result[c].request_id = IF args[c].tool = "discover" THEN "" ELSE reqId[c]

THEOREM EverySuccessButDiscoveryHasItsId == Spec => []IdIsReported
  <1>1. Inv => IdIsReported
    <2> SUFFICES ASSUME Inv, NEW c \in Calls, result[c].status = "ok"
                 PROVE  result[c].request_id = IF args[c].tool = "discover" THEN "" ELSE reqId[c]
      BY DEF IdIsReported
    <2>1. PICK a \in AnswersTo(c) : Usable(c, a) /\ result[c] = Output(c, a)
      BY DEF Inv, ResultInv
    <2>2. CASE args[c].tool = "discover"
      <3>1. Output(c, a).request_id = ""
        BY <2>2, Zenon DEF Output, Blank
      <3> QED BY <2>1, <2>2, <3>1, Zenon
    <2>3. CASE args[c].tool # "discover"
      <3>1. Output(c, a).request_id = reqId[c]
        BY <2>1, <2>3, OutputFields
      <3> QED BY <2>1, <2>3, <3>1, Zenon
    <2> QED BY <2>2, <2>3
  <1> QED BY <1>1, Invariance, PTL

\* The client never sends again: whatever the PDP answers, a call has one request
\* at most, no two requests share an id, and each has one answer at most
\* (authzen.go:193-239, 304-308).
SentOnce ==
    /\ \A q, r \in requests : q.call = r.call \/ q.id = r.id => q = r
    /\ \A a, b \in answers : a.id = b.id => a = b

THEOREM NothingIsSentAgain == Spec => []SentOnce
  <1>1. Inv => SentOnce
    <2> SUFFICES ASSUME Inv PROVE SentOnce
      OBVIOUS
    <2>1. ASSUME NEW q \in requests, NEW r \in requests, q.call = r.call \/ q.id = r.id
          PROVE  q = r
      <3>1. /\ q.call \in Calls /\ reqId[q.call] = q.id /\ q.id # ""
            /\ r.call \in Calls /\ reqId[r.call] = r.id
        BY IdAssumption DEF Inv, TypeOK, RequestSet, RequestInv
      <3>2. q.call = r.call /\ q.id = r.id
        BY <2>1, <3>1 DEF Inv, CallInv
      <3>3. /\ q = Request(q.call, args[q.call], q.id)
            /\ r = Request(r.call, args[r.call], r.id)
        BY DEF Inv, RequestInv
      <3> QED BY <3>2, <3>3
    <2> QED BY <2>1 DEF SentOnce, Inv, AnswerInv
  <1> QED BY <1>1, Invariance, PTL

-----------------------------------------------------------------------------
(* What a step may never do. *)

\* Nobody takes part in a call twice: its id and its arguments stay what they
\* were when it was sent, and once it is done nothing of it changes, however late
\* the answer, the timer or the cancellation comes (authzen.go:205-234).
CallsAreFinal ==
    \A c \in Calls :
        /\ reqId[c] # "" => reqId'[c] = reqId[c] /\ args'[c] = args[c]
        /\ pc[c] = "done" =>
              /\ pc'[c] = "done" /\ args'[c] = args[c] /\ reqId'[c] = reqId[c]
              /\ result'[c] = result[c] /\ ctxDone'[c] = ctxDone[c]

\* A call takes four steps at most.
Taken(c) ==
    (CASE pc[c] = "idle" -> 0 [] pc[c] = "await" -> 1
       [] pc[c] = "body" -> 2 [] pc[c] = "done" -> 3)
    + (IF ctxDone[c] THEN 1 ELSE 0)

\* Nothing is undone and nothing goes round in circles: every step takes a call
\* further or is an answer to a request that had none, and what was sent stays
\* sent. A session of finitely many calls can only come to its end.
StepsMoveOn ==
    /\ \A c \in Calls : Taken(c)' >= Taken(c)
    /\ requests \subseteq requests' /\ answers \subseteq answers'
    /\ (\E c \in Calls : Taken(c)' > Taken(c)) \/ answers' # answers

LEMMA TakenIsANumber ==
    ASSUME NEW c, pc[c] \in {"idle", "await", "body", "done"}
    PROVE  Taken(c) \in 0..4
  <1>1. CASE pc[c] = "idle"
    BY <1>1 DEF Taken
  <1>2. CASE pc[c] = "await"
    BY <1>2 DEF Taken
  <1>3. CASE pc[c] = "body"
    BY <1>3 DEF Taken
  <1>4. CASE pc[c] = "done"
    BY <1>4 DEF Taken
  <1> QED BY <1>1, <1>2, <1>3, <1>4

\* Of a step of one call, the rest of the session sees nothing.
LEMMA OthersKeep ==
    ASSUME Inv, NEW c \in Calls, Call(c)
    PROVE  \A d \in Calls \ {c} :
              /\ pc'[d] = pc[d] /\ args'[d] = args[d] /\ reqId'[d] = reqId[d]
              /\ result'[d] = result[d] /\ ctxDone'[d] = ctxDone[d]
  <1> USE DEF Inv, TypeOK
  <1>1. CASE RejectArguments(c)
    BY <1>1 DEF RejectArguments, Finish
  <1>2. CASE Send(c)
    BY <1>2 DEF Send
  <1>3. CASE ContextDone(c) \/ ReceiveHeader(c)
    BY <1>3 DEF ContextDone, ReceiveHeader
  <1>4. CASE Abort(c) \/ NetworkError(c) \/ RefuseRedirect(c)
    BY <1>4 DEF Abort, NetworkError, RefuseRedirect, Finish
  <1>5. CASE UseBody(c)
    BY <1>5 DEF UseBody, Finish
  <1> QED BY <1>1, <1>2, <1>3, <1>4, <1>5 DEF Call

\* What a step of a call does to the call itself.
LEMMA OwnStep ==
    ASSUME Inv, NEW c \in Calls, Call(c)
    PROVE  /\ pc[c] # "done"
           /\ reqId[c] # "" => reqId'[c] = reqId[c] /\ args'[c] = args[c]
           /\ \/ pc[c] = "idle" /\ pc'[c] \in {"await", "done"} /\ ctxDone'[c] = ctxDone[c]
              \/ pc[c] = "await" /\ pc'[c] \in {"body", "done"} /\ ctxDone'[c] = ctxDone[c]
              \/ pc[c] = "body" /\ pc'[c] = "done" /\ ctxDone'[c] = ctxDone[c]
              \/ pc'[c] = pc[c] /\ ~ctxDone[c] /\ ctxDone'[c]
           /\ requests \subseteq requests' /\ answers' = answers
  <1> USE DEF Inv, TypeOK
  <1>1. CASE RejectArguments(c)
    BY <1>1, NothingSentYet DEF RejectArguments, Finish
  <1>2. CASE Send(c)
    BY <1>2, NothingSentYet DEF Send
  <1>3. CASE ContextDone(c)
    BY <1>3 DEF ContextDone, TimerCovers
  <1>4. CASE ReceiveHeader(c)
    BY <1>4 DEF ReceiveHeader
  <1>5. CASE Abort(c) \/ NetworkError(c) \/ RefuseRedirect(c)
    BY <1>5 DEF Abort, NetworkError, RefuseRedirect, Finish
  <1>6. CASE UseBody(c)
    BY <1>6 DEF UseBody, Finish
  <1> QED BY <1>1, <1>2, <1>3, <1>4, <1>5, <1>6 DEF Call

\* An answer of a PDP changes no call, and is new.
LEMMA AnswerIsNew ==
    ASSUME NEW r \in requests, PDPAnswers(r)
    PROVE  /\ UNCHANGED <<pc, args, reqId, requests, ctxDone, result>>
           /\ answers \subseteq answers' /\ answers' # answers
  <1>1. PICK f \in FaultsFor(r), D \in [1..r.n -> Decision] :
          \E items \in Items(f, r, D), size \in Sizes(f) :
             answers' = answers \cup {AnswerTo(r, f, D, items, size)}
    BY DEF PDPAnswers
  <1>2. PICK items \in Items(f, r, D), size \in Sizes(f) :
          answers' = answers \cup {AnswerTo(r, f, D, items, size)}
    BY <1>1
  <1>3. AnswerTo(r, f, D, items, size).id = r.id
    BY DEF AnswerTo
  <1> QED BY <1>2, <1>3 DEF PDPAnswers

\* A call is over when it is over, and is one request from its first to its last
\* step.
THEOREM NoCallIsReopened == Spec => [][CallsAreFinal]_vars
  <1>1. Inv /\ [Next]_vars => [CallsAreFinal]_vars
    <2> SUFFICES ASSUME Inv, Next PROVE CallsAreFinal
      OBVIOUS
    <2>1. ASSUME NEW c \in Calls, Call(c) PROVE CallsAreFinal
      BY <2>1, OthersKeep, OwnStep DEF CallsAreFinal
    <2>2. ASSUME NEW r \in requests, PDPAnswers(r) PROVE CallsAreFinal
      BY <2>2, AnswerIsNew DEF CallsAreFinal
    <2>3. CASE UNCHANGED vars
      BY <2>3 DEF vars, CallsAreFinal
    <2> QED BY <2>1, <2>2, <2>3 DEF Next, AllAnswered
  <1> QED BY <1>1, Invariance, PTL DEF Spec

\* Every step moves the session on: there is no retry, no second answer and no
\* waiting in circles (authzen.go:193-239). What liveness adds, that the steps do
\* come, is EveryCallAnswered.
THEOREM SessionsMoveOn == Spec => [][StepsMoveOn]_vars
  <1>1. Inv /\ [Next]_vars => [StepsMoveOn]_vars
    <2> SUFFICES ASSUME Inv, Next, vars' # vars PROVE StepsMoveOn
      OBVIOUS
    <2>0. ASSUME NEW d \in Calls, pc'[d] = pc[d], ctxDone'[d] = ctxDone[d]
          PROVE  Taken(d)' >= Taken(d)
      <3>1. Taken(d)' = Taken(d)
        BY <2>0 DEF Taken
      <3>2. pc[d] \in {"idle", "await", "body", "done"}
        BY DEF Inv, TypeOK
      <3>3. Taken(d) \in 0..4
        BY <3>2, TakenIsANumber
      <3> QED BY <3>1, <3>3
    <2>1. ASSUME NEW c \in Calls, Call(c) PROVE StepsMoveOn
      <3>1. Taken(c)' > Taken(c)
        <4>1. CASE pc'[c] = pc[c] /\ ~ctxDone[c] /\ ctxDone'[c]
          <5>1. pc[c] \in {"idle", "await", "body", "done"}
            BY DEF Inv, TypeOK
          <5>2. CASE pc[c] = "idle"
            BY <4>1, <5>2 DEF Taken
          <5>3. CASE pc[c] = "await"
            BY <4>1, <5>3 DEF Taken
          <5>4. CASE pc[c] = "body"
            BY <4>1, <5>4 DEF Taken
          <5>5. CASE pc[c] = "done"
            BY <4>1, <5>5 DEF Taken
          <5> QED BY <5>1, <5>2, <5>3, <5>4, <5>5
        <4>2. CASE pc[c] = "idle" /\ pc'[c] \in {"await", "done"} /\ ctxDone'[c] = ctxDone[c]
          BY <4>2 DEF Taken
        <4>3. CASE pc[c] = "await" /\ pc'[c] \in {"body", "done"} /\ ctxDone'[c] = ctxDone[c]
          BY <4>3 DEF Taken
        <4>4. CASE pc[c] = "body" /\ pc'[c] = "done" /\ ctxDone'[c] = ctxDone[c]
          BY <4>4 DEF Taken
        <4> QED BY <2>1, <4>1, <4>2, <4>3, <4>4, OwnStep
      <3>2. Taken(c)' >= Taken(c)
        <4>1. pc[c] \in {"idle", "await", "body", "done"}
          BY DEF Inv, TypeOK
        <4>2. pc'[c] \in {"idle", "await", "body", "done"}
          BY <2>1, <4>1, OwnStep
        <4>3. Taken(c) \in 0..4
          BY <4>1, TakenIsANumber
        <4>4. Taken(c)' \in 0..4
          BY <4>2 DEF Taken
        <4> QED BY <3>1, <4>3, <4>4
      <3>3. \A d \in Calls \ {c} : Taken(d)' >= Taken(d)
        BY <2>1, <2>0, OthersKeep
      <3> QED BY <2>1, <3>1, <3>2, <3>3, OwnStep DEF StepsMoveOn
    <2>2. ASSUME NEW r \in requests, PDPAnswers(r) PROVE StepsMoveOn
      <3>1. \A d \in Calls : Taken(d)' >= Taken(d)
        BY <2>2, <2>0, AnswerIsNew
      <3> QED BY <2>2, <3>1, AnswerIsNew DEF StepsMoveOn
    <2> QED BY <2>1, <2>2 DEF Next, AllAnswered
  <1> QED BY <1>1, Invariance, PTL DEF Spec

-----------------------------------------------------------------------------
(* The tools implement DecisionService. *)

\* A result without decisions tells of a refusal, or of nothing.
LEMMA NothingTold ==
    ASSUME NEW a, NEW r, r.decisions = <<>>,
           r.status # "ok" \/ a.tool = "discover"
    PROVE  Told(a, r) = IF a.tool = "discover" \/ r.status = "none"
                        THEN Service!Unanswered
                        ELSE IF r.status = "error" THEN Service!Refused
                        ELSE [outcome |-> "decided", given |-> {}, whole |-> FALSE]
  <1>1. {<<r.decisions[i].index, r.decisions[i].decision>> : i \in 1..Len(r.decisions)} = {}
    OBVIOUS
  <1>2. (r.status = "ok" /\ a.tool # "discover" /\ ~r.truncated) = FALSE
    BY Zenon
  <1>3. Told(a, r) =
          [outcome |-> IF a.tool = "discover" \/ r.status = "none" THEN "none"
                       ELSE IF r.status = "error" THEN "refused" ELSE "decided",
           given |-> {}, whole |-> FALSE]
    BY <1>1, <1>2, Zenon DEF Told
  <1> QED BY <1>3 DEF Service!Unanswered, Service!Refused

\* A call without a result has been told nothing.
LEMMA BlankTellsNothing ==
    ASSUME NEW a
    PROVE  Told(a, Blank) = Service!Unanswered
  <1>1. Blank.status = "none" /\ Blank.decisions = <<>>
    BY DEF Blank
  <1> QED BY <1>1, NothingTold

\* An error result tells a caller who asked for decisions of a refusal.
LEMMA ErrorTellsRefusal ==
    ASSUME NEW a
    PROVE  Told(a, ToolError) = IF a.tool = "discover" THEN Service!Unanswered
                                ELSE Service!Refused
  <1>1. ToolError.status = "error" /\ ToolError.decisions = <<>>
    BY DEF ToolError, Blank
  <1> QED BY <1>1, NothingTold

\* DecisionService leaves decisions out as PDPs do.
LEMMA SameParts ==
    ASSUME NEW D
    PROVE  Service!Parts(D) = Parts(D) /\ Service!Leading(D) = Leading(D)
  BY Zenon DEF Service!Parts, Parts, Service!Picks, Picks, Service!Leading, Leading

\* A usable answer tells its list of decisions.
LEMMA OutputTellsItems ==
    ASSUME Inv, NEW c \in Calls, NEW a \in AnswersTo(c), Usable(c, a),
           args[c].tool # "discover"
    PROVE  Told(args[c], Output(c, a)) = Service!Decided(a.items, args[c].n)
  <1> DEFINE r == Output(c, a)
             S == a.items
             n == args[c].n
  <1>1. /\ S \in Seq(Pointer)
        /\ n \in Nat /\ Len(S) <= n
        /\ r.status = "ok" /\ Len(r.decisions) = Len(S)
        /\ \A i \in 1..Len(S) : r.decisions[i].index = i - 1 /\ r.decisions[i].decision = S[i]
        /\ r.truncated <=> Len(S) < n
    BY OutputFields
  <1>2. Len(S) \in Nat
    BY <1>1
  <1> HIDE DEF r, S, n
  <1>3. {<<r.decisions[i].index, r.decisions[i].decision>> : i \in 1..Len(r.decisions)}
          = Service!Numbered(S)
    <2>1. \A i \in 1..Len(S) : <<r.decisions[i].index, r.decisions[i].decision>> = <<i - 1, S[i]>>
      BY <1>1
    <2>2. Len(r.decisions) = Len(S)
      BY <1>1
    <2>3. {<<r.decisions[i].index, r.decisions[i].decision>> : i \in 1..Len(S)}
            = {<<i - 1, S[i]>> : i \in 1..Len(S)}
      BY <2>1, Zenon
    <2> QED BY <2>2, <2>3 DEF Service!Numbered
  <1>4. (r.status = "ok" /\ args[c].tool # "discover" /\ ~r.truncated) <=> Len(S) = n
    BY <1>1, <1>2
  <1>5. (r.status = "ok" /\ args[c].tool # "discover" /\ ~r.truncated) = (Len(S) = n)
    BY <1>4, Zenon
  <1>6. "decided" = IF args[c].tool = "discover" \/ r.status = "none" THEN "none"
               ELSE IF r.status = "error" THEN "refused" ELSE "decided"
    BY <1>1
  <1>7. Told(args[c], r) =
          [outcome |-> "decided", given |-> Service!Numbered(S), whole |-> Len(S) = n]
    BY <1>3, <1>5, <1>6, Zenon DEF Told
  <1> QED BY <1>7, Zenon DEF Service!Decided, r, S, n

\* A step that leaves a call's arguments, its id and the answers to it alone
\* leaves alone what the call asked and what was ruled on it.
LEMMA Frame ==
    ASSUME NEW d \in Calls, args'[d] = args[d], reqId'[d] = reqId[d],
           \A a : a.id = reqId[d] => (a \in answers' <=> a \in answers)
    PROVE  Asked(d)' = Asked(d) /\ Ruled(d)' = Ruled(d)
  <1>1. Asks(d)' <=> Asks(d)
    BY DEF Asks
  <1>2. AnswersTo(d)' = AnswersTo(d)
    BY DEF AnswersTo
  <1>3. Asked(d)' = Asked(d)
    BY <1>1 DEF Asked
  <1>4. Ruled(d)' = Ruled(d)
    BY <1>1, <1>2 DEF Ruled
  <1> QED BY <1>3, <1>4

\* A step that only changes what one call was told.
LEMMA TellStep ==
    ASSUME NEW c \in Calls, NEW x,
           \A d \in Calls : Asked(d)' = Asked(d) /\ Ruled(d)' = Ruled(d),
           \A d \in Calls \ {c} : Told(args'[d], result'[d]) = Told(args[d], result[d]),
           Told(args'[c], result'[c]) = x
    PROVE  /\ [d \in Calls |-> Asked(d)'] = [d \in Calls |-> Asked(d)]
           /\ [d \in Calls |-> Ruled(d)'] = [d \in Calls |-> Ruled(d)]
           /\ [d \in Calls |-> Told(args'[d], result'[d])]
                = [[d \in Calls |-> Told(args[d], result[d])] EXCEPT ![c] = x]
  OBVIOUS

\* A call that ends with an error is refused, or was none of DecisionService's.
LEMMA ErrorSimulates ==
    ASSUME Inv, NEW c \in Calls, pc[c] # "done", Finish(c, ToolError),
           \A d \in Calls : Asked(d)' = Asked(d) /\ Ruled(d)' = Ruled(d),
           \A d \in Calls \ {c} : args'[d] = args[d]
    PROVE  [Service!Next]_(Service!vars)
  <1>1. result'[c] = ToolError /\ \A d \in Calls \ {c} : result'[d] = result[d]
    BY DEF Finish, Inv, TypeOK
  <1>2. Told(args[c], result[c]) = Service!Unanswered
    BY BlankTellsNothing DEF Inv, CallInv
  <1>3. CASE args'[c].tool = "discover"
    <2>1. Told(args'[c], result'[c]) = Told(args[c], result[c])
      BY <1>1, <1>2, <1>3, ErrorTellsRefusal
    <2>2. UNCHANGED Service!vars
      BY <1>1, <2>1 DEF Service!vars
    <2> QED BY <2>2
  <1>4. CASE args'[c].tool # "discover"
    <2>1. Told(args'[c], result'[c]) = Service!Refused
      BY <1>1, <1>4, ErrorTellsRefusal
    <2>2. Service!Refuse(c)
      BY <1>1, <1>2, <2>1, TellStep DEF Service!Refuse
    <2> QED BY <2>2 DEF Service!Next
  <1> QED BY <1>3, <1>4

\* A call that sends asks, or asks for no decision.
LEMMA SendSimulates ==
    ASSUME Inv, Inv', NEW c \in Calls, Send(c)
    PROVE  [Service!Next]_(Service!vars)
  <1>0. PICK a \in Inputs, id \in FreshIds :
          /\ Accepts(a)
          /\ args' = [args EXCEPT ![c] = a]
          /\ reqId' = [reqId EXCEPT ![c] = id]
    BY DEF Send
  <1>1. pc[c] = "idle" /\ answers' = answers /\ result' = result
    BY DEF Send
  <1>2. /\ args'[c] = a /\ reqId'[c] = id
        /\ \A d \in Calls \ {c} : args'[d] = args[d] /\ reqId'[d] = reqId[d]
    BY <1>0 DEF Inv, TypeOK
  <1>3. id # "" /\ \A d \in Calls : reqId[d] # id
    BY IdAssumption DEF FreshIds
  <1>4. \A d \in Calls \ {c} : Asked(d)' = Asked(d) /\ Ruled(d)' = Ruled(d)
    BY <1>1, <1>2, Frame
  <1>5. reqId[c] = "" /\ result[c] = Blank
    BY <1>1 DEF Inv, CallInv
  <1>6. Asked(c) = 0 /\ Ruled(c) = {}
    BY <1>5 DEF Asked, Ruled, Asks
  <1>7. AnswersTo(c)' = {}
    <2>1. ASSUME NEW b \in answers, b.id = id PROVE FALSE
      <3>1. PICK r \in requests : r.id = id
        BY <2>1 DEF Inv, AnswerInv, Faithful
      <3>2. r.call \in Calls /\ reqId[r.call] = id
        BY <3>1 DEF Inv, TypeOK, RequestSet, RequestInv
      <3> QED BY <3>2, <1>3
    <2> QED BY <1>1, <1>2, <2>1 DEF AnswersTo
  <1>8. Ruled(c)' = {}
    BY <1>7 DEF Ruled
  <1>9. \A d \in Calls : Told(args'[d], result'[d]) = Told(args[d], result[d])
    BY <1>1, <1>2, <1>5, BlankTellsNothing
  <1>10. CASE a.tool = "discover"
    <2>1. Asked(c)' = 0
      BY <1>2, <1>10 DEF Asked, Asks
    <2>2. UNCHANGED Service!vars
      BY <1>4, <1>6, <1>8, <1>9, <2>1 DEF Service!vars
    <2> QED BY <2>2
  <1>11. CASE a.tool # "discover"
    <2>1. Asked(c)' = a.n
      BY <1>2, <1>3, <1>11 DEF Asked, Asks
    <2>2. a.n \in 1..MaxBatch
      <3>1. a \in AllInputs /\ (a.tool = "evaluate" => a.n = 1)
        BY InputAssumption
      <3>2. a.tool \in {"evaluate", "batch"}
        BY <3>1, <1>11 DEF AllInputs, Tools
      <3>3. a.tool = "batch" => a.n \in 1..MaxBatch
        BY <1>0 DEF Accepts
      <3> QED BY <3>1, <3>2, <3>3, BoundAssumption
    <2>3. [d \in Calls |-> Asked(d)'] = [[d \in Calls |-> Asked(d)] EXCEPT ![c] = a.n]
      BY <1>4, <2>1
    <2>4. Told(args[c], result[c]) = Service!Unanswered
      BY <1>5, BlankTellsNothing
    <2>5. Service!Ask(c)
      BY <1>4, <1>6, <1>8, <1>9, <2>2, <2>3, <2>4 DEF Service!Ask
    <2> QED BY <2>5 DEF Service!Next
  <1> QED BY <1>10, <1>11

\* A PDP that answers has ruled.
LEMMA PDPAnswersSimulates ==
    ASSUME Inv, Inv', NEW r \in requests, PDPAnswers(r)
    PROVE  [Service!Next]_(Service!vars)
  <1> DEFINE c == r.call
  <1>0. UNCHANGED <<pc, args, reqId, requests, ctxDone, result>>
    BY DEF PDPAnswers
  <1>1. /\ r \in RequestSet /\ c \in Calls /\ reqId[c] = r.id /\ r.id # ""
        /\ r = Request(c, args[c], r.id)
    BY IdAssumption DEF Inv, TypeOK, RequestSet, RequestInv
  <1>2. r.to = EndpointOf(args[c]) /\ r.n = args[c].n
    <2>1. Request(c, args[c], r.id).to = EndpointOf(args[c])
          /\ Request(c, args[c], r.id).n = args[c].n
      BY DEF Request
    <2> QED BY <1>1, <2>1
  <1>3. \A a \in answers : a.id # r.id
    BY DEF PDPAnswers
  <1>4. PICK new : /\ answers' = answers \cup {new} /\ new.id = r.id /\ new.from = r.to
                   /\ new.ruling \in [1..r.n -> Decision]
    <2>1. PICK f \in FaultsFor(r), D \in [1..r.n -> Decision] :
          \E items \in Items(f, r, D), size \in Sizes(f) :
            answers' = answers \cup {AnswerTo(r, f, D, items, size)}
      BY DEF PDPAnswers
    <2>2. PICK items \in Items(f, r, D), size \in Sizes(f) :
            answers' = answers \cup {AnswerTo(r, f, D, items, size)}
      BY <2>1
    <2> DEFINE x == AnswerTo(r, f, D, items, size)
    <2>3. x.id = r.id /\ x.from = r.to /\ x.ruling = D
      BY DEF AnswerTo
    <2> HIDE DEF x
    <2>4. answers' = answers \cup {x}
      BY <2>2 DEF x
    <2> QED BY <2>3, <2>4
  <1> HIDE DEF c
  <1>5. \A d \in Calls \ {c} : reqId[d] # r.id
    BY <1>1 DEF Inv, CallInv
  <1>6. \A d \in Calls \ {c} : Asked(d)' = Asked(d) /\ Ruled(d)' = Ruled(d)
    BY <1>0, <1>4, <1>5, Frame
  <1>7. Asked(c)' = Asked(c)
    BY <1>0 DEF Asked, Asks
  <1>8. AnswersTo(c) = {} /\ AnswersTo(c)' = {new}
    BY <1>0, <1>1, <1>2, <1>3, <1>4 DEF AnswersTo
  <1>9. \A d \in Calls : Told(args'[d], result'[d]) = Told(args[d], result[d])
    BY <1>0
  <1>10. CASE ~Asks(c)
    <2>1. Ruled(c)' = Ruled(c)
      BY <1>0, <1>10 DEF Ruled, Asks
    <2>2. UNCHANGED Service!vars
      BY <1>6, <1>7, <1>9, <2>1 DEF Service!vars
    <2> QED BY <2>2
  <1>11. CASE Asks(c)
    <2> DEFINE said == [ruling |-> new.ruling, leads |-> new.items \in Leading(new.ruling)]
    <2>1. Ruled(c) = {} /\ Ruled(c)' = {said}
      BY <1>0, <1>4, <1>8, <1>11 DEF Ruled, Asks
    <2>2. Asked(c) = r.n /\ Asked(c) # 0
      <3>1. Accepts(args[c]) /\ args[c] \in Inputs \cup {NoArgs}
        BY <1>1 DEF Inv, CallInv, TypeOK
      <3>2. args[c].tool # "discover" /\ Asked(c) = args[c].n
        BY <1>11 DEF Asks, Asked
      <3>3. args[c].n # 0
        <4>1. CASE args[c] \in Inputs
          BY <4>1, <3>1, <3>2, InputAssumption DEF Accepts, AllInputs, Tools
        <4>2. CASE args[c] = NoArgs
          <5>1. NoArgs.n = 1
            BY DEF NoArgs
          <5> QED BY <4>2, <5>1
        <4> QED BY <3>1, <4>1, <4>2
      <3> QED BY <1>2, <3>2, <3>3
    <2>3. [d \in Calls |-> Ruled(d)'] = [[d \in Calls |-> Ruled(d)] EXCEPT ![c] = {said}]
      BY <1>6, <2>1
    <2>4. /\ [d \in Calls |-> Asked(d)'] = [d \in Calls |-> Asked(d)]
          /\ [d \in Calls |-> Told(args'[d], result'[d])]
               = [d \in Calls |-> Told(args[d], result[d])]
      BY <1>6, <1>7, <1>9
    <2>5. \E D \in [1..Asked(c) -> Decision], leads \in BOOLEAN :
            said = [ruling |-> D, leads |-> leads]
      <3>1. new.ruling \in [1..Asked(c) -> Decision]
        BY <1>4, <2>2
      <3>2. (new.items \in Leading(new.ruling)) \in BOOLEAN
        OBVIOUS
      <3> QED BY <3>1, <3>2, Zenon
    <2> HIDE DEF said
    <2>6. Service!Rule(c)
      BY <1>1, <2>1, <2>2, <2>3, <2>4, <2>5 DEF Service!Rule
    <2> QED BY <1>1, <2>6 DEF Service!Next
  <1> QED BY <1>10, <1>11

\* A body read to its end refuses the call or answers it with what it holds of
\* the ruling.
LEMMA UseBodySimulates ==
    ASSUME Inv, Inv', NEW c \in Calls, UseBody(c)
    PROVE  [Service!Next]_(Service!vars)
  <1>1. pc[c] = "body" /\ UNCHANGED <<args, reqId, requests, answers, ctxDone>>
    BY DEF UseBody
  <1>2. \A d \in Calls : Asked(d)' = Asked(d) /\ Ruled(d)' = Ruled(d)
    BY <1>1, Frame
  <1>3. PICK a \in AnswersTo(c) :
          Finish(c, IF Usable(c, a) THEN Output(c, a) ELSE ToolError)
    BY DEF UseBody
  <1>4. CASE ~Usable(c, a)
    BY <1>1, <1>2, <1>3, <1>4, ErrorSimulates
  <1>5. CASE Usable(c, a)
    <2>1. result'[c] = Output(c, a) /\ \A d \in Calls \ {c} : result'[d] = result[d]
      BY <1>3, <1>5 DEF Finish, Inv, TypeOK
    <2>2. Told(args[c], result[c]) = Service!Unanswered
      BY <1>1, BlankTellsNothing DEF Inv, CallInv
    <2>3. CASE args[c].tool = "discover"
      <3>1. Output(c, a).decisions = <<>>
        BY <2>3 DEF Output, Blank
      <3>2. Told(args[c], Output(c, a)) = Service!Unanswered
        BY <2>3, <3>1, NothingTold
      <3>3. UNCHANGED Service!vars
        BY <1>1, <1>2, <2>1, <2>2, <3>2 DEF Service!vars
      <3> QED BY <3>3
    <2>4. CASE args[c].tool # "discover"
      <3>1. Told(args'[c], result'[c]) = Service!Decided(a.items, args[c].n)
        BY <1>1, <1>5, <2>1, <2>4, OutputTellsItems
      <3> DEFINE said == [ruling |-> a.ruling, leads |-> a.items \in Leading(a.ruling)]
      <3>2. said \in Ruled(c) /\ Asked(c) = args[c].n
        BY <2>4, AnswerOfCall DEF Ruled, Asked, Asks
      <3>3. a.items \in Service!Tellable(said)
        <4>1. a.items \in Parts(a.ruling)
          BY <1>5, <2>4, OutputFields
        <4> QED BY <4>1, SameParts DEF Service!Tellable
      <3> HIDE DEF said
      <3>4. Service!Answer(c)
        BY <1>1, <1>2, <2>1, <2>2, <3>1, <3>2, <3>3, TellStep DEF Service!Answer
      <3> QED BY <3>4 DEF Service!Next
    <2> QED BY <2>3, <2>4
  <1> QED BY <1>4, <1>5

\* The initial states are initial states of DecisionService.
LEMMA InitSimulates == Init => Service!Init
  <1> SUFFICES ASSUME Init PROVE Service!Init
    OBVIOUS
  <1>1. \A c \in Calls : Asked(c) = 0 /\ Ruled(c) = {}
    BY DEF Init, Asked, Ruled, Asks
  <1>2. \A c \in Calls : Told(args[c], result[c]) = Service!Unanswered
    BY BlankTellsNothing DEF Init
  <1> QED BY <1>1, <1>2 DEF Service!Init

\* Every step is a step of DecisionService or leaves its variables alone.
LEMMA StepSimulates == Inv /\ Inv' /\ [Next]_vars => [Service!Next]_(Service!vars)
  <1> SUFFICES ASSUME Inv, Inv', [Next]_vars PROVE [Service!Next]_(Service!vars)
    OBVIOUS
  <1>a. ASSUME UNCHANGED <<args, reqId, requests, answers>>
        PROVE  \A d \in Calls : Asked(d)' = Asked(d) /\ Ruled(d)' = Ruled(d)
    BY <1>a, Frame
  <1>b. ASSUME UNCHANGED <<args, reqId, requests, answers, result>>
        PROVE  UNCHANGED Service!vars
    BY <1>a, <1>b DEF Service!vars
  <1>1. ASSUME NEW c \in Calls, RejectArguments(c) PROVE [Service!Next]_(Service!vars)
    <2>1. pc[c] = "idle" /\ UNCHANGED <<reqId, answers>> /\ Finish(c, ToolError)
      BY <1>1 DEF RejectArguments
    <2>2. \A d \in Calls \ {c} : args'[d] = args[d]
      BY <1>1 DEF RejectArguments, Inv, TypeOK
    <2>3. reqId[c] = "" /\ reqId'[c] = ""
      BY <2>1, NothingSentYet
    <2>4. Asked(c)' = Asked(c) /\ Ruled(c)' = Ruled(c)
      BY <2>3 DEF Asked, Ruled, Asks
    <2>5. \A d \in Calls \ {c} : Asked(d)' = Asked(d) /\ Ruled(d)' = Ruled(d)
      BY <2>1, <2>2, Frame
    <2> QED BY <2>1, <2>2, <2>4, <2>5, ErrorSimulates
  <1>2. ASSUME NEW c \in Calls, Send(c) PROVE [Service!Next]_(Service!vars)
    BY <1>2, SendSimulates
  <1>3. ASSUME NEW c \in Calls, ContextDone(c) \/ ReceiveHeader(c)
        PROVE  [Service!Next]_(Service!vars)
    BY <1>3, <1>b DEF ContextDone, ReceiveHeader
  <1>4. ASSUME NEW c \in Calls, Abort(c) \/ NetworkError(c) \/ RefuseRedirect(c)
        PROVE  [Service!Next]_(Service!vars)
    BY <1>4, <1>a, ErrorSimulates DEF Abort, NetworkError, RefuseRedirect
  <1>5. ASSUME NEW c \in Calls, UseBody(c) PROVE [Service!Next]_(Service!vars)
    BY <1>5, UseBodySimulates
  <1>6. ASSUME NEW r \in requests, PDPAnswers(r) PROVE [Service!Next]_(Service!vars)
    BY <1>6, PDPAnswersSimulates
  <1>7. ASSUME UNCHANGED vars PROVE UNCHANGED Service!vars
    BY <1>7, <1>b DEF vars
  <1> QED BY <1>1, <1>2, <1>3, <1>4, <1>5, <1>6, <1>7 DEF Next, Call, AllAnswered

\* Every step of the tools, the network and the PDPs is a step of DecisionService
\* or none of its business: a call is answered with what the PDP left of the
\* ruling made on it, or refused.
THEOREM ImplementsDecisionService == Spec => Service!Safety
  BY InitSimulates, StepSimulates, Invariance, PTL DEF Spec, Service!Safety

=============================================================================
