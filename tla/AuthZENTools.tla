---------------------------- MODULE AuthZENTools ----------------------------
(***************************************************************************)
(* The AuthZEN half of the server: the handlers authzenEvaluate,            *)
(* authzenEvaluateBatch and authzenDiscover (tool_authzen.go), the one      *)
(* pdpClient they share (authzen.go), and the PDPs at the other end, which  *)
(* answer well, badly, late or not at all.                                  *)
(*                                                                          *)
(* Every tool call is a goroutine of its own.  It rejects its arguments or  *)
(* sends one request; waits for the response header; reads the body; and    *)
(* turns it into a result.  http.Client.Timeout runs from the send to the   *)
(* last byte of the body.                                                   *)
(*                                                                          *)
(* An endpoint is named by the PDP that serves it: module PDPURL models how *)
(* the paths are derived, module EvaluationArgs what makes the arguments    *)
(* well formed.  A body is what it says (its members), how long it is and   *)
(* how many bytes follow it.                                                *)
(***************************************************************************)
EXTENDS Rulings

CONSTANTS
    Calls,          \* tool calls
    PDPs,           \* PDPs, by the URL of their endpoint
    ConfiguredURL,  \* AUTHZEN_PDP_URL: a PDP, "" when unset, "bad" when unusable
    RequestIds,     \* values of X-Request-ID
    MaxBatch,       \* maxBatchEvaluations
    PDPMaxBytes,    \* AUTHZEN_PDP_MAX_RESPONSE_BYTES
    Inputs,         \* the arguments callers send
    Faults          \* what PDPs get wrong; "none" is a conforming answer

Decision  == {"permit", "deny"}     \* a bool that was set
Pointer   == Decision \cup {"nil"}  \* a *bool
Semantics == {"execute_all", "deny_on_first_deny", "permit_on_first_permit"}
Tools     == {"evaluate", "batch", "discover"}
URLs      == PDPs \cup {"", "bad"}

AllInputs == [tool: Tools, pdp_url: URLs, entities: BOOLEAN, n: Nat,
              semantic: Semantics \cup {"other"}]

AllFaults == {"none", "short", "missing", "extra", "noMember", "malformed",
              "status", "redirect", "oversize", "tail"}

ASSUME URLAssumption   == {"", "bad"} \cap PDPs = {} /\ ConfiguredURL \in URLs
ASSUME IdAssumption    == "" \notin RequestIds
ASSUME BoundAssumption == MaxBatch \in Nat \ {0} /\ PDPMaxBytes \in Nat \ {0}
ASSUME InputAssumption ==
    /\ Inputs \subseteq AllInputs
    /\ \A a \in Inputs : a.tool = "evaluate" => a.n = 1
    /\ Faults \subseteq AllFaults

VARIABLES
    pc,         \* pc[c]: "idle", "await" the header, read the "body", "done"
    args,       \* args[c]: the arguments of the call
    reqId,      \* reqId[c]: its X-Request-ID, "" while nothing was sent
    requests,   \* the requests PDPs received
    answers,    \* what PDPs sent back; field ruling is what they had decided
    ctxDone,    \* ctxDone[c]: the call's timer fired or its caller cancelled
    result      \* result[c]: what the caller was told

vars == <<pc, args, reqId, requests, answers, ctxDone, result>>

NoArgs == [tool |-> "evaluate", pdp_url |-> "", entities |-> FALSE, n |-> 1,
           semantic |-> "other"]

Blank == [status |-> "none", decisions |-> <<>>, semantic |-> "",
          truncated |-> FALSE, pdp_url |-> "", request_id |-> ""]

\* toolErrorf: an error result carries a message and no field of the output.
ToolError == [Blank EXCEPT !.status = "error"]
-----------------------------------------------------------------------------
(* Before the request. *)

\* The override when there is one, the configured URL otherwise.
EndpointOf(a) == IF a.pdp_url # "" THEN a.pdp_url ELSE ConfiguredURL

\* resolveEndpoint, batchEndpointFrom and rootOf all end in validatePDPURL.
Resolves(a) == EndpointOf(a) \in PDPs

Accepts_Unresolved(a) == a.tool # "discover" => a.entities

Accepts(a) ==
    /\ Resolves(a)
    /\ a.tool # "discover" => a.entities
    /\ a.tool = "batch" => a.n \in 1..MaxBatch /\ a.semantic \in Semantics

FreshIds_Shared == RequestIds

\* newRequestID: 128 random bits, so no two requests share one.
FreshIds == RequestIds \ {reqId[c] : c \in Calls}

\* A batch sent without its options member.
Request_NoOptions(c, a, id) ==
    [id |-> id, call |-> c, to |-> EndpointOf(a), tool |-> a.tool, n |-> a.n,
     semantic |-> "execute_all"]

Request(c, a, id) ==
    [id |-> id, call |-> c, to |-> EndpointOf(a), tool |-> a.tool, n |-> a.n,
     semantic |-> IF a.tool = "batch" THEN a.semantic ELSE "execute_all"]

Finish(c, r) ==
    /\ pc' = [pc EXCEPT ![c] = "done"]
    /\ result' = [result EXCEPT ![c] = r]

RejectArguments(c) ==
    /\ pc[c] = "idle"
    /\ \E a \in Inputs : ~Accepts(a) /\ args' = [args EXCEPT ![c] = a]
    /\ Finish(c, ToolError)
    /\ UNCHANGED <<reqId, requests, answers, ctxDone>>

Send(c) ==
    /\ pc[c] = "idle"
    /\ \E a \in Inputs, id \in FreshIds :
          /\ Accepts(a)
          /\ args' = [args EXCEPT ![c] = a]
          /\ reqId' = [reqId EXCEPT ![c] = id]
          /\ requests' = requests \cup {Request(c, a, id)}
    /\ pc' = [pc EXCEPT ![c] = "await"]
    /\ UNCHANGED <<answers, ctxDone, result>>
-----------------------------------------------------------------------------
(* The PDP, which is not in this repository. *)

\* How many decisions a PDP that honours the semantic returns: up to and with
\* the first that stops it, or all.
Stops(semantic, D) ==
    LET stop == CASE semantic = "deny_on_first_deny"     -> {"deny"}
                  [] semantic = "permit_on_first_permit" -> {"permit"}
                  [] OTHER                               -> {}
    IN  {k \in 0..Len(D) : /\ \A i \in 1..k : D[i] \in stop => i = k
                           /\ k = Len(D) \/ (k > 0 /\ D[k] \in stop)}

\* The faults a body for this request can show.
FaultsFor(r) ==
    CASE r.tool = "batch"    -> Faults
      [] r.tool = "evaluate" -> Faults \ {"short", "extra", "noMember"}
      [] r.tool = "discover" -> Faults \ {"short", "extra", "missing"}

\* The decision members of the body when the ruling is D. A list that is too
\* short may lack any of the decisions.
Items(f, r, D) ==
    CASE f = "short"    -> Parts(D) \ {D}
      [] f = "missing"  -> {[D EXCEPT ![i] = "nil"] : i \in 1..r.n}
      [] f = "extra"    -> {<<d>> \o D : d \in Decision}
      [] f = "noMember" -> {<<>>}
      [] OTHER          -> {SubSeq(D, 1, k) : k \in Stops(r.semantic, D)}

\* <<bytes of the document, bytes of anything after it>>
Sizes(f) ==
    CASE f = "oversize" -> {<<PDPMaxBytes + 1, 0>>}
      [] f = "tail"     -> (1..PDPMaxBytes) \X {1}
      [] OTHER          -> {<<1, 0>>}

AnswerTo(r, f, D, items, size) ==
    [id |-> r.id, from |-> r.to, ruling |-> D, items |-> items,
     status |-> IF f \in {"status", "redirect"} THEN f ELSE "ok",
     member |-> f # "noMember", json |-> f # "malformed",
     len |-> size[1], tail |-> size[2]]

PDPAnswers(r) ==
    /\ \A a \in answers : a.id # r.id
    /\ \E f \in FaultsFor(r), D \in [1..r.n -> Decision] :
       \E items \in Items(f, r, D), size \in Sizes(f) :
          answers' = answers \cup {AnswerTo(r, f, D, items, size)}
    /\ UNCHANGED <<pc, args, reqId, requests, ctxDone, result>>
-----------------------------------------------------------------------------
(* pdpClient.do *)

AnswersTo(c) == {a \in answers : a.id = reqId[c] /\ a.from = EndpointOf(args[c])}

TimerCovers_HeaderOnly == {"await"}

\* http.Client.Timeout covers the wait and the body.
TimerCovers == {"await", "body"}

\* The timer fires, which it always does in the end, or the caller cancels.
ContextDone(c) ==
    /\ pc[c] \in TimerCovers
    /\ ~ctxDone[c]
    /\ ctxDone' = [ctxDone EXCEPT ![c] = TRUE]
    /\ UNCHANGED <<pc, args, reqId, requests, answers, result>>

Abort(c) ==
    /\ pc[c] \in {"await", "body"}
    /\ ctxDone[c]
    /\ Finish(c, ToolError)
    /\ UNCHANGED <<args, reqId, requests, answers, ctxDone>>

\* No connection, or one that breaks before or while the body is read.
NetworkError(c) ==
    /\ pc[c] \in {"await", "body"}
    /\ Finish(c, ToolError)
    /\ UNCHANGED <<args, reqId, requests, answers, ctxDone>>

ReceiveHeader(c) ==
    /\ pc[c] = "await"
    /\ \E a \in AnswersTo(c) : a.status # "redirect"
    /\ pc' = [pc EXCEPT ![c] = "body"]
    /\ UNCHANGED <<args, reqId, requests, answers, ctxDone, result>>

\* A client without the CheckRedirect of newPDPClient re-sends the request.
FollowRedirect(c) ==
    /\ pc[c] = "await"
    /\ \E a \in AnswersTo(c) : a.status = "redirect"
    /\ \E p \in PDPs : requests' = requests \cup
          {[Request(c, args[c], reqId[c]) EXCEPT !.to = p]}
    /\ UNCHANGED <<pc, args, reqId, answers, ctxDone, result>>

RefuseRedirect(c) ==
    /\ pc[c] = "await"
    /\ \E a \in AnswersTo(c) : a.status = "redirect"
    /\ Finish(c, ToolError)
    /\ UNCHANGED <<args, reqId, requests, answers, ctxDone>>

Smaller(x, y) == IF x < y THEN x ELSE y

BytesRead_Unbounded(a) == a.len + a.tail

\* io.LimitReader hands over PDPMaxBytes at most, and does not say it stopped.
BytesRead(a) == Smaller(a.len + a.tail, PDPMaxBytes)

\* A document cut short, or followed by anything else, does not unmarshal.
Unmarshals(a) == a.json /\ BytesRead(a) = a.len
-----------------------------------------------------------------------------
(* The handlers, once postJSON or getJSON returned. *)

HasDecisions_PlainBool(a) == TRUE
HasDecisions(a) == \A i \in 1..Len(a.items) : a.items[i] # "nil"

Matches_Extra(c, a) == TRUE

\* No more decisions than evaluations.
Matches(c, a) == Len(a.items) <= args[c].n

Usable(c, a) ==
    /\ a.status = "ok"
    /\ Unmarshals(a)
    /\ a.member
    /\ args[c].tool # "discover" => HasDecisions(a) /\ Matches(c, a)

Truncated_SemanticOnly(c, a) ==
    Len(a.items) < args[c].n /\ args[c].semantic # "execute_all"

Truncated(c, a) == Len(a.items) < args[c].n

Output(c, a) ==
    CASE args[c].tool = "evaluate" ->
           [Blank EXCEPT !.status = "ok",
              !.decisions = <<[index |-> 0, decision |-> a.items[1]]>>,
              !.pdp_url = EndpointOf(args[c]), !.request_id = reqId[c]]
      [] args[c].tool = "batch" ->
           [status |-> "ok",
            decisions |-> [i \in 1..Len(a.items) |->
                             [index |-> i - 1, decision |-> a.items[i]]],
            semantic |-> args[c].semantic, truncated |-> Truncated(c, a),
            pdp_url |-> EndpointOf(args[c]), request_id |-> reqId[c]]
      [] OTHER ->
           [Blank EXCEPT !.status = "ok", !.pdp_url = EndpointOf(args[c])]

UseBody(c) ==
    /\ pc[c] = "body"
    /\ \E a \in AnswersTo(c) :
          Finish(c, IF Usable(c, a) THEN Output(c, a) ELSE ToolError)
    /\ UNCHANGED <<args, reqId, requests, answers, ctxDone>>
-----------------------------------------------------------------------------
Init ==
    /\ pc       = [c \in Calls |-> "idle"]
    /\ args     = [c \in Calls |-> NoArgs]
    /\ reqId    = [c \in Calls |-> ""]
    /\ requests = {}
    /\ answers  = {}
    /\ ctxDone  = [c \in Calls |-> FALSE]
    /\ result   = [c \in Calls |-> Blank]

Call(c) ==
    \/ RejectArguments(c) \/ Send(c)
    \/ ContextDone(c) \/ Abort(c) \/ NetworkError(c)
    \/ ReceiveHeader(c) \/ RefuseRedirect(c) \/ UseBody(c)

\* The session is over: every call has been answered.
AllAnswered == (\A c \in Calls : pc[c] = "done") /\ UNCHANGED vars

Next ==
    \/ \E c \in Calls : Call(c)
    \/ \E r \in requests : PDPAnswers(r)
    \/ AllAnswered

\* The runtime runs its goroutines and its timers; nothing is asked of a PDP
\* or of the network.
Fairness == \A c \in Calls : WF_vars(ContextDone(c)) /\ WF_vars(Abort(c))

Spec == Init /\ [][Next]_vars /\ Fairness
-----------------------------------------------------------------------------
(* Types *)

RequestSet == [id: RequestIds, call: Calls, to: PDPs, tool: Tools, n: Nat,
               semantic: Semantics]

AnswerSet == [id: RequestIds, from: PDPs, ruling: Seq(Decision),
              items: Seq(Pointer), status: {"ok", "status", "redirect"},
              member: BOOLEAN, json: BOOLEAN, len: Nat, tail: Nat]

ResultSet == [status: {"none", "error", "ok"},
              decisions: Seq([index: Nat, decision: Pointer]),
              semantic: Semantics \cup {"", "other"}, truncated: BOOLEAN,
              pdp_url: URLs, request_id: RequestIds \cup {""}]

\* Every variable has its type: the states of a call, its arguments and its
\* result, and what went over the wire.
TypeOK ==
    /\ pc \in [Calls -> {"idle", "await", "body", "done"}]
    /\ args \in [Calls -> Inputs \cup {NoArgs}]
    /\ reqId \in [Calls -> RequestIds \cup {""}]
    /\ requests \subseteq RequestSet
    /\ answers \subseteq AnswerSet
    /\ ctxDone \in [Calls -> BOOLEAN]
    /\ result \in [Calls -> ResultSet]
-----------------------------------------------------------------------------
(* Safety *)

IsDecision(c) == result[c].status = "ok" /\ args[c].tool # "discover"

\* The answers that carry the id a result reports, at the URL it reports.
Traced(c) == {a \in answers : /\ a.id = result[c].request_id
                              /\ a.from = result[c].pdp_url}

\* The decisions in a result, without their indices.
Reported(c) ==
    [i \in 1..Len(result[c].decisions) |-> result[c].decisions[i].decision]

\* Each decision in c's result is what a's ruling says of the evaluation its index
\* names.
InPlace(c, a) ==
    \A i \in 1..Len(result[c].decisions) :
        LET d == result[c].decisions[i] IN
        d.index + 1 \in DOMAIN a.ruling /\ d.decision = a.ruling[d.index + 1]

\* Decisions in a result are some the PDP at pdp_url made, in answer to the request
\* logged under request_id, in their order and none twice: a silent, broken, late
\* or oversized answer never becomes a permit or a deny (authzen.go:38-43). Each is
\* the one for the evaluation at that very index where the PDP left decisions out
\* at the end only, as the early-exit semantics have it, and whatever it left out
\* where the result is not marked truncated (tool_authzen.go:39-42, 268-271).
NoFabricatedDecision ==
    \A c \in Calls : IsDecision(c) => \E a \in Traced(c) :
        /\ Reported(c) \in Parts(a.ruling)
        /\ a.items \in Leading(a.ruling) \/ ~result[c].truncated => InPlace(c, a)

\* A result whose truncated flag is clear decides every evaluation of the call
\* (tool_authzen.go:39-42).
CompleteUnlessTruncated ==
    \A c \in Calls : IsDecision(c) /\ ~result[c].truncated =>
        {result[c].decisions[i].index : i \in 1..Len(result[c].decisions)}
            = 0..(args[c].n - 1)

\* From a PDP that honours evaluations_semantic, the result holds exactly the
\* decisions the semantic named in the result calls for: the semantic reported
\* is the one the PDP was asked to apply (tool_authzen.go:37-38, 242-249).
SemanticIsApplied ==
    \A c \in Calls : \A a \in Traced(c), r \in requests :
        /\ IsDecision(c)
        /\ r.id = a.id
        /\ a.items \in {SubSeq(a.ruling, 1, k) : k \in Stops(r.semantic, a.ruling)}
        => Len(result[c].decisions) \in
             Stops(IF args[c].tool = "batch" THEN result[c].semantic ELSE "execute_all",
                   a.ruling)

\* A call's requests, and with them the Authorization header, go only to the
\* endpoint its own arguments name, whatever a PDP answers (authzen.go:111-118);
\* a call whose arguments were refused sends none.
RequestsStayAtEndpoint ==
    \A r \in requests :
        r.to = EndpointOf(args[r.call]) /\ Accepts(args[r.call])

\* The id in a result finds one request in the PDP's log, the call's own
\* (tool_authzen.go:28-30).
IdsCorrelate ==
    \A c \in Calls : IsDecision(c) =>
        {r.call : r \in {q \in requests : q.id = result[c].request_id}} = {c}

\* Whenever a call succeeds, a discovery included, its document fits the byte cap,
\* and one that is shorter had nothing behind it: neither the cut nor what it hides
\* makes a document of what is none (config.go:51-52, authzen.go:227-229).
WithinByteCap ==
    \A c \in Calls : result[c].status = "ok" => \A a \in AnswersTo(c) :
        /\ a.len <= PDPMaxBytes
        /\ a.len < PDPMaxBytes => a.tail = 0
-----------------------------------------------------------------------------
(* The inductive invariant behind the safety properties: what holds of a     *)
(* call in each state, of a request on the wire, and of an answer.            *)

CallInv ==
    \A c \in Calls :
        /\ pc[c] = "idle" => reqId[c] = ""
        /\ pc[c] \in {"await", "body"} => reqId[c] # ""
        /\ reqId[c] # "" => Accepts(args[c])
        /\ pc[c] # "done" => result[c] = Blank
        /\ pc[c] = "done" => result[c].status # "none"
        /\ \A d \in Calls : reqId[c] = reqId[d] /\ reqId[c] # "" => c = d

RequestInv ==
    \A r \in requests :
        reqId[r.call] = r.id /\ r = Request(r.call, args[r.call], r.id)

\* An answer repeats the ruling or parts of it, or shows that it does not.
Faithful(a, r) ==
    /\ a.id = r.id /\ a.from = r.to
    /\ a.ruling \in [1..r.n -> Decision]
    /\ r.tool = "evaluate" => Len(a.items) = 1
    /\ HasDecisions(a) /\ Len(a.items) <= r.n => a.items \in Parts(a.ruling)

AnswerInv ==
    /\ \A a \in answers : \E r \in requests : Faithful(a, r)
    /\ \A a, b \in answers : a.id = b.id => a = b

ResultInv ==
    \A c \in Calls : result[c].status = "ok" =>
        /\ reqId[c] # ""
        /\ \E a \in AnswersTo(c) : Usable(c, a) /\ result[c] = Output(c, a)

\* Every part of the bookkeeping agrees: a call's state, the request on the
\* wire, the answers to it and the result built from one of them.
Inv == TypeOK /\ CallInv /\ RequestInv /\ AnswerInv /\ ResultInv
-----------------------------------------------------------------------------
(* Liveness *)

\* A call that sent its request is answered, even by a PDP that hangs before
\* the header or in the middle of the body (authzen.go:110).
EveryCallAnswered == \A c \in Calls : pc[c] = "await" ~> pc[c] = "done"
-----------------------------------------------------------------------------
(* What the code's own text says of it, and the code does not do *)

\* tool_authzen.go:35: decisions are aligned by index with the evaluations of the
\* call. Under execute_all no decision may be left out, so whichever a short list
\* lacks, it can be seen to lack one.
DecisionsAreAligned ==
    \A c \in Calls : IsDecision(c) /\ result[c].semantic = "execute_all" =>
        \E a \in Traced(c) : InPlace(c, a)
-----------------------------------------------------------------------------
(* Refinement: the calls that ask for a decision keep the promise of        *)
(* DecisionService.                                                         *)

Asks(c) == reqId[c] # "" /\ args[c].tool # "discover"

Asked(c) == IF Asks(c) THEN args[c].n ELSE 0
Ruled(c) ==
    IF Asks(c)
    THEN {[ruling |-> a.ruling, leads |-> a.items \in Leading(a.ruling)] : a \in AnswersTo(c)}
    ELSE {}

\* What DecisionService sees of a result r to a call with arguments a.
Told(a, r) ==
    [outcome |-> IF a.tool = "discover" \/ r.status = "none" THEN "none"
                 ELSE IF r.status = "error" THEN "refused" ELSE "decided",
     given |-> {<<r.decisions[i].index, r.decisions[i].decision>> :
                  i \in 1..Len(r.decisions)},
     whole |-> r.status = "ok" /\ a.tool # "discover" /\ ~r.truncated]

Service == INSTANCE DecisionService WITH
    asked  <- [c \in Calls |-> Asked(c)],
    ruled  <- [c \in Calls |-> Ruled(c)],
    answer <- [c \in Calls |-> Told(args[c], result[c])]

\* Each step of the detailed system is a step of DecisionService or none, and
\* every call put to a PDP is settled.
ImplementsService == Service!Spec
=============================================================================
