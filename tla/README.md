# A specification of mcp-opa-authz

TLA+ modules, TLC configurations and TLAPS proofs for the MCP server in this
repository: a single Go process that answers authorization questions for a
language model, by asking an AuthZEN Policy Decision Point (PDP) over HTTP or by
evaluating Rego in the process. Line numbers are those of the Go sources.

## 1. The system

| Component | Code | State | Operations |
| --- | --- | --- | --- |
| AuthZEN tools | `tool_authzen.go`, `authzen.go` | none of their own; one shared `pdpClient` | `authzen_evaluate`, `authzen_evaluate_batch`, `authzen_discover` |
| PDP client | `authzen.go` | an `http.Client` with a timeout and a redirect policy, the configuration | `postJSON`, `getJSON`, `do`, endpoint derivation, `setAuth` |
| Argument validation | `args.go`, `tool_authzen.go:370-517` | none | `jsonObjectArg`, `optionalJSON`, `requiredString`, `readEvaluationArgs`, `readEvaluationEntries`, `validateEntities`, `requireMembers` |
| Rego tool | `tool_opa.go` | per call: two contexts, a print collector, a tracer | `evaluate_policy` |
| Collectors | `tool_opa.go:308-408` | a mutex, a slice, two counters each | `Print`, `TraceEvent`, `lines`, `formatTrace` |
| Sandbox | `opa_capabilities.go` | two capability sets, computed once | `capabilities` |
| Configuration | `config.go` | seven environment variables, read once | `loadConfig` |
| Authorization header | `authzen.go:241-267` | none | `setAuth`, `hasAuthScheme` |
| Process | `main.go` | the MCP server, an exit status | `run`, `newServer` |

How they meet. The MCP library runs each tool call in a goroutine and hands the
handler a context that is done when the client cancels. Handlers share the
`pdpClient`, which is never written after it was made, and the configuration,
which is never written at all; everything else belongs to one call. A handler
that returns returns a result, an error result or a structured one; one that
panics is recovered by the library, which makes an error of it. The process
serves until its input ends, a signal comes or the transport fails. The AuthZEN
handlers send one request, wait for one response, and turn it into a result.
`evaluate_policy` hands OPA a print hook and a tracer, which OPA calls back
while it evaluates, and a context with a deadline. Results flow back to the
model, which may use what one result shows (a URL, an endpoint) as an argument
of the next call.

What is hard:

- *Failure that looks like an answer.* A deny is `false`, and so is a member
  that is not there, a body that was cut, a built-in that failed.
- *Association.* A batch answers by position, under one of three semantics, two
  of which return fewer decisions than were asked for; a list that is short says
  nothing of which decisions it lacks.
- *Time.* The client's timer, the evaluation deadline and the caller's
  cancellation race with answers that arrive.
- *Other people's input.* URLs, entries, policies and PDP bodies are all chosen
  elsewhere, and several of them are checked in one form and sent in another.
- *Configuration.* It is read once, one variable after another, and a slip there
  (a bound of 0, the wrong variable's value) shows only when a PDP hangs or an
  argument is long.
- *The end.* It comes while calls run, in three ways that must not be confused.
- *Bounds.* Every one is enforced in the middle of something: a body being read,
  lines being collected by several goroutines, a trace cut three times over.

What makes each component correct:

- AuthZEN tools: a decision in a result is the PDP's, and for that evaluation
  unless the PDP's list lacks one before it; an incomplete batch says so; requests, and with them the token, go where the call
  says and nowhere else; every call is answered.
- URLs: chaining calls never leaves the PDP's host or mount.
- Arguments: what is sent conforms as the PDP reads it; what is refused is
  refused for a reason the error names.
- Rego tool: broken is not undefined; the sandbox holds; every evaluation ends
  and says why; everything a policy makes is bounded, and a cut is declared.
- Collectors: bounded at every moment, in order, and never silently short.
- Configuration: what is served under is what the operator set, or the default.
- Header: the operator's credential, under the scheme it names, once.
- Process: every call is replied to, a call ends itself at most, and the exit
  status says what happened.

## 2. Modules

| Module | Models | Uses |
| --- | --- | --- |
| `Rulings` | what can be left of a list of decisions: its leading parts, or any parts | |
| `DecisionService` | the promise of the AuthZEN tools: a call is answered with what the PDP sent of the ruling made on it, or refused | extends `Rulings` |
| `AuthZENTools` | the three handlers, the shared client, the PDPs | refines `DecisionService` |
| `PDPURL` | validation and derivation of endpoints over chained calls | |
| `EvaluationArgs` | reading and checking the AuthZEN arguments | |
| `BoundedLog` | the promise of a collector | |
| `BoundedCollector` | `printCollector` and `boundedTracer` under their mutex | refines `BoundedLog` |
| `PolicyService` | the promise of `evaluate_policy`: an accepted call is told the answer its query has, that it has none, or an error, and a broken policy is always an error | |
| `RegoEvaluation` | `evaluate_policy`: arguments, compilation, evaluation, deadline, result | composes two `BoundedLog`s; refines `PolicyService` |
| `Configuration` | `loadConfig` over an environment | |
| `AuthorizationHeader` | `setAuth`, `hasAuthScheme` over a token | |
| `Session` | the process: start, concurrent calls, panics, the end | composes `DecisionService`, `PolicyService`, `Configuration`, `AuthorizationHeader` |

Each `MC...` module gives one of them the values it is checked with, and each
`...Proofs` module (`AuthZENTools`, `PDPURL`, `EvaluationArgs`,
`BoundedCollector`, `RegoEvaluation`, `AuthorizationHeader`, `Session`) holds the
theorems about one. `NumberLemmas` holds what three of them need of natural numbers.

So the parts fit together: `BoundedCollector` implements the `BoundedLog` that
`RegoEvaluation` prints to; `RegoEvaluation` and `AuthZENTools` implement the
`PolicyService` and the `DecisionService` that `Session` serves.

### AuthZENTools

`pc[c]` is where the goroutine of call `c` is: before its request (`idle`), in
`http.Client.Do` (`await`), in `io.ReadAll` (`body`), or done.

| Action | Code |
| --- | --- |
| `RejectArguments` | every return before `postJSON` or `getJSON`; what is well formed is `EvaluationArgs`' and `PDPURL`'s business, and arrives here as `entities` and `Resolves` |
| `Send` | request id, body, request (`postJSON`, `getJSON`) |
| `ContextDone`, `Abort` | `http.Client.Timeout` or the caller's context, and the error either leads to |
| `NetworkError` | no connection, or one that breaks |
| `ReceiveHeader`, `RefuseRedirect` | the return of `c.http.Do`, by `CheckRedirect` |
| `UseBody` | `ReadAll`, the status check, `Unmarshal`, the checks of the handler, the result |
| `PDPAnswers` | the PDP (external): it rules, and sends a body that repeats the ruling or shows one of the faults |

A PDP's faults are `Faults`: too few decisions, a missing one, too many, no
`evaluations` member or endpoint, malformed JSON, a status other than 200, a
redirect, a body over the cap, a body followed by junk. An answer that is too
`short` may lack any of the decisions, at the front, in the middle, at the end or
in several places (`Parts`); the handler accepts every list that is not too long
and numbers it from 0 (`tool_authzen.go:261-284`).

An answer keeps the ruling it was made from beside what was sent, so that
`NoFabricatedDecision` can compare what the caller was told with what the PDP
decided. It says two things. What is reported is always some of the ruling, in its
order: nothing is made up. And each decision is the one for the evaluation its
index names, provided that the list lacks decisions at its end only, as an early
exit makes it, or that the result is not marked truncated. The rest, a list with a
hole before its end, is where the code ties decisions to the wrong evaluations:
`DecisionsAreAligned` is the claim without the proviso, and violated (section 5).
`DecisionService` promises the same: a ruling comes with whether it `leads`, and
what is told of it is a leading part if it does and any part if not.

What a PDP may do to a ruling without showing it, such as permuting a full batch,
no client can tell, and the model leaves it out.

Abstractions: an endpoint is named by the PDP it reaches; entities are well
formed or not; a document has a length and what follows it a length. `do`
reads the body of a failed status too; it is one step with the check.

### PDPURL

A path is the sequence of its segments, so suffixes that begin with `/` are
exact. `Segments` is what paths are made of. A URL keeps whether it has userinfo and
whether its text spells a slash of the path as `%2F` (the `RawPath` of `net/url`).
The query and the fragment, which the derivations clear, decide nothing and are
left out.
`seen` is what the model can pass as `pdp_url`: URLs it makes up and every URL a
result showed. Because `rootOf` compares with suffixes, a PDP whose *root* ends
like an endpoint path must be configured by an endpoint and not by its root.
`Means` says which paths mean the PDP at a mount, and the assumptions say that the
configured URL means its mount, and that a URL made up for the configured host
means it too or cannot pass validation: another path of that host is another
PDP, of whose mount the configuration says nothing. URLs of other hosts are any.

### EvaluationArgs

One action per step: an argument, an entity check, the list, an entry, the
semantic. A text is what it decodes to; an object is what its required members
are. An entry keeps the occurrences of a member in document order, spelled
exactly or in another case, because `json.Unmarshal` takes both and AuthZEN's
member names are exact. `Schema` is what the input schema of each tool requires
(`registerEvaluateTool`, `registerBatchTool`), which is written apart from the
checks. `ReadByPDP` is the PDP's reading of what was forwarded.

### BoundedCollector

`Print` is `Begin`, `Lock`, `Test`, `Cut`, `Store`, `Unlock`, one step each, so
that without the mutex two goroutines would meet in the middle; `TraceEvent` is
the same code without the cut, a collector whose `LineBytes` no event exceeds.
`lines` is one step, since it holds the mutex from its first line to its last.
`evaluatePolicy` calls it when `Eval` has returned (`tool_opa.go:207-217`); here it
may come at any moment at which the mutex is free, so what is checked of it holds
of an environment that asks more than this program does.

### RegoEvaluation

`ReadArguments` is everything up to `context.WithTimeout`; `Compile` is
`PrepareForEval`; `PrintLine`, `TraceEvent`, `CallBuiltin`, `BuiltinFails`,
`Interrupt` and `Answer` are what OPA (external) can do while it evaluates;
`Deadline` and `Cancel` are the two contexts; `ReportError` reads them, a step
after OPA gave up; `Format` builds the result. Where `Compile` fails, the error
names functions that are missing, or, where the policy is wrong in another way,
anything the source holds (`Named`); `sandboxHint` looks for the names of sandboxed
built-ins in its text (`strings.Contains`, `tool_opa.go:295-297`). `Within` says
which of them occur in a name, so a misspelt `http.sendd` gets the note as
`http.send` does. `rendered` keeps the lines `PrettyTrace` made, all of them, so
that the trace returned can be compared with them. The collectors are taken as
`BoundedLog`s, which is what `BoundedCollector` is checked to implement. Calls
of `evaluate_policy` share nothing they write, so one is enough.

The refinement to `PolicyService` maps what OPA found to `verdict` (a built-in
that failed is "broken") and the result's status and `defined` to `told`.

Left out: a result that cannot be encoded (`tool_opa.go:241-244`), since OPA's
values always can.

### Configuration and AuthorizationHeader

`Configuration` is `loadConfig` as an operator on environments. A variable is
unset, a number, or text its parser refuses; `Read` is `durationEnv`,
`int64Env` or `boolEnv`; the first fault in `Order` is the one reported. `int` is
the conversion of `MaxArgBytes` in the width of the build: `IntMax` is a
constant, and equals `Int64Max` in every build that is released
(`.goreleaser.yml`). The instance scales both to 7.

In `AuthorizationHeader` a token is the sequence of its words and of the white
space between them, which is all that `TrimSpace`, `ToLower` and the search for
a blank look at. The schemes are those of the code: bearer, basic and dpop. A
first word that is none of them is part of the credential, which then gets
`Bearer ` (`authzen_test.go:57`), so a token for another scheme cannot be
configured. Tabs occur at the ends of a token only. `IsToken` says what of a token
the code relies on without a check: one that begins with the name of a scheme goes
on with a blank and a credential. A lone `Bearer`, or one followed by a tab, is
taken for a credential and sent as `Bearer Bearer` (section 5).

### Session

| Action | Code |
| --- | --- |
| `Inform`, `RejectArgument`, `RejectConfiguration` | the early returns of `run`, with their status |
| `Serve` | `newServer` and the call of `ServeStdio`: from here on the configuration is fixed |
| `Receive` | a `tools/call` read from stdin, and a goroutine for its handler |
| `Ask`, `AskAnswered`, `AskRefused`, `AskTimesOut` | an `authzen_*` handler as `DecisionService`; the request carries `setAuth` of the token, and a timer covers it if the configured timeout is not 0 |
| `Accept`, `EvalReturns` | an `evaluate_policy` handler as `PolicyService` |
| `Rule`, `Decide` | the PDP and OPA (external) |
| `Panic`, `Recover` | a handler that panics anywhere, and `WithRecovery` |
| `Reply` | the library writing the result of a handler that returned |
| `End`, `ServeReturns` | the input ends, a signal comes, the transport fails; `ServeStdio` returns and `run` makes a status of it |

`ServeStdio` is external, and modelled by what `run` and the smoke test
(`scripts/smoke.sh`, which pipes calls in and expects a reply to each) rely on: it
returns nil at the end of its input, after the calls it read were answered; `context.Canceled` after a signal; another error when the
transport fails, in both cases with calls still running or not. A process that
has exited replies to nothing.

## 3. Runs

| Run | Question | Bounds, and why they are enough |
| --- | --- | --- |
| `authzen_one_call` | Does what reaches the caller come from the PDP, whatever goes wrong? | One call with every argument and every fault; batches of up to 3 of 3, so that a list can lack decisions at the front, in the middle, at the end and in two places; a cap of 3 bytes, so a document can end before, at and after it, with something behind it or not; two PDPs, so a URL can be overridden. |
| `authzen_concurrent` | Are calls kept apart, do requests stay, is every call answered, is the promise kept? | Two calls (every property relates a call to itself or to one other), two ids, batches of 2, and the faults that could mix or move them: `short`, `missing`, `redirect`, `extra`. |
| `authzen_alignment` | Under `execute_all`, is each decision the one for the evaluation its index names, whatever the PDP left out? | The bounds of `authzen_one_call`. Violation: section 5. |
| `url_chaining` | Does chaining stay on the host and the mount? | Mounts at the origin, under a prefix and under a prefix that ends like an endpoint, configured by each endpoint, by the root with and without a slash, or not at all; URLs with userinfo, no host, another scheme and another host made up. The URLs a session can see are finite, so sessions are of any length. |
| `url_prefix` | Is a prefix kept as configured? | Violation: section 5. |
| `args_exact` | Is what is sent conforming, what is refused at fault? | Every form of one wrong argument beside good or absent others; lists of up to 2 of all forms of entry, and 3, one over the limit, of good ones. |
| `args_folded`, `args_context` | Are members, and contexts, checked as the PDP reads them? | Violations: section 5. |
| `collector` | Is the collector an atomic, bounded, honest log that never blocks? | Two goroutines printing twice, over a limit of 2, with messages under, at and over the length limit: both can stand between test and append at the last free place. |
| `collector_trace` | How many events does a trace hold? | One goroutine and the constant of the code, 800. Violation: section 5. |
| `rego_evaluation` | Is every outcome of an evaluation what happened? | Two built-ins inside and one outside the sandbox, and a misspelt one, alone and beside one of the sandbox; each argument wrong in each way; result sets and values just under, at and over a limit of 3; 2 printed lines, 2 events, 1 trace line, so that each bound is met alone and together. |
| `session` | Does a process serve under what the operator set, reply to every call and end as it says? | One call of each kind, a batch of up to 2, so that the end, a panic and a hanging PDP meet a call that runs and one that does not; each setting wrong in each way and right, the two bounds that share a variable in all combinations, two faults at once; tokens with and without a scheme, in several spellings, with blanks at the ends and doubled. |

The properties that say most: `NoFabricatedDecision` (no failure becomes a
permit or a deny, and a decision is for its own evaluation unless a list with a
hole in it was marked truncated),
`SemanticIsApplied`, `CompleteUnlessTruncated`, `RequestsStayAtEndpoint`,
`ChainingStaysOnMount`, `SentConforms`, `IsBoundedLog`, `CutIsDeclared`,
`ImplementsPolicyService` (an evaluation that was broken is never told as
undefined, and every one ends), `TimeoutIsNamed`, `BoundsInForce`,
`NoVerdictWithoutDecision`, `EveryCallIsReplied`. Beside each
definition a mutated form (`..._NoMutex`, `..._PlainBool`, `..._Shadowed`) shows
what a plausible slip in that code would be and which property notices.

`Next` of `AuthZENTools`, `EvaluationArgs`, `RegoEvaluation` and `Session` ends in
a stutter once everything is answered, or the process has exited, so deadlock is checked in every run.

### Fairness

- `AuthZENTools`: weak fairness of `ContextDone` and `Abort` for each call. Go's
  timers fire and runnable goroutines run. Nothing is asked of PDPs or of the
  network, which may be silent for good.
- `BoundedCollector`: weak fairness of the holder's steps and strong fairness of
  `Lock`. `sync.Mutex` hands itself to a goroutine that waited a millisecond.
- `RegoEvaluation`: weak fairness of `Compile`, `Deadline`, `Interrupt`,
  `ReportError` and `Format`. It assumes of OPA that compilation ends and that
  an evaluation whose context is done is given up; nothing that a policy comes
  to an end.

- `Session`: weak fairness of `Serve`, `ServeReturns`, `Recover` and `Reply`
  (goroutines run, the library writes what it was given), of `Ask` (a handler
  reaches its request or gives up) and `AskTimesOut` (a timer that was set
  fires), and of `EvalReturns`, which is `PolicyService`'s own promise. Nothing is
  asked of the PDP, the client or the operator. A configured timeout of 0 would
  set no timer, so `EveryCallIsReplied` and `EndIsReached` rest on
  `durationEnv` refusing it; their mutant shows that.

## 4. Proofs

`AuthZENToolsProofs` proves, for any calls, PDPs, inputs, faults and bounds that
meet the assumptions of `AuthZENTools` (`URLAssumption`, `IdAssumption`,
`BoundAssumption`, `InputAssumption`):

| Theorem | States |
| --- | --- |
| `Invariance` | `Spec => []Inv` |
| `TypeCorrectness` | `Spec => []TypeOK` |
| `NoDecisionIsFabricated` | `Spec => []NoFabricatedDecision` |
| `ClearFlagMeansComplete` | `Spec => []CompleteUnlessTruncated` |
| `RequestsNeverStray` | `Spec => []RequestsStayAtEndpoint` |
| `IdsFindTheirCall` | `Spec => []IdsCorrelate` |
| `CapBoundsDocuments` | `Spec => []WithinByteCap` |
| `SemanticsAreReported` | `Spec => []SemanticIsApplied` |
| `ImplementsDecisionService` | `Spec => Service!Safety` |
| `EverySuccessButDiscoveryHasItsId` | `Spec => []IdIsReported` |
| `NothingIsSentAgain` | `Spec => []SentOnce` |
| `NoCallIsReopened` | `Spec => [][CallsAreFinal]_vars` |
| `SessionsMoveOn` | `Spec => [][StepsMoveOn]_vars` |

The argument. None of the safety properties is inductive: each speaks of a
result and an answer and nothing ties the two to the call while it waits. `Inv`
adds that: a call in flight has an id of its own (`CallInv`); every request is
the one its call's arguments and id make (`RequestInv`); every answer repeats
the ruling on a request or shows that it does not, and no id is answered twice
(`AnswerInv`); and every successful result is the output of a usable answer to
its own call (`ResultInv`). Each step keeps it, one lemma per action
(`StepInv`). Every property then follows from `Inv` in the state at hand, through
`WhereDecisionsComeFrom`: the decisions of a result are parts of the ruling, and
parts that lack nothing, or nothing but the end, are the ruling index by index
(an increasing function from 1..n to 1..n is the identity: `IncreasingIsIdentity`
in `NumberLemmas`). The refinement maps a call's arguments, the rulings on it and its
result to `asked`, `ruled` and `answer`, and goes action by action again
(`StepSimulates`).

`IdIsReported` follows from `ResultInv` alone. The last three are about calls as they
go on. A call makes one request, an id has one
answer, and a call that is done is not touched again, however late its answer, its
timer or its cancellation: by `RequestInv` and `AnswerInv`, and because every action
of a call begins at a place that is not `done`. Each step takes its call further
(`Taken`, four steps at most) or is an answer to a request that had none, so a
session of finitely many calls cannot go round in circles: what remains to TLC is
that it does not stop early, which is fairness.

`FreshIds` is where the proofs rest on probability: a new id differs from every
id in use. `newRequestID` draws 128 random bits; its fallback, a constant, is
taken to be unreachable, as its comment says (`authzen.go:304-307`).

`BoundedCollectorProofs` proves, for any number of goroutines and any limits
that meet `BoundAssumption` (the bounds are naturals) and `FreeAssumption` (no
goroutine is called `Free`):

| Theorem | States |
| --- | --- |
| `CollectorTypes` | `Spec => []TypeOK` |
| `NeverOverTheLimit` | `Spec => []Bounded` |
| `CutsAreDeclared` | `Spec => []CutIsDeclared` |
| `FirstLinesKept` | `Spec => []FirstLinesInOrder` |
| `ImplementsBoundedLog` | `Spec => IsBoundedLog` |
| `NothingIsDroppedEarly` | `[]DropsOnlyAtLimit`, of `Spec` and of `TracerSpec` |
| `TheLimitIsToBlame` | `DocumentedEvents <= Limit` implies `TracerSpec => []TraceHolds4000` |
| `EveryMessageIsAccountedFor` | finitely many `Writers`: `[]Accounted`, of `Spec` and of `TracerSpec` |

The argument. `Bounded` needs to know that the room a goroutine saw at its test
is still there when it appends (`RoomInv`), which is what the mutex gives, and
the mutex gives it because holding it and being inside are the same thing
(`TypeOK`). A message in the making is its goroutine's next (`MsgInv`); until
something is dropped, the lines are exactly what each goroutine is through with,
so the predecessor of a line is always before it (`LinesInv`); and `truncated`
runs ahead of `out` by one step at most, of the holder (`FlagInv`), so a reader,
who finds the mutex free, finds the two agreeing. The conjunction with the
properties is `IInv`, kept by each action (`StepKeeps`). The refinement maps
`Store` to `Keep`, a `Test` that finds no room to `Lose`, and all else to a
stutter; `truncated` is not in the mapping, because it is set a step early, and
the lines that are cut stand for it (`Lost`).

`Accounted` counts: the messages goroutines are through with are as many as lines
and drops together. A step takes at most one goroutine through one more message and
adds one line or one drop (`OneMoreSent`), so nothing is lost between the two
counters.

`RegoEvaluationProofs` proves, for any built-ins, policies, arguments, result sets
and limits that meet `PolicyAssumption` (what is sandboxed is a built-in, and holds
no sandboxed name but its own),
`ResultAssumption` (a single value is one result and smaller than its set),
`AllowAssumption` and `LimitAssumption` (limits are positive):

| Theorem | States |
| --- | --- |
| `Invariance` | `Spec => []IInv` |
| `EvaluationTypes` | `Spec => []TypeOK` |
| `TimeoutsAreNamed` | `Spec => []TimeoutIsNamed` |
| `TheSandboxExplainsItself` | `Spec => []SandboxIsExplained` |
| `TyposAreTakenForTheSandbox` | `Spec => []MisspeltIsBlamed` |
| `NoSandboxedBuiltinRuns` | `Spec => []SandboxHolds` |
| `AnswersAreKept` | `Spec => []AnswerIsKept` |
| `ExactlyTheLimitIsWithheld` | `Spec => []AtTheLimit` |
| `ResultsAreBounded` | `Spec => []ResultIsBounded` |
| `TraceCutsAreDeclared` | `Spec => []TraceCutIsDeclared` |
| `OutcomesAreRight` | `Spec => []OutcomeIsRight` |
| `EvaluationsMoveOn` | `Spec => [][NothingIsTakenBack]_vars` |
| `ImplementsThePromise` | `Spec => Promise!Safety` |

The argument. `SandboxHolds` follows from what compiled (`CompiledInv`): built-ins
run after a compilation that passed under `capabilities`. `TimeoutIsNamed` needs
to know why the context was done when OPA noticed (`CauseInv`): it is cancelled
by its caller only, so a context that was done while the caller is there had its
deadline pass, and contexts do not change their minds between OPA's return and
the handler's look. The rest speaks of a result, which is made in one step of
what OPA returned and of two logs (`OkInv`), which are bounded while they are
written (`LogInv`). What it gives of the answer comes down to two comparisons
(`AnswerComesDownTo`): `AnswerIsKept` is about sizes below and above the limit, on
which code and comments agree, and `AtTheLimit` says what happens at it, on which
they do not. The note on a compile error is derived from the names the error holds
(`HintTells`): `SandboxIsExplained` bounds it from both sides where the policy is
otherwise sound, and `MisspeltIsBlamed` says that the room it leaves is taken. The
refinement goes action by action; it needs `StageInv` to
know that nobody was told anything before the last step. `OutcomeIsRight` goes both
ways: an error of each kind is told exactly where that happened, which needs what
each stage has behind it (`OutcomeInv` with `CauseInv` and `CompiledInv`).
`NothingIsTakenBack` is about steps: no stage is left for an earlier one, the reason
a context is done for is the first, logs only grow, and what was told is final.

`AuthorizationHeaderProofs` proves, for a token of any words and any length:

| Theorem | States |
| --- | --- |
| `HeaderIsAsMeant` | `IsToken(t)` implies `Words(setAuth(t)) = Meant(t)` |
| `HeaderHasNoSpaceAtItsEnds` | a header that is set has white space at neither end |

The argument. `Words` is a recursive function on the positions of a token: a
`RECURSIVE` operator, or `SelectSeq`, would be opaque here. That the function
exists, is unfolded one position at a time (`KeptStep`) and takes joined tokens
to joined words (`WordsOfJoined`) is proved by least counterexample: the set of
positions where it fails has a least element (`LeastNumber`, from the
well-foundedness of `<`), which is neither 0 nor the successor of a position where it
holds (`UpTo`). Trimming then removes nothing but white space (`Trimmed`), and
`IsToken` is what makes `hasAuthScheme` of the trimmed token agree with its first
word (`SchemeIsSeen`).

`SessionProofs` proves, for any calls, environments, tokens and widths that meet
`CallAssumption`, `StartAssumption`, `WidthAssumption` and `DefaultAssumption`
(defaults are positive and fit an int):

| Theorem | States |
| --- | --- |
| `ProcessInvariance` | `Spec => []ProcessInv` |
| `TheExitStatusIsTrue` | `Spec => []ExitStatusIsTrue` |
| `NoCallEndsTheSession` | `Spec => CallsDoNotEndTheSession` |
| `BoundsAreInForce` | `IntMax = Int64Max` implies `Spec => []BoundsInForce` |
| `NoVerdictIsInvented` | `Spec => []NoVerdictWithoutDecision` |
| `SessionTypeOK` | `Spec => []TypeOK` |
| `EveryHeaderIsAsMeant` | tokens as `IsToken` admits imply `Spec => []AuthorizationIsAsMeant` |
| `BoundsOfAnyBuild` | for any width: `NetworkInForce`, and `BoundInForce` of each bound that fits an int |
| `ReplyIsFinal` | no step changes a reply |
| `SessionKeepsItsServices` | `Spec => Service!Safety /\ Policy!Safety` |

The argument. `ProcessInv` ties each stage of the process to the way it was started:
once it serves, its configuration is `loadConfig` of the environment, and once
it exited its status is one of four. What is left is about `loadConfig` alone:
its `fault` is a setting that is wrong, and without one `int` changes no number
that was accepted and fits. That is `BoundsOfAnyBuild`, which names what escapes
where an int is narrower than an int64, a `MAX_ARG_BYTES` that does not fit; without
that exception, `BoundsAreInForce` is false of a 32-bit build (section 5).
`VerdictInv` keeps, for calls of either kind, that an answer is made of a ruling and
stays so while other calls, panics and the end go on. Every header is `setAuth` of
the one token (`HeadersInv`), so what a PDP is shown is a fact about `setAuth` alone.
`TypeOK` also says that a reply belongs to a handler that is through (`RepliesInv`)
and that the configuration holds numbers (`NumbersInv`). `SessionKeepsItsServices`
goes action by action: a call's step is one of its service, and everything else
leaves both services alone, their safety being what each promises on its own.

`EvaluationArgsProofs` proves, for any calls, lists of any length and any
`MaxBatch` that meet `InputAssumption`:

| Theorem | States |
| --- | --- |
| `Invariance` | `Spec => []IInv` |
| `IndicesStayInside` | `Spec => []TypeOK` |
| `WhatIsSentConforms` | `Spec => []SentConforms` |
| `RefusalsNameTheFault` | `Spec => []RefusalNamesTheFault` |
| `TheSchemaIsEnforced` | `Spec => []SchemaIsEnforced` |
| `WhatWasReadConforms` | `Spec => []ReadConforms` |
| `OnlyEntryContextsGoUnchecked` | `Spec => []ContextsRead` |
| `ReadingMovesOn` | `Spec => [][ReadsOn]_vars` |

The argument. `ReadInv` says at each place what has passed by then: the arguments
below `k`, the entities, the list, the entries below `k`; and of a refusal, which
check did not pass. The heart is `ReadAlike`: where members are spelled exactly and
once, the entry `json.Unmarshal` decodes over the defaults is the evaluation a PDP
reads from the raw entry and the raw defaults, so what was checked is what is
sent. `Exact` is the hypothesis the run `args_folded` shows to be needed; without it,
what the handler itself read of each entry still conforms (`WhatWasReadConforms`).
`ContextsRead` says of the contexts that only an entry's own goes unchecked.
`ReadsOn` is the variant of the reading: a later stage, or the next index of this one,
which `MaxBatch` bounds, so it ends.

`PDPURLProofs` proves, for any segments, mounts, configured and made-up URLs that
meet the assumptions of `PDPURL`, and sessions of any length:

| Theorem | States |
| --- | --- |
| `Invariance` | `Spec => []Inv` |
| `SessionTypes` | `Spec => []TypeOK` |
| `NothingIsSentAmiss` | `Spec => []RequestsAreValid` |
| `ChainingNeverStrays` | `Spec => []ChainingStaysOnMount` |
| `DerivedEndpointsAreRespelt` | `Spec => []DerivedIsRespelt` |
| `OnlySpellingIsLost` | `Spec => []OnlySpelling` |

The argument. `Inv` says that every URL in sight is *at home*: if it passes
validation and names the configured host, its path means the mount. The lemma that
keeps it is `RootIsMount`: whatever path means a PDP, stripping the endpoint and
the slash leaves its mount. That holds because the three endpoint paths end in
different segments, so at most one of them is a suffix (`EndpointStripped`), and
none ends in a slash, so a root with one is not taken for an endpoint. A path a suffix is
joined to is never the path before it (`LongerPath`), so `net/url` drops the
spelling it kept of that (`ResolvedSpelling`) and no derived endpoint has a `%2F`; the prefix
is lost where the configured URL has one, and there only.

Four runs of section 3 end in a violation that a theorem delimits: it shows, for
every value of the constants, that what the run finds is all of its kind.

| Run | Theorem | What it leaves |
| --- | --- | --- |
| `authzen_alignment` | `NoDecisionIsFabricated` | a list that lacks a decision before its last one, in a result marked truncated |
| `url_prefix` | `OnlySpellingIsLost` | a configured URL that spells a slash `%2F` |
| `args_context` | `OnlyEntryContextsGoUnchecked` | an entry's own context |
| `collector_trace` | `TheLimitIsToBlame`, `NothingIsDroppedEarly` | a limit below the documented number |

`args_folded` is delimited by the hypothesis of `WhatIsSentConforms`.

Only model-checked: liveness (`EveryCallAnswered`, `EveryPrintReturns`,
`EveryCallIsReplied`, `EndIsReached`, and the liveness of `DecisionService` and
`PolicyService`), which is out of the prover's reach. Its half that needs no fairness,
that no step goes back, is proved (`SessionsMoveOn`, `EvaluationsMoveOn`,
`ReadingMovesOn`). `SessionKeepsItsServices` proves that a session keeps what each
service promises; that the implementations may stand in for the services in it is
the usual argument about open systems and is not proved: the services share no
variable.

## 5. Where the code and its text differ

Each is a run that TLC ends with a counterexample.

| Run | The text | The code |
| --- | --- | --- |
| `authzen_alignment` | `tool_authzen.go:35`: decisions "are aligned by index with the `evaluations` argument"; `268-271`: one silently tied to the wrong resource is "the worst outcome this tool has" | a list that lacks decision 1 of 3 is accepted, under `execute_all` too, and the decisions for evaluations 1 and 2 are returned under the indices 0 and 1, with `truncated` set |
| `url_prefix` | `README.md:122`: a prefix is kept | a `%2F` in the prefix becomes `/` in every derived endpoint |
| `args_folded` | `README.md:133`: "Required members validated before the request is sent" | an entry with `"Subject"` passes for one with `"subject"` and is sent as written |
| `args_context` | `tool_authzen.go:428-429`: the entry over the defaults "is what gets checked" | its context is not |
| `collector_trace` | `README.md:92`: a trace is bounded at 4000 events | at 800 |

Three more are theorems and need no run:

| Theorem | The text | The code |
| --- | --- | --- |
| `EverySuccessButDiscoveryHasItsId` | `README.md:134`: `X-Request-ID` is "Sent on every call, returned in the result" | `authzen_discover` sends one (`authzen.go:200`) and returns none; every other success does |
| `ExactlyTheLimitIsWithheld` | `tool_opa.go:56-57, 248` and `README.md:94`: what encodes to more than 256 KiB is left out | an answer of exactly the limit is, too: the newline `json.Encoder` writes is counted |
| `TyposAreTakenForTheSandbox` | `tool_opa.go:282-284`: the note is there because the error is "otherwise indistinguishable from a typo" | a misspelt name that holds a sandboxed one gets the note |

Smaller ones, read in the code and neither proved nor made into runs: `postJSON`'s comment
(`authzen.go:163-164`) says the id the PDP echoed back is returned, and the
client's own is, the response header being read nowhere; the description and the
`openWorldHint` of `evaluate_policy` (`tool_opa.go:78-91`) say that no service is
contacted, also where the operator enabled the network built-ins; `int(n)`
(`config.go:96`) turns a large `MCP_MAX_ARG_BYTES` into another number where an
int has 32 bits, which no released build has; the text of an evaluation error
(`tool_opa.go:214`) is returned without a bound; `rootOf`'s comment
(`authzen.go:331`) promises the origin for an unknown path, and the code and its
test keep the path; an endpoint configured with a trailing slash is not recognised as
one; a body whose document ends exactly where the cap cuts it is accepted
whatever followed; a token that is the name of a scheme alone, or has a tab after
it, is sent behind a second `Bearer` (`authzen.go:255-267` looks for a blank), which
is why `IsToken` is assumed of tokens; the printed lines and the trace of an evaluation that ended in
an error are dropped.

## 6. Not modelled

- `AllowNet`, which `withoutBuiltins` empties so that the type checker fetches no
  remote JSON Schema (`opa_capabilities.go:55-70`): what it governs happens inside
  OPA's compiler, of which the model keeps whether a policy compiles.
- Wording: `statusHint`, `snippet`, usage and error texts, beyond what they name.
- `resolveVersion` and the build information it reads.
- The library's JSON-RPC framing, and requests other than tool calls.
- JSON encoding, OPA, `net/http` and `mcp-go` beyond how the code uses them.
  `net/http` may send a GET again on a stale connection; requests are a set, so
  a second transmission of one request is not told from the first.

- A PDP that rules on something else than it was asked, an operating system
  without randomness, and a disk or terminal that does not take the output: the
  code does not handle them.

## 7. Plan

1. Done: the inventory's components, each in a module of its own or composed in
   `Session`; all their safety properties proved, and what delimits the violations.
2. Left: a `Session` over `AuthZENTools` and `RegoEvaluation` themselves, which
   would need no argument about composition and is too large for TLC as it
   stands; more than one process sharing a PDP, which share nothing here; the
   `BoundedLog`s of `RegoEvaluation` mapped to the collector in a proof.
