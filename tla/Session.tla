------------------------------- MODULE Session -------------------------------
(***************************************************************************)
(* The process (main.go): it reads its argument and its environment, serves *)
(* tool calls over stdio until its input ends, a signal comes or the        *)
(* transport fails, and exits with a status.  The calls run side by side:   *)
(* authzen_* calls are the ones of DecisionService, which AuthZENTools      *)
(* implements, and evaluate_policy calls the ones of PolicyService, which   *)
(* RegoEvaluation implements.  Here they meet the configuration they run    *)
(* under, and panics.                                                       *)
(***************************************************************************)
EXTENDS Configuration, AuthorizationHeader

CONSTANTS
    AskCalls,   \* calls of the authzen_* tools
    EvalCalls,  \* calls of evaluate_policy
    MaxBatch, Decision,
    Starts      \* how the process may be started

Calls == AskCalls \cup EvalCalls

Arguments == {"", "version", "help", "unknown"}

ASSUME CallAssumption == AskCalls \cap EvalCalls = {} /\ MaxBatch \in Nat \ {0}
ASSUME StartAssumption ==
    \A s \in Starts : /\ s.arg \in Arguments /\ s.env \in [Settings -> Texts]
                      /\ s.token \in Seq(STRING)

VARIABLES
    start,      \* its first argument, environment and token
    process,    \* "starting", "serving", "exited"
    config,     \* the configuration handlers see
    status,     \* the exit status, and the setting an error names
    ended,      \* what ended the session: "", "eof", "signal", "fault"
    handler,    \* handler[c]: "none", "running", "returned", "panicked", "replied"
    reply,      \* reply[c]: "none", "result" or "error"
    headers,    \* the Authorization headers that PDPs received
    asked, ruled, answer,       \* DecisionService
    accepted, verdict, told     \* PolicyService

process_vars == <<start, process, config, status, ended>>
ask_vars     == <<asked, ruled, answer>>
eval_vars    == <<accepted, verdict, told>>
vars == <<process_vars, handler, reply, headers, ask_vars, eval_vars>>

Service == INSTANCE DecisionService WITH Calls <- AskCalls
Policy  == INSTANCE PolicyService WITH Calls <- EvalCalls

NoStatus == [code |-> -1, names |-> ""]

Exit(code, names) ==
    /\ process' = "exited"
    /\ status' = [code |-> code, names |-> names]
-----------------------------------------------------------------------------
(* run, up to ServeStdio. *)

Inform ==
    /\ process = "starting" /\ start.arg \in {"version", "help"}
    /\ Exit(0, "")
    /\ UNCHANGED <<start, config, ended, handler, reply, headers, ask_vars, eval_vars>>

RejectArgument ==
    /\ process = "starting" /\ start.arg = "unknown"
    /\ Exit(2, "")
    /\ UNCHANGED <<start, config, ended, handler, reply, headers, ask_vars, eval_vars>>

RejectConfiguration ==
    /\ process = "starting" /\ start.arg = ""
    /\ loadConfig(start.env).fault # ""
    /\ Exit(1, loadConfig(start.env).fault)
    /\ UNCHANGED <<start, config, ended, handler, reply, headers, ask_vars, eval_vars>>

Serve ==
    /\ process = "starting" /\ start.arg = ""
    /\ loadConfig(start.env).fault = ""
    /\ config' = loadConfig(start.env).config
    /\ process' = "serving"
    /\ UNCHANGED <<start, status, ended, handler, reply, headers, ask_vars, eval_vars>>
-----------------------------------------------------------------------------
(* Tool calls.  The library runs each in a goroutine. *)

Receive(c) ==
    /\ process = "serving" /\ ended = "" /\ handler[c] = "none"
    /\ handler' = [handler EXCEPT ![c] = "running"]
    /\ UNCHANGED <<process_vars, reply, headers, ask_vars, eval_vars>>

Runs(c) == process = "serving" /\ handler[c] = "running"

\* The handler is through: what its caller is to be told is settled.
Return(c) == handler' = [handler EXCEPT ![c] = "returned"]

Ask(c) ==
    /\ Runs(c)
    /\ Service!Ask(c)
    /\ headers' = headers \cup {setAuth(start.token)}
    /\ UNCHANGED <<process_vars, handler, reply, eval_vars>>

\* The PDP is a process of its own.
Rule(c) ==
    /\ Service!Rule(c)
    /\ UNCHANGED <<process_vars, handler, reply, headers, eval_vars>>

AskAnswered(c) ==
    /\ Runs(c) /\ Service!Answer(c) /\ Return(c)
    /\ UNCHANGED <<process_vars, reply, headers, eval_vars>>

\* Arguments, the network, the caller or the PDP are at fault.
AskRefused(c) ==
    /\ Runs(c) /\ Service!Refuse(c) /\ Return(c)
    /\ UNCHANGED <<process_vars, reply, headers, eval_vars>>

\* An http.Client has a timer when its Timeout is not 0.
AskTimesOut(c) == config["PDPTimeout"] > 0 /\ asked[c] # 0 /\ AskRefused(c)

Accept(c) ==
    /\ Runs(c) /\ Policy!Accept(c)
    /\ UNCHANGED <<process_vars, handler, reply, headers, ask_vars>>

Decide(c) ==
    /\ Runs(c) /\ Policy!Decide(c)
    /\ UNCHANGED <<process_vars, handler, reply, headers, ask_vars>>

EvalReturns(c) ==
    /\ Runs(c) /\ (Policy!Tell(c) \/ Policy!Refuse(c)) /\ Return(c)
    /\ UNCHANGED <<process_vars, reply, headers, ask_vars>>

Panic(c) ==
    /\ Runs(c)
    /\ handler' = [handler EXCEPT ![c] = "panicked"]
    /\ UNCHANGED <<process_vars, reply, headers, ask_vars, eval_vars>>

\* A server without WithRecovery: the runtime ends the process with status 2.
Recover_None(c) ==
    /\ process = "serving" /\ handler[c] = "panicked"
    /\ Exit(2, "")
    /\ UNCHANGED <<start, config, ended, handler, reply, headers, ask_vars, eval_vars>>

\* A deferred recover() that leaves the results as they are: nil, nil.
Recover_Quietly(c) ==
    /\ process = "serving" /\ handler[c] = "panicked"
    /\ handler' = [handler EXCEPT ![c] = "replied"]
    /\ reply' = [reply EXCEPT ![c] = "result"]
    /\ UNCHANGED <<process_vars, headers, ask_vars, eval_vars>>

\* WithRecovery makes the panic the error of its call.
Recover(c) ==
    /\ process = "serving" /\ handler[c] = "panicked"
    /\ handler' = [handler EXCEPT ![c] = "replied"]
    /\ reply' = [reply EXCEPT ![c] = "error"]
    /\ UNCHANGED <<process_vars, headers, ask_vars, eval_vars>>

IsResult(c) ==
    IF c \in AskCalls THEN answer[c].outcome = "decided" ELSE told[c] \in Policy!Answers

Reply(c) ==
    /\ process = "serving" /\ handler[c] = "returned"
    /\ handler' = [handler EXCEPT ![c] = "replied"]
    /\ reply' = [reply EXCEPT ![c] = IF IsResult(c) THEN "result" ELSE "error"]
    /\ UNCHANGED <<process_vars, headers, ask_vars, eval_vars>>
-----------------------------------------------------------------------------
(* The end. *)

End(how) ==
    /\ process = "serving" /\ ended = ""
    /\ ended' = how
    /\ UNCHANGED <<start, process, config, status, handler, reply, headers,
                   ask_vars, eval_vars>>

\* Any error of ServeStdio is a failure.
ExitCode_NoCanceled(how) == IF how = "eof" THEN 0 ELSE 1

\* ServeStdio returns nil at the end of its input, context.Canceled after a
\* signal, the error of the transport otherwise.
ExitCode(how) == IF how \in {"eof", "signal"} THEN 0 ELSE 1

\* At the end of its input ServeStdio waits for the calls it read.
MayReturn ==
    /\ ended # ""
    /\ ended = "eof" => \A c \in Calls : handler[c] \in {"none", "replied"}

ServeReturns ==
    /\ process = "serving" /\ MayReturn
    /\ Exit(ExitCode(ended), "")
    /\ UNCHANGED <<start, config, ended, handler, reply, headers, ask_vars, eval_vars>>
-----------------------------------------------------------------------------
Init ==
    /\ start \in Starts
    /\ process = "starting" /\ config = NoConfig
    /\ status = NoStatus /\ ended = ""
    /\ handler = [c \in Calls |-> "none"]
    /\ reply   = [c \in Calls |-> "none"]
    /\ headers = {}
    /\ Service!Init /\ Policy!Init

Call(c) ==
    \/ Receive(c) \/ Panic(c) \/ Recover(c) \/ Reply(c)
    \/ c \in AskCalls /\ (Ask(c) \/ Rule(c) \/ AskAnswered(c) \/ AskRefused(c))
    \/ c \in EvalCalls /\ (Accept(c) \/ Decide(c) \/ EvalReturns(c))

Exited == process = "exited" /\ UNCHANGED vars

Next ==
    \/ Inform \/ RejectArgument \/ RejectConfiguration \/ Serve
    \/ \E c \in Calls : Call(c)
    \/ \E how \in {"eof", "signal", "fault"} : End(how)
    \/ ServeReturns \/ Exited

\* The goroutines run and the timers that were set fire; evaluate_policy settles
\* its calls, as PolicyService promises.  The PDP, the client and the operator
\* owe nothing.
Fairness ==
    /\ WF_vars(Serve) /\ WF_vars(ServeReturns)
    /\ \A c \in Calls : WF_vars(Recover(c)) /\ WF_vars(Reply(c))
    /\ \A c \in AskCalls : WF_vars(Ask(c)) /\ WF_vars(AskTimesOut(c))
    /\ \A c \in EvalCalls : WF_vars(EvalReturns(c))

Spec == Init /\ [][Next]_vars /\ Fairness
-----------------------------------------------------------------------------
\* Every variable has its type: a reply belongs to a handler that is through, and
\* a header is a field value HTTP can carry, without white space at its ends.
TypeOK ==
    /\ start \in Starts
    /\ process \in {"starting", "serving", "exited"}
    /\ DOMAIN config = Settings /\ \A x \in Settings : config[x] \in Int
    /\ status \in [code: {-1, 0, 1, 2}, names: Settings \cup {""}]
    /\ ended \in {"", "eof", "signal", "fault"}
    /\ handler \in [Calls -> {"none", "running", "returned", "panicked", "replied"}]
    /\ \A c \in Calls : handler[c] = "replied" <=> reply[c] \in {"result", "error"}
    /\ \A h \in headers : h # <<>> => h[1] \notin Space /\ h[Len(h)] \notin Space

\* The bounds calls run under are the ones the operator set, or the documented
\* defaults, and never none at all: nothing is served under an environment that
\* means something else (config.go:64-67, main.go:90-92).
BoundsInForce ==
    process = "serving" =>
        /\ \A x \in Bounds :
              /\ config[x] > 0
              /\ \/ start.env[x] = Number(config[x])
                 \/ start.env[x].kind = "unset" /\ config[x] = Default[x]
        /\ config["AllowNetworkBuiltins"] = 1
              <=> start.env["AllowNetworkBuiltins"] = Number(1)

\* A PDP is shown the operator's credential under the scheme the operator named,
\* Bearer if none, and no scheme twice (config.go:47-48, authzen.go:246-248).
AuthorizationIsAsMeant == \A h \in headers : Words(h) = Meant(start.token)

\* A result is a decision that was made, and a call that panicked, timed out or
\* was refused is an error: one is never reported as the other (main.go:151-152).
NoVerdictWithoutDecision ==
    \A c \in Calls : reply[c] = "result" =>
        IF c \in AskCalls
        THEN \E r \in ruled[c] : \A e \in answer[c].given :
                IF r.leads \/ answer[c].whole THEN e[2] = r.ruling[e[1] + 1]
                ELSE \E j \in DOMAIN r.ruling : e[2] = r.ruling[j]
        ELSE verdict[c] = told[c] /\ told[c] \in Policy!Answers

\* What the operator reads in the exit status is what happened: 2 for a wrong
\* argument, 1 for an environment or a transport at fault, and then a setting
\* that is wrong is named, 0 for every end that was asked for (main.go:102-105).
ExitStatusIsTrue ==
    process = "exited" =>
        LET wrong == {x \in Settings :
                /\ start.env[x].kind # "unset"
                /\ \/ start.env[x] \notin [kind: {"number"}, n: -Int64Max..Int64Max]
                   \/ x \in Bounds /\ start.env[x].n <= 0
                   \/ x \notin Bounds /\ start.env[x].n \notin {0, 1}}
        IN  /\ status.code = 2 <=> start.arg = "unknown"
            /\ status.code = 1 <=> start.arg = "" /\ (wrong # {} \/ ended = "fault")
            /\ status.names \in wrong \/ (status.names = "" /\ (start.arg = "" => wrong = {}))

\* Once it serves, the process ends because its input, a signal or the transport
\* ended the session, and never because of what one call did (main.go:121-124).
CallsDoNotEndTheSession ==
    [][process = "serving" /\ process' = "exited" => ended # ""]_vars

\* A call that was read is replied to, whatever its policy, its PDP or its own
\* handler does, unless a signal or the transport ends the session first.
EveryCallIsReplied ==
    \A c \in Calls :
        handler[c] = "running" ~> (handler[c] = "replied" \/ ended \in {"signal", "fault"})

\* The end of the input ends the process, with calls still running or not.
EndIsReached == ended # "" ~> process = "exited"
=============================================================================
