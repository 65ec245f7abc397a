---------------------------- MODULE SessionProofs ----------------------------
(***************************************************************************)
(* What a session promises, for any calls, batch sizes, environments and    *)
(* defaults.                                                                *)
(***************************************************************************)
EXTENDS Session, AuthorizationHeaderProofs

(* What loadConfig makes of an environment. *)

\* The settings no server may be started with.
Wrong(env) ==
    {x \in Settings :
        /\ env[x].kind # "unset"
        /\ \/ env[x] \notin [kind: {"number"}, n: -Int64Max..Int64Max]
           \/ x \in Bounds /\ env[x].n <= 0
           \/ x \notin Bounds /\ env[x].n \notin {0, 1}}

LEMMA TextFields ==
    ASSUME NEW v \in Texts
    PROVE  /\ v.kind \in {"unset", "malformed", "number"} /\ v.n \in Int
           /\ v = [kind |-> v.kind, n |-> v.n]
           /\ v \in [kind: {"number"}, n: -Int64Max..Int64Max] <=> Parses(v)
  BY DEF Texts, Parses

LEMMA NumberFields ==
    ASSUME NEW n
    PROVE  Number(n).kind = "number" /\ Number(n).n = n
  BY DEF Number

\* A setting is read as malformed exactly when it is wrong.
LEMMA MalformedIsWrong ==
    ASSUME NEW env \in [Settings -> Texts], NEW x \in Settings
    PROVE  Read(x, env[x]).kind = "malformed" <=> x \in Wrong(env)
  <1> DEFINE v == env[x]
  <1>1. v \in Texts
    BY DEF Settings
  <1>2. /\ v.kind \in {"unset", "malformed", "number"} /\ v.n \in Int
        /\ v \in [kind: {"number"}, n: -Int64Max..Int64Max] <=> Parses(v)
    BY <1>1, TextFields
  <1>3. x \in Wrong(env) <=>
          /\ v.kind # "unset"
          /\ \/ ~Parses(v)
             \/ x \in Bounds /\ v.n <= 0
             \/ x \notin Bounds /\ v.n \notin {0, 1}
    BY <1>2 DEF Wrong
  <1> HIDE DEF v
  <1>4. Malformed.kind = "malformed" /\ Number(0).kind = "number"
        /\ Number(Default[x]).kind = "number"
    BY NumberFields DEF Malformed
  <1>5. CASE x \in Bounds
    <2>1. Read(x, v).kind = "malformed" <=> v.kind # "unset" /\ ~(Parses(v) /\ v.n > 0)
      BY <1>2, <1>4, <1>5 DEF Read, boundEnv, Parses
    <2> QED BY <1>2, <1>3, <1>5, <2>1 DEF v
  <1>6. CASE x \notin Bounds
    <2>0. Int64Max \in Nat /\ Int64Max >= 1
      BY WidthAssumption
    <2>1. Read(x, v).kind = "malformed"
            <=> v.kind # "unset" /\ (v.kind = "malformed" \/ v.n \notin {0, 1})
      BY <1>2, <1>4, <1>6 DEF Read, boolEnv
    <2>2. v.n \in {0, 1} => (Parses(v) <=> v.kind = "number")
      BY <2>0 DEF Parses
    <2> QED BY <1>2, <1>3, <1>6, <2>1, <2>2 DEF v
  <1> QED BY <1>5, <1>6

\* Every setting is read, and the first that is wrong is the one named.
LEMMA FaultsAreWrong ==
    ASSUME NEW env \in [Settings -> Texts]
    PROVE  /\ loadConfig(env).fault = "" <=> Wrong(env) = {}
           /\ loadConfig(env).fault # "" => loadConfig(env).fault \in Wrong(env)
           /\ loadConfig(env).fault = "" <=> Faults(env) = {}
  <1>1. DOMAIN Order = 1..5 /\ \A i \in 1..5 : Order[i] \in Settings
    BY DEF Order, Settings, Bounds
  <1>2. \A x \in Settings : \E i \in 1..5 : Order[i] = x
    BY DEF Order, Settings, Bounds
  <1>3. \A i \in 1..5 : i \in Faults(env) <=> Order[i] \in Wrong(env)
    BY <1>1, MalformedIsWrong DEF Faults
  <1>4. Faults(env) \subseteq 1..5
    BY <1>1 DEF Faults
  <1>5. Wrong(env) = {} <=> Faults(env) = {}
    BY <1>2, <1>3, <1>4 DEF Wrong
  <1>6. ASSUME Faults(env) # {} PROVE Min(Faults(env)) \in Faults(env)
    <2> DEFINE F == Faults(env)
    <2>1. F \subseteq 1..5 /\ F # {}
      BY <1>4, <1>6
    <2> HIDE DEF F
    <2>2. F \in SUBSET Nat
      BY <2>1
    <2>3. Min(F) \in F
      BY <2>1, <2>2, MinOf
    <2> QED BY <2>3 DEF F
  <1>7. "" \notin Settings
    BY DEF Settings, Bounds
  <1>8. CASE Faults(env) = {}
    <2>1. loadConfig(env).fault = ""
      BY <1>8 DEF loadConfig
    <2> QED BY <1>5, <1>8, <2>1
  <1>9. CASE Faults(env) # {}
    <2>1. loadConfig(env).fault = Order[Min(Faults(env))]
      BY <1>9 DEF loadConfig
    <2>2. Order[Min(Faults(env))] \in Wrong(env)
      BY <1>3, <1>4, <1>6, <1>9
    <2>3. Order[Min(Faults(env))] # ""
      BY <1>7, <2>2 DEF Wrong
    <2> QED BY <1>5, <1>9, <2>1, <2>2, <2>3
  <1> QED BY <1>8, <1>9

-----------------------------------------------------------------------------
(* From the start to the exit. *)

\* A process serves only under a sound environment, and its exit status tells
\* what it went through.
ProcessInv ==
    /\ start \in Starts
    /\ process \in {"starting", "serving", "exited"}
    /\ process = "starting" => ended = ""
    /\ process = "serving" =>
          /\ start.arg = "" /\ loadConfig(start.env).fault = ""
          /\ config = loadConfig(start.env).config
          /\ ended \in {"", "eof", "signal", "fault"}
    /\ process = "exited" =>
          \/ start.arg \in {"version", "help"} /\ ended = "" /\ status = [code |-> 0, names |-> ""]
          \/ start.arg = "unknown" /\ ended = "" /\ status = [code |-> 2, names |-> ""]
          \/ /\ start.arg = "" /\ loadConfig(start.env).fault # "" /\ ended = ""
             /\ status = [code |-> 1, names |-> loadConfig(start.env).fault]
          \/ /\ start.arg = "" /\ loadConfig(start.env).fault = ""
             /\ ended \in {"eof", "signal", "fault"}
             /\ status = [code |-> ExitCode(ended), names |-> ""]

\* A call leaves the process alone.
LEMMA CallsLeaveTheProcess ==
    ASSUME NEW c \in Calls, Call(c)
    PROVE  UNCHANGED process_vars
  BY DEF Call, Receive, Panic, Recover, Reply, Ask, Rule, AskAnswered, AskRefused,
         Accept, Decide, EvalReturns

LEMMA ProcessStep == ProcessInv /\ [Next]_vars => ProcessInv'
  <1> SUFFICES ASSUME ProcessInv, [Next]_vars PROVE ProcessInv'
    OBVIOUS
  <1>1. CASE UNCHANGED process_vars
    BY <1>1 DEF process_vars, ProcessInv
  <1>2. CASE Inform \/ RejectArgument
    BY <1>2 DEF Inform, RejectArgument, Exit, ProcessInv
  <1>3. CASE RejectConfiguration
    BY <1>3 DEF RejectConfiguration, Exit, ProcessInv
  <1>4. CASE Serve
    BY <1>4 DEF Serve, ProcessInv
  <1>5. CASE ServeReturns
    BY <1>5 DEF ServeReturns, MayReturn, Exit, ProcessInv
  <1>6. ASSUME NEW how \in {"eof", "signal", "fault"}, End(how) PROVE ProcessInv'
    BY <1>6 DEF End, ProcessInv
  <1>7. ASSUME UNCHANGED vars PROVE UNCHANGED process_vars
    BY <1>7 DEF vars
  <1> QED BY <1>1, <1>2, <1>3, <1>4, <1>5, <1>6, <1>7, CallsLeaveTheProcess DEF Next, Exited

THEOREM ProcessInvariance == Spec => []ProcessInv
  <1>1. Init => ProcessInv
    BY DEF Init, ProcessInv
  <1> QED BY <1>1, ProcessStep, PTL DEF Spec

\* How a process ended, and with which status; the name none is the empty one.
LEMMA StatusTells ==
    ASSUME NEW none, NEW arg, NEW how, NEW fault, NEW wrong, NEW st,
           none \notin {"version", "help", "unknown", "eof", "signal", "fault"},
           fault = none <=> wrong = {}, fault # none => fault \in wrong,
           \/ arg \in {"version", "help"} /\ how = none /\ st = [code |-> 0, names |-> none]
           \/ arg = "unknown" /\ how = none /\ st = [code |-> 2, names |-> none]
           \/ arg = none /\ fault # none /\ how = none /\ st = [code |-> 1, names |-> fault]
           \/ /\ arg = none /\ fault = none /\ how \in {"eof", "signal", "fault"}
              /\ st = [code |-> ExitCode(how), names |-> none]
    PROVE  /\ st.code = 2 <=> arg = "unknown"
           /\ st.code = 1 <=> arg = none /\ (wrong # {} \/ how = "fault")
           /\ st.names \in wrong \/ (st.names = none /\ (arg = none => wrong = {}))
  <1>1. CASE arg \in {"version", "help"} /\ st = [code |-> 0, names |-> none]
    <2>1. st.code = 0 /\ st.names = none
      BY <1>1
    <2> QED BY <1>1, <2>1
  <1>2. CASE arg = "unknown" /\ st = [code |-> 2, names |-> none]
    BY <1>2
  <1>3. CASE arg = none /\ fault # none /\ st = [code |-> 1, names |-> fault]
    BY <1>3
  <1>4. CASE /\ arg = none /\ fault = none /\ how \in {"eof", "signal", "fault"}
             /\ st = [code |-> ExitCode(how), names |-> none]
    <2>1. wrong = {} /\ st.names = none
      BY <1>4
    <2>2. st.code = IF how = "fault" THEN 1 ELSE 0
      BY <1>4 DEF ExitCode
    <2> QED BY <1>4, <2>1, <2>2
  <1> QED BY <1>1, <1>2, <1>3, <1>4

\* The exit status says what happened, and names a setting that is wrong.
THEOREM TheExitStatusIsTrue == Spec => []ExitStatusIsTrue
  <1>1. ProcessInv => ExitStatusIsTrue
    <2> SUFFICES ASSUME ProcessInv, process = "exited" PROVE ExitStatusIsTrue
      BY DEF ExitStatusIsTrue
    <2>1. start.env \in [Settings -> Texts]
      BY StartAssumption DEF ProcessInv
    <2>2. /\ status.code = 2 <=> start.arg = "unknown"
          /\ status.code = 1 <=> start.arg = "" /\ (Wrong(start.env) # {} \/ ended = "fault")
          /\ \/ status.names \in Wrong(start.env)
             \/ status.names = "" /\ (start.arg = "" => Wrong(start.env) = {})
      <3> DEFINE none == ""
                 fault == loadConfig(start.env).fault
                 wrong == Wrong(start.env)
      <3>1. none \notin {"version", "help", "unknown", "eof", "signal", "fault"}
        OBVIOUS
      <3>2. (fault = none <=> wrong = {}) /\ (fault # none => fault \in wrong)
        BY <2>1, FaultsAreWrong
      <3>3. \/ start.arg \in {"version", "help"} /\ ended = none
                 /\ status = [code |-> 0, names |-> none]
            \/ start.arg = "unknown" /\ ended = none /\ status = [code |-> 2, names |-> none]
            \/ start.arg = none /\ fault # none /\ ended = none
                 /\ status = [code |-> 1, names |-> fault]
            \/ /\ start.arg = none /\ fault = none /\ ended \in {"eof", "signal", "fault"}
               /\ status = [code |-> ExitCode(ended), names |-> none]
        BY Zenon DEF ProcessInv
      <3> HIDE DEF none, fault, wrong
      <3>4. /\ status.code = 2 <=> start.arg = "unknown"
            /\ status.code = 1 <=> start.arg = none /\ (wrong # {} \/ ended = "fault")
            /\ \/ status.names \in wrong
               \/ status.names = none /\ (start.arg = none => wrong = {})
        BY <3>1, <3>2, <3>3, StatusTells
      <3> QED BY <3>4, Zenon DEF none, wrong
    <2> QED BY <2>2 DEF ExitStatusIsTrue, Wrong
  <1> QED BY <1>1, ProcessInvariance, PTL

\* Serving ends by the end of the session only.
THEOREM NoCallEndsTheSession == Spec => CallsDoNotEndTheSession
  <1>1. [Next]_vars => [process = "serving" /\ process' = "exited" => ended # ""]_vars
    <2> SUFFICES ASSUME Next, process = "serving", process' = "exited" PROVE ended # ""
      OBVIOUS
    <2>1. ASSUME NEW c \in Calls, Call(c) PROVE process' = process
      BY <2>1, CallsLeaveTheProcess DEF process_vars
    <2> QED BY <2>1 DEF Next, Inform, RejectArgument, RejectConfiguration, Serve, End,
                       ServeReturns, MayReturn, Exited, vars, process_vars
  <1> QED BY <1>1, PTL DEF Spec, CallsDoNotEndTheSession
-----------------------------------------------------------------------------
(* The bounds, where an int holds an int64. *)

LEMMA IntKeeps ==
    ASSUME NEW n \in 0..IntMax
    PROVE  int(n) = n
  <1>1. IntMax \in Nat \ {0}
    BY WidthAssumption
  <1> DEFINE m == n + IntMax + 1
             w == 2 * (IntMax + 1)
  <1>2. m \in Nat /\ w \in Nat \ {0} /\ m < w /\ m - (IntMax + 1) = n
    BY <1>1
  <1>3. m % w = m
    <2> HIDE DEF m, w
    <2> QED BY <1>2
  <1> QED BY <1>2, <1>3 DEF int

\* One bound as the operator set it, or its default, and never none at all.
BoundInForce(x) ==
    /\ config[x] > 0
    /\ \/ start.env[x] = Number(config[x])
       \/ start.env[x].kind = "unset" /\ config[x] = Default[x]

NetworkInForce ==
    config["AllowNetworkBuiltins"] = 1 <=> start.env["AllowNetworkBuiltins"] = Number(1)

\* A bound comes through the conversion to int if it is not converted, or fits.
\* A bound comes through the conversion to int if it is not converted, or fits.
Fits(x) == x = "MaxArgBytes" /\ start.env[x].kind = "number" => start.env[x].n <= IntMax

LEMMA ServedBounds ==
    ASSUME ProcessInv, process = "serving", NEW x \in Bounds, Fits(x)
    PROVE  BoundInForce(x)
  <1> DEFINE env == start.env
             v == env[x]
  <1>1. env \in [Settings -> Texts]
    BY StartAssumption DEF ProcessInv
  <1>2. config = loadConfig(env).config /\ Faults(env) = {} /\ Wrong(env) = {}
    BY <1>1, FaultsAreWrong DEF ProcessInv
  <1>3. config[x] = IF x = "MaxArgBytes" THEN int(Read(x, v).n) ELSE Read(x, v).n
    BY <1>2 DEF loadConfig, Settings
  <1>4. x \in Settings /\ v \in Texts
    BY <1>1 DEF Settings
  <1>5. v.kind \in {"unset", "number"} /\ v.n \in Int /\ v = [kind |-> v.kind, n |-> v.n]
    BY <1>2, <1>4, TextFields DEF Wrong
  <1>6. v.kind = "number" => v.n \in 1..Int64Max
    BY <1>2, <1>4, <1>5 DEF Wrong
  <1>7. IntMax \in Nat /\ Default[x] \in 1..IntMax
    BY WidthAssumption, DefaultAssumption
  <1>8. x = "MaxArgBytes" /\ v.kind = "number" => v.n <= IntMax
    BY DEF Fits
  <1> HIDE DEF v
  <1>9. Read(x, v).n = IF v.kind = "unset" THEN Default[x] ELSE v.n
    BY <1>5, <1>6, <1>7, NumberFields, WidthAssumption DEF Read, boundEnv, Parses
  <1>10. Read(x, v).n > 0 /\ (x = "MaxArgBytes" => Read(x, v).n \in 0..IntMax)
    BY <1>5, <1>6, <1>7, <1>8, <1>9, WidthAssumption
  <1>11. config[x] = Read(x, v).n
    BY <1>3, <1>10, IntKeeps
  <1>12. v.kind = "number" => v = Number(v.n)
    BY <1>5 DEF Number
  <1>13. /\ config[x] > 0
         /\ v = Number(config[x]) \/ (v.kind = "unset" /\ config[x] = Default[x])
    <2>1. CASE v.kind = "unset"
      BY <1>9, <1>10, <1>11, <2>1
    <2>2. CASE v.kind = "number"
      BY <1>9, <1>10, <1>11, <1>12, <2>2
    <2> QED BY <1>5, <2>1, <2>2
  <1> QED BY <1>13 DEF BoundInForce, v

LEMMA ServedNetwork ==
    ASSUME ProcessInv, process = "serving"
    PROVE  NetworkInForce
  <1> DEFINE env == start.env
             v == env["AllowNetworkBuiltins"]
  <1>0. env \in [Settings -> Texts]
    BY StartAssumption DEF ProcessInv
  <1>1. /\ "AllowNetworkBuiltins" \in Settings /\ "AllowNetworkBuiltins" \notin Bounds
        /\ v \in Texts
    BY <1>0 DEF Settings, Bounds
  <1>2. config = loadConfig(env).config /\ Faults(env) = {} /\ Wrong(env) = {}
    BY <1>0, FaultsAreWrong DEF ProcessInv
  <1>3. v.kind \in {"unset", "number"} /\ v.n \in Int /\ v = [kind |-> v.kind, n |-> v.n]
        /\ (v.kind = "number" => v.n \in {0, 1})
    BY <1>1, <1>2, TextFields DEF Wrong
  <1>4. config["AllowNetworkBuiltins"] = boolEnv(v).n
    BY <1>1, <1>2 DEF loadConfig, Read, Bounds
  <1> HIDE DEF v
  <1>5. v = Number(1) <=> v.kind = "number" /\ v.n = 1
    BY <1>3, NumberFields DEF Number
  <1>6. boolEnv(v).n = IF v.kind = "unset" THEN 0 ELSE v.n
    BY <1>3, NumberFields DEF boolEnv
  <1> QED BY <1>3, <1>4, <1>5, <1>6 DEF NetworkInForce, v

\* Whatever the width of an int, the bounds calls run under are the ones that were
\* set, or the defaults, and are never none at all; MAX_ARG_BYTES, which is
\* converted to int without a check, is if its number fits (config.go:64-67, 97).
THEOREM BoundsOfAnyBuild ==
    Spec => [](process = "serving" =>
                  NetworkInForce /\ \A x \in Bounds : Fits(x) => BoundInForce(x))
  <1>1. ProcessInv => (process = "serving" =>
                          NetworkInForce /\ \A x \in Bounds : Fits(x) => BoundInForce(x))
    BY ServedBounds, ServedNetwork, Zenon
  <1> QED BY <1>1, ProcessInvariance, PTL

\* Where an int holds an int64, as in the builds that are released, that is every
\* bound.
THEOREM BoundsAreInForce ==
    ASSUME IntMax = Int64Max
    PROVE  Spec => []BoundsInForce
  <1>1. ProcessInv => BoundsInForce
    <2> SUFFICES ASSUME ProcessInv, process = "serving" PROVE BoundsInForce
      BY DEF BoundsInForce
    <2>1. ASSUME NEW x \in Bounds PROVE Fits(x)
      <3>1. start.env \in [Settings -> Texts] /\ x \in Settings
        BY StartAssumption DEF ProcessInv, Settings
      <3>2. Wrong(start.env) = {}
        BY <3>1, FaultsAreWrong DEF ProcessInv
      <3>3. start.env[x] \in Texts /\ x \notin Wrong(start.env)
        BY <3>1, <3>2
      <3> QED BY <3>1, <3>3, WidthAssumption DEF Wrong, Texts, Fits
    <2>2. \A x \in Bounds : BoundInForce(x)
      BY <2>1, ServedBounds, Zenon
    <2>3. NetworkInForce
      BY ServedNetwork
    <2> QED BY <2>2, <2>3, Zenon DEF BoundsInForce, BoundInForce, NetworkInForce
  <1> QED BY <1>1, ProcessInvariance, PTL

-----------------------------------------------------------------------------
(* What callers are told. *)

\* The answer of a call that asked is made from the ruling on it.
MadeFromRuling(c) ==
    \E r \in ruled[c] : \A e \in answer[c].given :
        IF r.leads \/ answer[c].whole THEN e[2] = r.ruling[e[1] + 1]
        ELSE \E j \in DOMAIN r.ruling : e[2] = r.ruling[j]

\* A ruling has a decision for each evaluation that was asked about.
RulingsInv ==
    \A c \in AskCalls : \A r \in ruled[c] :
        asked[c] \in Nat \ {0} /\ r.ruling \in [1..asked[c] -> Decision]

\* What can be told of a ruling is made from it.
LEMMA TellableIsMadeOf ==
    ASSUME NEW r, NEW n \in Nat \ {0}, r.ruling \in [1..n -> Decision],
           NEW S \in Service!Tellable(r), NEW e \in Service!Numbered(S)
    PROVE  IF r.leads \/ Len(S) = n THEN e[2] = r.ruling[e[1] + 1]
           ELSE \E j \in DOMAIN r.ruling : e[2] = r.ruling[j]
  <1> DEFINE D == r.ruling
  <1>1. Len(D) = n /\ DOMAIN D = 1..n /\ D \in Seq(Decision)
    OBVIOUS
  <1>2. PICK i \in 1..Len(S) : e = <<i - 1, S[i]>>
    BY DEF Service!Numbered
  <1>3. CASE r.leads
    <2>1. PICK k \in 0..n : S = SubSeq(D, 1, k)
      BY <1>1, <1>3 DEF Service!Tellable, Service!Leading
    <2>2. Len(S) = k /\ \A j \in 1..k : S[j] = D[j]
      BY <1>1, <2>1
    <2>3. e[1] + 1 = i /\ e[2] = S[i]
      BY <1>2, <2>2
    <2> QED BY <1>2, <1>3, <2>2, <2>3
  <1>4. CASE ~r.leads
    <2>1. PICK k \in 0..n : S \in {[j \in 1..k |-> D[f[j]]] : f \in Service!Picks(k, n)}
      BY <1>1, <1>4 DEF Service!Tellable, Service!Parts
    <2>2. PICK f \in Service!Picks(k, n) : S = [j \in 1..k |-> D[f[j]]]
      BY <2>1
    <2>3. f \in [1..k -> 1..n] /\ \A j, l \in 1..k : j < l => f[j] < f[l]
      BY DEF Service!Picks
    <2>4. Len(S) = k
      BY <2>2
    <2>5. ASSUME k = n PROVE \A j \in 1..n : f[j] = j
      BY <2>3, <2>5, IncreasingIsIdentity
    <2>6. e[1] + 1 = i /\ e[2] = S[i] /\ i \in 1..k /\ S[i] = D[f[i]] /\ f[i] \in 1..n
      BY <1>2, <2>2, <2>3, <2>4
    <2>7. k = n => S[i] = D[i]
      BY <2>5, <2>6
    <2> QED BY <1>1, <1>4, <2>4, <2>6, <2>7
  <1> QED BY <1>3, <1>4

HandlerStates == {"none", "running", "returned", "panicked", "replied"}

ShapeInv ==
    /\ handler \in [Calls -> HandlerStates]
    /\ reply \in [Calls -> {"none", "result", "error"}]
    /\ asked \in [AskCalls -> Nat]
    /\ DOMAIN ruled = AskCalls /\ DOMAIN answer = AskCalls
    /\ DOMAIN verdict = EvalCalls /\ DOMAIN told = EvalCalls

\* A call that is replied to says what it was answered, and changes no more.
VerdictInv ==
    /\ ShapeInv /\ RulingsInv
    /\ \A c \in AskCalls : answer[c].outcome = "decided" => MadeFromRuling(c)
    /\ \A c \in EvalCalls : told[c] \in Policy!Answers => told[c] = verdict[c]
    /\ \A c \in Calls : reply[c] = "result" => handler[c] = "replied" /\ IsResult(c)

LEMMA VerdictInit == Init => VerdictInv
  <1> SUFFICES ASSUME Init PROVE VerdictInv
    OBVIOUS
  <1>1. ShapeInv
    BY DEF Init, ShapeInv, HandlerStates, Service!Init, Policy!Init
  <1>2. \A c \in AskCalls : answer[c].outcome = "none"
    BY DEF Init, Service!Init, Service!Unanswered
  <1>3. \A c \in EvalCalls : told[c] = "none"
    BY DEF Init, Policy!Init
  <1>4. \A c \in Calls : reply[c] = "none"
    BY DEF Init
  <1>5. RulingsInv
    BY DEF Init, RulingsInv, Service!Init
  <1> QED BY <1>1, <1>2, <1>3, <1>4, <1>5 DEF VerdictInv, Policy!Answers

\* What was answered stands as long as nothing of the two services moves.
LEMMA AnswersStand ==
    ASSUME VerdictInv, ShapeInv', UNCHANGED <<ask_vars, eval_vars>>,
           \A c \in Calls : reply'[c] = "result" => handler'[c] = "replied" /\ IsResult(c)
    PROVE  VerdictInv'
  <1>1. \A c \in AskCalls : MadeFromRuling(c) <=> MadeFromRuling(c)'
    BY DEF ask_vars, MadeFromRuling
  <1>2. \A c \in Calls : IsResult(c) <=> IsResult(c)'
    BY DEF ask_vars, eval_vars, IsResult, Policy!Answers
  <1>3. RulingsInv'
    BY DEF VerdictInv, RulingsInv, ask_vars
  <1> QED BY <1>1, <1>2, <1>3 DEF VerdictInv, ask_vars, eval_vars, Policy!Answers

\* The handler of one call moves, and its services do not.
LEMMA HandlingKeeps ==
    ASSUME VerdictInv, NEW c \in Calls, Receive(c) \/ Panic(c) \/ Recover(c) \/ Reply(c)
    PROVE  VerdictInv'
  <1>1. UNCHANGED <<ask_vars, eval_vars>>
    BY DEF Receive, Panic, Recover, Reply
  <1>2. ShapeInv
    BY DEF VerdictInv
  <1>3. CASE Receive(c) \/ Panic(c)
    <2>1. PICK s \in {"running", "panicked"} :
            handler' = [handler EXCEPT ![c] = s] /\ handler[c] # "replied" /\ reply' = reply
      BY <1>3 DEF Receive, Panic, Runs
    <2>2. ShapeInv'
      BY <1>1, <1>2, <2>1 DEF ShapeInv, HandlerStates, ask_vars, eval_vars
    <2>3. ASSUME NEW d \in Calls, reply'[d] = "result"
          PROVE  handler'[d] = "replied" /\ IsResult(d)
      BY <1>2, <2>1, <2>3 DEF VerdictInv, ShapeInv
    <2> QED BY <1>1, <2>2, <2>3, AnswersStand
  <1>4. CASE Recover(c) \/ Reply(c)
    <2>1. PICK r \in {"result", "error"} :
            /\ handler' = [handler EXCEPT ![c] = "replied"]
            /\ reply' = [reply EXCEPT ![c] = r] /\ (r = "result" => IsResult(c))
      <3>1. CASE Recover(c)
        BY <3>1 DEF Recover
      <3>2. CASE Reply(c)
        BY <3>2 DEF Reply
      <3> QED BY <1>4, <3>1, <3>2
    <2>2. ShapeInv'
      BY <1>1, <1>2, <2>1 DEF ShapeInv, HandlerStates, ask_vars, eval_vars
    <2>3. ASSUME NEW d \in Calls, reply'[d] = "result"
          PROVE  handler'[d] = "replied" /\ IsResult(d)
      BY <1>2, <2>1, <2>3 DEF VerdictInv, ShapeInv
    <2> QED BY <1>1, <2>2, <2>3, AnswersStand
  <1> QED BY <1>3, <1>4

\* A ruling is made once, so what was answered from it stays true.
LEMMA AskingKeeps ==
    ASSUME VerdictInv, NEW c \in AskCalls, Ask(c) \/ Rule(c) \/ AskAnswered(c) \/ AskRefused(c)
    PROVE  VerdictInv'
  <1>0. ShapeInv /\ c \in Calls /\ \A d \in AskCalls : d \in Calls /\ d \notin EvalCalls
    BY CallAssumption DEF VerdictInv, Calls
  <1>1. UNCHANGED <<verdict, told, reply>>
    BY DEF Ask, Rule, AskAnswered, AskRefused, eval_vars
  <1>2. \/ /\ UNCHANGED <<ruled, answer, handler>>
        \/ /\ UNCHANGED <<answer, handler>> /\ ruled[c] = {}
           /\ \E R : ruled' = [ruled EXCEPT ![c] = R]
        \/ /\ ruled' = ruled /\ asked' = asked /\ handler[c] = "running"
           /\ handler' = [handler EXCEPT ![c] = "returned"]
           /\ \E a : /\ answer' = [answer EXCEPT ![c] = a]
                     /\ \/ a.outcome = "refused"
                        \/ \E r \in ruled[c] : \E S \in Service!Tellable(r) :
                              a = Service!Decided(S, asked[c])
    <2>1. CASE Ask(c)
      BY <2>1 DEF Ask, Service!Ask
    <2>2. CASE Rule(c)
      BY <2>2 DEF Rule, Service!Rule
    <2>3. CASE AskAnswered(c)
      BY <2>3 DEF AskAnswered, Service!Answer, Runs, Return
    <2>4. CASE AskRefused(c)
      <3>1. Service!Refused.outcome = "refused"
        BY DEF Service!Refused
      <3> QED BY <2>4, <3>1 DEF AskRefused, Service!Refuse, Runs, Return
    <2> QED BY <2>1, <2>2, <2>3, <2>4
  <1>3. ShapeInv'
    <2>1. asked' \in [AskCalls -> Nat]
      BY <1>0 DEF ShapeInv, Ask, Rule, AskAnswered, AskRefused, Service!Ask, Service!Rule,
                  Service!Answer, Service!Refuse
    <2> QED BY <1>0, <1>1, <1>2, <2>1 DEF ShapeInv, HandlerStates
  <1>4. \A d \in EvalCalls : told'[d] \in Policy!Answers => told'[d] = verdict'[d]
    BY <1>1 DEF VerdictInv
  <1>5. ASSUME NEW d \in AskCalls, answer'[d].outcome = "decided" PROVE MadeFromRuling(d)'
    <2>1. CASE UNCHANGED <<ruled, answer, handler>>
      BY <1>5, <2>1 DEF VerdictInv, MadeFromRuling
    <2>2. CASE /\ UNCHANGED <<answer, handler>> /\ ruled[c] = {}
               /\ \E R : ruled' = [ruled EXCEPT ![c] = R]
      BY <1>0, <1>5, <2>2 DEF VerdictInv, MadeFromRuling, ShapeInv
    <2>3. CASE /\ ruled' = ruled
               /\ \E a : /\ answer' = [answer EXCEPT ![c] = a]
                         /\ \/ a.outcome = "refused"
                            \/ \E r \in ruled[c] : \E S \in Service!Tellable(r) :
                                  a = Service!Decided(S, asked[c])
      <3>1. PICK a : /\ answer' = [answer EXCEPT ![c] = a]
                     /\ \/ a.outcome = "refused"
                        \/ \E r \in ruled[c] : \E S \in Service!Tellable(r) :
                              a = Service!Decided(S, asked[c])
        BY <2>3
      <3>2. CASE d # c
        BY <1>0, <1>5, <2>3, <3>1, <3>2 DEF VerdictInv, MadeFromRuling, ShapeInv
      <3>3. CASE d = c
        <4>1. answer'[c] = a /\ a.outcome = "decided"
          BY <1>0, <1>5, <3>1, <3>3 DEF ShapeInv
        <4>2. PICK r \in ruled[c] : \E S \in Service!Tellable(r) : a = Service!Decided(S, asked[c])
          BY <3>1, <4>1
        <4>3. PICK S \in Service!Tellable(r) : a = Service!Decided(S, asked[c])
          BY <4>2
        <4>4. a.given = Service!Numbered(S) /\ (a.whole <=> Len(S) = asked[c])
          BY <4>3 DEF Service!Decided
        <4>5. ASSUME NEW e \in a.given
              PROVE  IF r.leads \/ a.whole THEN e[2] = r.ruling[e[1] + 1]
                     ELSE \E l \in DOMAIN r.ruling : e[2] = r.ruling[l]
          <5>1. asked[c] \in Nat \ {0} /\ r.ruling \in [1..asked[c] -> Decision]
            BY DEF VerdictInv, RulingsInv
          <5> QED BY <4>4, <5>1, TellableIsMadeOf
        <4> QED BY <2>3, <3>3, <4>1, <4>5 DEF MadeFromRuling
      <3> QED BY <3>2, <3>3
    <2> QED BY <1>2, <2>1, <2>2, <2>3
  <1>6. ASSUME NEW d \in Calls, reply'[d] = "result"
        PROVE  handler'[d] = "replied" /\ IsResult(d)'
    <2>1. handler[d] = "replied" /\ IsResult(d)
      BY <1>1, <1>6 DEF VerdictInv
    <2>2. handler'[d] = "replied" /\ (d \in AskCalls => answer'[d] = answer[d])
      BY <1>0, <1>2, <2>1 DEF ShapeInv
    <2> QED BY <1>0, <1>1, <2>1, <2>2 DEF IsResult, Policy!Answers
  <1>7. RulingsInv'
    <2>1. CASE Ask(c)
      <3>1. asked[c] = 0 /\ ruled' = ruled /\ \A d \in AskCalls \ {c} : asked'[d] = asked[d]
        BY <1>0, <2>1 DEF Ask, Service!Ask, ShapeInv
      <3> QED BY <3>1 DEF VerdictInv, RulingsInv
    <2>2. CASE Rule(c)
      <3>1. PICK D \in [1..asked[c] -> Decision], leads \in BOOLEAN :
              ruled' = [ruled EXCEPT ![c] = {[ruling |-> D, leads |-> leads]}]
        BY <2>2 DEF Rule, Service!Rule
      <3>2. asked[c] \in Nat \ {0} /\ asked' = asked
        BY <1>0, <2>2 DEF Rule, Service!Rule, ShapeInv
      <3> QED BY <1>0, <3>1, <3>2 DEF VerdictInv, RulingsInv, ShapeInv
    <2>3. CASE AskAnswered(c) \/ AskRefused(c)
      BY <2>3 DEF VerdictInv, RulingsInv, AskAnswered, AskRefused, Service!Answer, Service!Refuse
    <2> QED BY <2>1, <2>2, <2>3
  <1> QED BY <1>3, <1>4, <1>5, <1>6, <1>7 DEF VerdictInv

\* An evaluation is decided before it is told, and told what was decided.
LEMMA EvaluatingKeeps ==
    ASSUME VerdictInv, NEW c \in EvalCalls, Accept(c) \/ Decide(c) \/ EvalReturns(c)
    PROVE  VerdictInv'
  <1>0. ShapeInv /\ c \in Calls /\ \A d \in EvalCalls : d \in Calls /\ d \notin AskCalls
    BY CallAssumption DEF VerdictInv, Calls
  <1>1. UNCHANGED <<asked, ruled, answer, reply>>
    BY DEF Accept, Decide, EvalReturns, ask_vars
  <1>2. \/ UNCHANGED <<verdict, told, handler>>
        \/ /\ UNCHANGED <<told, handler>> /\ told[c] = "none"
           /\ \E v : verdict' = [verdict EXCEPT ![c] = v]
        \/ /\ verdict' = verdict /\ handler[c] = "running"
           /\ handler' = [handler EXCEPT ![c] = "returned"]
           /\ \E t \in {verdict[c], "error"} : told' = [told EXCEPT ![c] = t]
    <2>1. CASE Accept(c)
      BY <2>1 DEF Accept, Policy!Accept
    <2>2. CASE Decide(c)
      BY <2>2 DEF Decide, Policy!Decide
    <2>3. CASE EvalReturns(c)
      BY <2>3 DEF EvalReturns, Policy!Tell, Policy!Refuse, Runs, Return
    <2> QED BY <2>1, <2>2, <2>3
  <1>3. ShapeInv'
    BY <1>0, <1>1, <1>2 DEF ShapeInv, HandlerStates
  <1>4. \A d \in AskCalls : answer'[d].outcome = "decided" => MadeFromRuling(d)'
    BY <1>1 DEF VerdictInv, MadeFromRuling
  <1>7. RulingsInv'
    BY <1>1 DEF VerdictInv, RulingsInv
  <1>5. ASSUME NEW d \in EvalCalls, told'[d] \in Policy!Answers PROVE told'[d] = verdict'[d]
    BY <1>0, <1>2, <1>5 DEF VerdictInv, ShapeInv, Policy!Answers
  <1>6. ASSUME NEW d \in Calls, reply'[d] = "result"
        PROVE  handler'[d] = "replied" /\ IsResult(d)'
    <2>1. handler[d] = "replied" /\ IsResult(d)
      BY <1>1, <1>6 DEF VerdictInv
    <2>2. handler'[d] = "replied" /\ (d \in EvalCalls => told'[d] = told[d])
      BY <1>0, <1>2, <2>1 DEF ShapeInv
    <2> QED BY <1>1, <2>1, <2>2 DEF IsResult, Policy!Answers, Calls
  <1> QED BY <1>3, <1>4, <1>5, <1>6, <1>7 DEF VerdictInv, Policy!Answers

LEMMA VerdictStep == VerdictInv /\ [Next]_vars => VerdictInv'
  <1> SUFFICES ASSUME VerdictInv, [Next]_vars PROVE VerdictInv'
    OBVIOUS
  <1>1. ASSUME UNCHANGED <<handler, reply, ask_vars, eval_vars>> PROVE VerdictInv'
    <2>1. ShapeInv'
      BY <1>1 DEF VerdictInv, ShapeInv, ask_vars, eval_vars
    <2> QED BY <1>1, <2>1, AnswersStand DEF VerdictInv
  <1>2. ASSUME \/ Inform \/ RejectArgument \/ RejectConfiguration \/ Serve \/ ServeReturns
               \/ UNCHANGED vars
               \/ \E how \in {"eof", "signal", "fault"} : End(how)
        PROVE  UNCHANGED <<handler, reply, ask_vars, eval_vars>>
    BY <1>2 DEF Inform, RejectArgument, RejectConfiguration, Serve, ServeReturns, End, vars
  <1>3. ASSUME NEW c \in Calls, Call(c) PROVE VerdictInv'
    BY <1>3, HandlingKeeps, AskingKeeps, EvaluatingKeeps DEF Call
  <1> QED BY <1>1, <1>2, <1>3 DEF Next, Exited

\* A result is a decision that was made, and everything else is an error.
THEOREM NoVerdictIsInvented == Spec => []NoVerdictWithoutDecision
  <1>1. VerdictInv => NoVerdictWithoutDecision
    <2> SUFFICES ASSUME VerdictInv, NEW c \in Calls, reply[c] = "result"
                 PROVE  IF c \in AskCalls THEN MadeFromRuling(c)
                        ELSE verdict[c] = told[c] /\ told[c] \in Policy!Answers
      BY DEF NoVerdictWithoutDecision, MadeFromRuling
    <2>1. IsResult(c)
      BY DEF VerdictInv
    <2>2. CASE c \in AskCalls
      BY <2>1, <2>2 DEF VerdictInv, IsResult
    <2>3. CASE c \notin AskCalls
      BY <2>1, <2>3 DEF VerdictInv, IsResult, Calls
    <2> QED BY <2>2, <2>3
  <1> QED BY <1>1, VerdictInit, VerdictStep, PTL DEF Spec

-----------------------------------------------------------------------------
(* What PDPs are shown. *)

LEMMA StartStands == [Next]_vars => start' = start
  <1> SUFFICES ASSUME [Next]_vars PROVE start' = start
    OBVIOUS
  <1>1. ASSUME NEW c \in Calls, Call(c) PROVE start' = start
    BY <1>1, CallsLeaveTheProcess DEF process_vars
  <1> QED BY <1>1 DEF Next, Inform, RejectArgument, RejectConfiguration, Serve, End,
                      ServeReturns, Exited, vars, process_vars

\* Every header is the one of the token the process was started with.
HeadersInv == headers \subseteq {setAuth(start.token)}

LEMMA HeadersStep == HeadersInv /\ [Next]_vars => HeadersInv'
  <1> SUFFICES ASSUME HeadersInv, [Next]_vars PROVE HeadersInv'
    OBVIOUS
  <1>1. start' = start
    BY StartStands
  <1>2. ASSUME NEW c \in Calls, Call(c)
        PROVE  headers' = headers \/ headers' = headers \cup {setAuth(start.token)}
    BY <1>2 DEF Call, Receive, Panic, Recover, Reply, Ask, Rule, AskAnswered, AskRefused,
                Accept, Decide, EvalReturns
  <1>3. headers' = headers \/ headers' = headers \cup {setAuth(start.token)}
    BY <1>2 DEF Next, Inform, RejectArgument, RejectConfiguration, Serve, End,
                ServeReturns, Exited, vars
  <1> QED BY <1>1, <1>3, Zenon DEF HeadersInv

LEMMA HeadersInvariance == Spec => []HeadersInv
  <1>1. Init => HeadersInv
    BY Zenon DEF Init, HeadersInv
  <1> QED BY <1>1, HeadersStep, PTL DEF Spec

\* However the operator's token is written, a PDP is shown it under the scheme it
\* names, Bearer if none, and no scheme twice.
THEOREM EveryHeaderIsAsMeant ==
    ASSUME \A s \in Starts : IsToken(s.token)
    PROVE  Spec => []AuthorizationIsAsMeant
  <1>1. ProcessInv /\ HeadersInv => AuthorizationIsAsMeant
    <2> SUFFICES ASSUME ProcessInv, HeadersInv, NEW h \in headers
                 PROVE  Words(h) = Meant(start.token)
      BY Zenon DEF AuthorizationIsAsMeant
    <2>1. start.token \in Seq(STRING) /\ IsToken(start.token)
      BY StartAssumption DEF ProcessInv
    <2>2. h = setAuth(start.token)
      BY Zenon DEF HeadersInv
    <2> QED BY <2>1, <2>2, HeaderIsAsMeant, Zenon
  <1> QED BY <1>1, ProcessInvariance, HeadersInvariance, PTL

-----------------------------------------------------------------------------
(* Types. *)

\* A reply belongs to a handler that is through.
RepliesInv ==
    /\ ShapeInv
    /\ \A c \in Calls : handler[c] = "replied" <=> reply[c] \in {"result", "error"}

LEMMA RepliesStep == RepliesInv /\ ShapeInv' /\ [Next]_vars => RepliesInv'
  <1> SUFFICES ASSUME RepliesInv, ShapeInv', [Next]_vars PROVE RepliesInv'
    OBVIOUS
  <1>1. CASE UNCHANGED <<handler, reply>>
    BY <1>1 DEF RepliesInv
  <1>2. ASSUME NEW c \in Calls, Call(c), ~UNCHANGED <<handler, reply>> PROVE RepliesInv'
    <2>1. \/ /\ reply' = reply /\ handler[c] # "replied"
             /\ \E h \in HandlerStates \ {"replied"} : handler' = [handler EXCEPT ![c] = h]
          \/ /\ handler' = [handler EXCEPT ![c] = "replied"]
             /\ \E r \in {"result", "error"} : reply' = [reply EXCEPT ![c] = r]
      BY <1>2 DEF Call, Receive, Panic, Recover, Reply, Ask, Rule, AskAnswered, AskRefused,
                  Accept, Decide, EvalReturns, Return, Runs, HandlerStates
    <2> QED BY <2>1 DEF RepliesInv, ShapeInv
  <1>3. ASSUME \/ Inform \/ RejectArgument \/ RejectConfiguration \/ Serve \/ ServeReturns
               \/ UNCHANGED vars
               \/ \E how \in {"eof", "signal", "fault"} : End(how)
        PROVE  UNCHANGED <<handler, reply>>
    BY <1>3 DEF Inform, RejectArgument, RejectConfiguration, Serve, ServeReturns, End, vars
  <1> QED BY <1>1, <1>2, <1>3 DEF Next, Exited

\* What is read of an environment is a number, in the width of the build or wider.
LEMMA ConfigIsNumbers ==
    ASSUME NEW env \in [Settings -> Texts]
    PROVE  /\ DOMAIN loadConfig(env).config = Settings
           /\ \A x \in Settings : loadConfig(env).config[x] \in Int
  <1>1. ASSUME NEW x \in Settings PROVE Read(x, env[x]).n \in Int
    <2>1. env[x].n \in Int /\ (x \in Bounds => Default[x] \in Int)
      BY TextFields, DefaultAssumption, WidthAssumption
    <2>2. Malformed.n = 0 /\ Number(0).n = 0 /\ (x \in Bounds => Number(Default[x]).n \in Int)
      BY <2>1, NumberFields DEF Malformed
    <2> QED BY <2>1, <2>2 DEF Read, boundEnv, boolEnv
  <1>2. ASSUME NEW n \in Int PROVE int(n) \in Int
    <2> DEFINE m == n + IntMax + 1
               w == 2 * (IntMax + 1)
    <2>1. m \in Int /\ w \in Nat \ {0} /\ IntMax \in Nat
      BY WidthAssumption
    <2>2. m % w \in Int
      <3> HIDE DEF m, w
      <3> QED BY <2>1
    <2> QED BY <2>1, <2>2 DEF int
  <1> QED BY <1>1, <1>2 DEF loadConfig, NoConfig

NumbersInv ==
    /\ DOMAIN config = Settings /\ \A x \in Settings : config[x] \in Int
    /\ status \in [code: {-1, 0, 1, 2}, names: Settings \cup {""}]

LEMMA NumbersStep == ProcessInv /\ NumbersInv /\ [Next]_vars => NumbersInv'
  <1> SUFFICES ASSUME ProcessInv, NumbersInv, [Next]_vars PROVE NumbersInv'
    OBVIOUS
  <1> DEFINE none == ""
             Statuses == [code: {-1, 0, 1, 2}, names: Settings \cup {none}]
             fault == loadConfig(start.env).fault
  <1>0. start.env \in [Settings -> Texts]
    BY StartAssumption DEF ProcessInv
  <1>1. fault \in Settings \cup {none}
    BY <1>0, FaultsAreWrong, Zenon DEF Wrong
  <1>2. \/ config' = config \/ config' = loadConfig(start.env).config
    <2>1. ASSUME NEW c \in Calls, Call(c) PROVE config' = config
      BY <2>1, CallsLeaveTheProcess DEF process_vars
    <2> QED BY <2>1 DEF Next, Inform, RejectArgument, RejectConfiguration, Serve, End,
                        ServeReturns, Exit, Exited, vars, process_vars
  <1>3. \/ status' = status
        \/ \E code \in {0, 1, 2} : \E names \in {none, fault} :
              status' = [code |-> code, names |-> names]
    <2>1. ASSUME NEW c \in Calls, Call(c) PROVE status' = status
      BY <2>1, CallsLeaveTheProcess DEF process_vars
    <2>2. CASE Inform \/ RejectArgument \/ RejectConfiguration
      BY <2>2, Zenon DEF Inform, RejectArgument, RejectConfiguration, Exit
    <2>3. CASE ServeReturns
      <3>1. ExitCode(ended) \in {0, 1, 2}
        BY DEF ExitCode
      <3> QED BY <2>3, <3>1, Zenon DEF ServeReturns, Exit
    <2>4. ASSUME Serve \/ UNCHANGED vars \/ \E how \in {"eof", "signal", "fault"} : End(how)
          PROVE  status' = status
      BY <2>4 DEF Serve, End, vars, process_vars
    <2> QED BY <2>1, <2>2, <2>3, <2>4, Zenon DEF Next, Exited
  <1>4. status \in Statuses
    BY Zenon DEF NumbersInv
  <1> HIDE DEF none, fault
  <1>5. status' \in Statuses
    BY <1>1, <1>3, <1>4
  <1> HIDE DEF Statuses
  <1>6. DOMAIN config' = Settings /\ \A x \in Settings : config'[x] \in Int
    BY <1>0, <1>2, ConfigIsNumbers, Zenon DEF NumbersInv
  <1> QED BY <1>5, <1>6, Zenon DEF NumbersInv, Statuses, none

\* Every variable has its type, a reply belongs to a handler that is through, and
\* no header begins or ends with white space, whatever the token.
THEOREM SessionTypeOK == Spec => []TypeOK
  <1>1. Init => RepliesInv
    BY VerdictInit DEF Init, RepliesInv, VerdictInv
  <1>2. Init => NumbersInv
    <2> SUFFICES ASSUME Init PROVE NumbersInv
      OBVIOUS
    <2> DEFINE none == ""
    <2>1. status = [code |-> -1, names |-> none]
      BY Zenon DEF Init, NoStatus
    <2>2. DOMAIN config = Settings /\ \A x \in Settings : config[x] \in Int
      <3>1. config = NoConfig
        BY Zenon DEF Init
      <3> QED BY <3>1 DEF NoConfig
    <2> HIDE DEF none
    <2>3. status \in [code: {-1, 0, 1, 2}, names: Settings \cup {none}]
      BY <2>1
    <2> QED BY <2>2, <2>3, Zenon DEF NumbersInv, none
  <1>3. VerdictInv => ShapeInv
    BY DEF VerdictInv
  <1>4. ProcessInv /\ RepliesInv /\ NumbersInv /\ HeadersInv => TypeOK
    <2> SUFFICES ASSUME ProcessInv, RepliesInv, NumbersInv, HeadersInv PROVE TypeOK
      OBVIOUS
    <2>1. start \in Starts /\ start.token \in Seq(STRING)
      BY StartAssumption DEF ProcessInv
    <2>2. process \in {"starting", "serving", "exited"} /\ ended \in {"", "eof", "signal", "fault"}
      BY Zenon DEF ProcessInv
    <2>3. handler \in [Calls -> HandlerStates]
      BY DEF RepliesInv, ShapeInv
    <2>4. ASSUME NEW h \in headers, h # <<>> PROVE h[1] \notin Space /\ h[Len(h)] \notin Space
      <3>1. h = setAuth(start.token)
        BY Zenon DEF HeadersInv
      <3> QED BY <2>1, <2>4, <3>1, HeaderHasNoSpaceAtItsEnds, Zenon
    <2> QED BY <2>1, <2>2, <2>3, <2>4, Zenon DEF TypeOK, RepliesInv, NumbersInv, HandlerStates
  <1> QED BY <1>1, <1>2, <1>3, <1>4, ProcessInvariance, HeadersInvariance, VerdictInit,
             VerdictStep, RepliesStep, NumbersStep, PTL DEF Spec

-----------------------------------------------------------------------------
(* One reply a call, and what the two services promise. *)

\* A call is replied to once: neither a panic that comes late nor the end of the
\* session takes a reply back or makes another (main.go:121-124).
THEOREM ReplyIsFinal ==
    Spec => [][\A c \in Calls : reply[c] # "none" => reply'[c] = reply[c]]_vars
  <1>1. RepliesInv /\ [Next]_vars
          => [\A c \in Calls : reply[c] # "none" => reply'[c] = reply[c]]_vars
    <2> SUFFICES ASSUME RepliesInv, Next, NEW c \in Calls, reply[c] # "none"
                 PROVE  reply'[c] = reply[c]
      OBVIOUS
    <2>1. handler[c] = "replied"
      BY DEF RepliesInv, ShapeInv
    <2>2. ASSUME NEW d \in Calls, Call(d), reply' # reply
          PROVE  d # c /\ \E r : reply' = [reply EXCEPT ![d] = r]
      BY <2>1, <2>2 DEF Call, Receive, Panic, Recover, Reply, Ask, Rule, AskAnswered,
                        AskRefused, Accept, Decide, EvalReturns
    <2>3. reply' = reply \/ \E d \in Calls \ {c} : \E r : reply' = [reply EXCEPT ![d] = r]
      BY <2>2 DEF Next, Inform, RejectArgument, RejectConfiguration, Serve, End,
                  ServeReturns, Exited, vars
    <2> QED BY <2>3 DEF RepliesInv, ShapeInv
  <1>2. Init => RepliesInv
    BY VerdictInit DEF Init, RepliesInv, VerdictInv
  <1>3. VerdictInv => ShapeInv
    BY DEF VerdictInv
  <1> QED BY <1>1, <1>2, <1>3, VerdictInit, VerdictStep, RepliesStep, PTL DEF Spec

\* A session keeps what each of its services promises on its own: a panic, the
\* end of the session and the calls of the other tools disturb neither.
THEOREM SessionKeepsItsServices == Spec => Service!Safety /\ Policy!Safety
  <1>1. Init => Service!Init /\ Policy!Init
    BY Zenon DEF Init
  <1>2. ASSUME NEW c \in Calls, Call(c)
        PROVE  /\ UNCHANGED ask_vars \/ Service!Next
               /\ UNCHANGED eval_vars \/ Policy!Next
    <2>1. CASE Receive(c) \/ Panic(c) \/ Recover(c) \/ Reply(c)
      BY <2>1 DEF Receive, Panic, Recover, Reply
    <2>2. CASE c \in AskCalls /\ (Ask(c) \/ Rule(c) \/ AskAnswered(c) \/ AskRefused(c))
      BY <2>2 DEF Ask, Rule, AskAnswered, AskRefused, Service!Next
    <2>3. CASE c \in EvalCalls /\ (Accept(c) \/ Decide(c) \/ EvalReturns(c))
      BY <2>3 DEF Accept, Decide, EvalReturns, Policy!Next
    <2> QED BY <1>2, <2>1, <2>2, <2>3 DEF Call
  <1>3. ASSUME [Next]_vars, ~ \E c \in Calls : Call(c)
        PROVE  UNCHANGED ask_vars /\ UNCHANGED eval_vars
    BY <1>3 DEF Next, Inform, RejectArgument, RejectConfiguration, Serve, End,
                ServeReturns, Exited, vars
  <1>4. [Next]_vars => [Service!Next]_(Service!vars) /\ [Policy!Next]_(Policy!vars)
    BY <1>2, <1>3 DEF Service!vars, Policy!vars, ask_vars, eval_vars
  <1> QED BY <1>1, <1>4, PTL DEF Spec, Service!Safety, Policy!Safety
=============================================================================
