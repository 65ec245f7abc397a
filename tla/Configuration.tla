---------------------------- MODULE Configuration ----------------------------
(***************************************************************************)
(* What loadConfig (config.go) makes of the environment.  The variables are *)
(* read in a fixed order and the first one that cannot be used stops the    *)
(* server.  A variable's text is unset, or stands for a number, or for      *)
(* nothing its parser takes.                                                *)
(***************************************************************************)
EXTENDS Integers, FiniteSetsExt

CONSTANTS
    Int64Max,   \* math.MaxInt64
    IntMax,     \* math.MaxInt of the build
    Default     \* the default of each bound

\* In the order they are read.
Order == <<"PDPTimeout", "RegoTimeout", "PDPMaxBytes", "MaxArgBytes",
           "AllowNetworkBuiltins">>

Bounds   == {"PDPTimeout", "RegoTimeout", "PDPMaxBytes", "MaxArgBytes"}
Settings == Bounds \cup {"AllowNetworkBuiltins"}

Texts == [kind: {"unset", "malformed", "number"}, n: Int]

Unset     == [kind |-> "unset", n |-> 0]
Malformed == [kind |-> "malformed", n |-> 0]
Number(n) == [kind |-> "number", n |-> n]   \* a boolean is 0 or 1

ASSUME WidthAssumption ==
    {Int64Max, IntMax} \subseteq Nat \ {0} /\ IntMax <= Int64Max
ASSUME DefaultAssumption == Default \in [Bounds -> 1..IntMax]

\* int(n), in the width of the build.
int(n) == ((n + IntMax + 1) % (2 * (IntMax + 1))) - (IntMax + 1)

\* time.ParseDuration and strconv.ParseInt refuse what 64 bits do not hold.
Parses(v) == v.kind = "number" /\ v.n \in -Int64Max..Int64Max

boundEnv_AllowsZero(x, v) ==
    IF v.kind = "unset" THEN Number(Default[x])
    ELSE IF Parses(v) /\ v.n >= 0 THEN v ELSE Malformed

\* durationEnv and int64Env: unset is the default; a bound is positive.
boundEnv(x, v) ==
    IF v.kind = "unset" THEN Number(Default[x])
    ELSE IF Parses(v) /\ v.n > 0 THEN v ELSE Malformed

\* boolEnv: unset is off.
boolEnv(v) ==
    IF v.kind = "unset" THEN Number(0) ELSE IF v.n \in {0, 1} THEN v ELSE Malformed

Read(x, v) == IF x \in Bounds THEN boundEnv(x, v) ELSE boolEnv(v)

NoConfig == [x \in Settings |-> 0]

Faults(env) == {i \in DOMAIN Order : Read(Order[i], env[Order[i]]).kind = "malformed"}

\* MaxArgBytes set from the n that int64Env returned for PDPMaxBytes.
loadConfig_StaleN(env) ==
    IF Faults(env) # {} THEN [fault |-> Order[Min(Faults(env))], config |-> NoConfig]
    ELSE [fault |-> "",
          config |-> [x \in Settings |->
             IF x = "MaxArgBytes"
             THEN int(Read("PDPMaxBytes", env["PDPMaxBytes"]).n)
             ELSE Read(x, env[x]).n]]

loadConfig(env) ==
    IF Faults(env) # {} THEN [fault |-> Order[Min(Faults(env))], config |-> NoConfig]
    ELSE [fault |-> "",
          config |-> [x \in Settings |->
             IF x = "MaxArgBytes" THEN int(Read(x, env[x]).n) ELSE Read(x, env[x]).n]]
=============================================================================
