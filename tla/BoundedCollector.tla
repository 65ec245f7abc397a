-------------------------- MODULE BoundedCollector --------------------------
(***************************************************************************)
(* The two collectors an evaluation writes to (tool_opa.go): printCollector,*)
(* the print() hook, and boundedTracer, the tracer.  "OPA may evaluate      *)
(* concurrently", so any number of goroutines call Print or TraceEvent, each *)
(* a critical section of several steps.  evaluatePolicy calls lines() when   *)
(* the evaluation is over; as lines() takes the mutex it may read at any     *)
(* moment here, which is more than it has to stand.                         *)
(*                                                                          *)
(* A boundedTracer is the collector whose LineBytes no event exceeds.       *)
(***************************************************************************)
EXTENDS Naturals, Sequences

CONSTANTS
    Writers,    \* the goroutines of an evaluation
    Limit,      \* maxPrintLines or maxTraceEvents
    LineBytes,  \* maxPrintLineBytes
    MaxSize,    \* the longest message
    Quota       \* bound: messages per goroutine

Free == "free"

ASSUME BoundAssumption == {Limit, LineBytes, MaxSize, Quota} \subseteq Nat
ASSUME FreeAssumption == Free \notin Writers

VARIABLES
    mu,         \* who holds the mutex
    out,        \* the lines collected; events, in a boundedTracer
    dropped,
    truncated,
    pc,         \* pc[w]: "idle", "lock", "test", "cut", "append", "unlock"
    msg,        \* msg[w]: the message w is printing
    returned,   \* returned[w]: how many of its calls returned
    read        \* what the last lines() returned, and what had returned by then

vars == <<mu, out, dropped, truncated, pc, msg, returned, read>>

Message == [from: Writers, seq: 1..Quota, size: 0..MaxSize]

Goto(w, l) == pc' = [pc EXCEPT ![w] = l]

Begin(w) ==
    /\ pc[w] = "idle" /\ returned[w] < Quota
    /\ \E s \in 0..MaxSize :
          msg' = [msg EXCEPT ![w] = [from |-> w, seq |-> returned[w] + 1, size |-> s]]
    /\ Goto(w, "lock")
    /\ UNCHANGED <<mu, out, dropped, truncated, returned, read>>

\* A collector without a mutex.
Lock_NoMutex(w) ==
    /\ pc[w] = "lock"
    /\ mu' = w
    /\ Goto(w, "test")
    /\ UNCHANGED <<out, dropped, truncated, msg, returned, read>>

Lock(w) ==
    /\ pc[w] = "lock" /\ mu = Free
    /\ mu' = w
    /\ Goto(w, "test")
    /\ UNCHANGED <<out, dropped, truncated, msg, returned, read>>

\* One message too many.
Test_OffByOne(w) ==
    /\ pc[w] = "test"
    /\ IF Len(out) > Limit
       THEN dropped' = dropped + 1 /\ Goto(w, "unlock")
       ELSE Goto(w, "cut") /\ UNCHANGED dropped
    /\ UNCHANGED <<mu, out, truncated, msg, returned, read>>

\* The early return leaves without the deferred unlock.
Test_NoUnlock(w) ==
    /\ pc[w] = "test"
    /\ IF Len(out) >= Limit
       THEN dropped' = dropped + 1 /\ Goto(w, "idle")
       ELSE Goto(w, "cut") /\ UNCHANGED dropped
    /\ UNCHANGED <<mu, out, truncated, msg, returned, read>>

\* The limit keeps the latest messages, not the first.
Test_KeepLatest(w) ==
    /\ pc[w] = "test"
    /\ IF Len(out) >= Limit
       THEN dropped' = dropped + 1 /\ out' = Tail(out)
       ELSE UNCHANGED <<dropped, out>>
    /\ Goto(w, "cut")
    /\ UNCHANGED <<mu, truncated, msg, returned, read>>

Test(w) ==
    /\ pc[w] = "test"
    /\ IF Len(out) >= Limit
       THEN dropped' = dropped + 1 /\ Goto(w, "unlock")
       ELSE Goto(w, "cut") /\ UNCHANGED dropped
    /\ UNCHANGED <<mu, out, truncated, msg, returned, read>>

Cut(w) ==
    /\ pc[w] = "cut"
    /\ truncated' = (truncated \/ msg[w].size > LineBytes)
    /\ Goto(w, "append")
    /\ UNCHANGED <<mu, out, dropped, msg, returned, read>>

Line(m) == [from |-> m.from, seq |-> m.seq, cut |-> m.size > LineBytes]

Store(w) ==
    /\ pc[w] = "append"
    /\ out' = Append(out, Line(msg[w]))
    /\ Goto(w, "unlock")
    /\ UNCHANGED <<mu, dropped, truncated, msg, returned, read>>

Unlock(w) ==
    /\ pc[w] = "unlock"
    /\ mu' = Free
    /\ returned' = [returned EXCEPT ![w] = @ + 1]
    /\ Goto(w, "idle")
    /\ UNCHANGED <<out, dropped, truncated, msg, read>>

Report == [taken |-> TRUE, lines |-> out, cut |-> truncated \/ dropped > 0,
           returned |-> returned]

\* The flag tells of long lines only, and not of lines there were too many of.
lines_TruncatedOnly ==
    /\ mu = Free
    /\ read' = [Report EXCEPT !.cut = truncated]
    /\ UNCHANGED <<mu, out, dropped, truncated, pc, msg, returned>>

lines ==
    /\ mu = Free
    /\ read' = Report
    /\ UNCHANGED <<mu, out, dropped, truncated, pc, msg, returned>>

Nothing == [taken |-> FALSE, lines |-> <<>>, cut |-> FALSE,
            returned |-> [w \in Writers |-> 0]]

Init ==
    /\ mu = Free
    /\ out = <<>> /\ dropped = 0 /\ truncated = FALSE
    /\ pc = [w \in Writers |-> "idle"]
    /\ msg = [w \in Writers |-> [from |-> w, seq |-> 1, size |-> 0]]
    /\ returned = [w \in Writers |-> 0]
    /\ read = Nothing

Step(w) == Lock(w) \/ Test(w) \/ Cut(w) \/ Store(w) \/ Unlock(w)

Collect == \E w \in Writers : Begin(w) \/ Step(w)

Next == Collect \/ lines

\* sync.Mutex starves no goroutine, and the runtime runs the one that holds it.
Fairness ==
    \A w \in Writers :
        SF_vars(Lock(w)) /\ WF_vars(Test(w) \/ Cut(w) \/ Store(w) \/ Unlock(w))

Spec == Init /\ [][Next]_vars /\ Fairness

\* boundedTracer has no lines(): its events are read when the evaluation is over.
TracerSpec == Init /\ [][Collect]_vars
-----------------------------------------------------------------------------
LineSet == [from: Writers, seq: Nat, cut: BOOLEAN]

Holds(w) == pc[w] \in {"test", "cut", "append", "unlock"}

\* Every variable has its type, and a goroutine is inside the critical section
\* exactly when it holds the mutex.
TypeOK ==
    /\ mu \in Writers \cup {Free}
    /\ out \in Seq(LineSet)
    /\ dropped \in Nat /\ truncated \in BOOLEAN
    /\ pc \in [Writers -> {"idle", "lock", "test", "cut", "append", "unlock"}]
    /\ msg \in [Writers -> Message \cup [from: Writers, seq: {1}, size: {0}]]
    /\ returned \in [Writers -> 0..Quota]
    /\ \A w \in Writers : Holds(w) <=> mu = w

\* However many goroutines write at once, the limit holds at every moment, on
\* what is collected and so on what is returned (tool_opa.go:32-33, 371-378).
Bounded == Len(out) <= Limit

\* What is missing from an answer is declared: when lines() reports nothing cut,
\* it returns, whole, every message whose call had returned; when it reports a
\* cut, something was (tool_opa.go:67-69, 402-403).
CutIsDeclared ==
    read.taken =>
        /\ ~read.cut => \A w \in Writers : \A j \in 1..read.returned[w] :
              [from |-> w, seq |-> j, cut |-> FALSE] \in
                {read.lines[i] : i \in 1..Len(read.lines)}
        /\ read.cut => \/ Len(read.lines) = Limit
                       \/ \E i \in 1..Len(read.lines) : read.lines[i].cut

\* A goroutine's lines are its first ones, in the order it printed them
\* (tool_opa.go:65): the limit keeps how an evaluation began.
FirstLinesInOrder ==
    \A i \in 1..Len(out) :
        out[i].seq > 1 => \E j \in 1..(i - 1) :
            out[j].from = out[i].from /\ out[j].seq = out[i].seq - 1

\* Print never blocks an evaluation for good, at the limit or below it.
EveryPrintReturns == \A w \in Writers : pc[w] = "lock" ~> pc[w] = "idle"

\* What is missing: a message was dropped, or a line is cut.
Lost == dropped > 0 \/ \E i \in 1..Len(out) : out[i].cut

\* The concurrent collector is an atomic bounded log.
Log == INSTANCE BoundedLog WITH Messages <- Message, kept <- out, lost <- Lost

\* Each call takes effect at one moment, as one step of BoundedLog.
IsBoundedLog == Log!Spec
-----------------------------------------------------------------------------
\* README.md:92: a trace is bounded at 4000 events.
DocumentedEvents == 4000
TraceHolds4000 == dropped > 0 => Len(out) >= DocumentedEvents
=============================================================================
