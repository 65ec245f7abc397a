----------------------- MODULE BoundedCollectorProofs -----------------------
(***************************************************************************)
(* The collector is bounded, honest and in order, and implements BoundedLog, *)
(* for any number of goroutines and any limits.                             *)
(***************************************************************************)
EXTENDS BoundedCollector, FiniteSetTheorems, TLAPS

\* How many of its messages w is through with: stored or dropped.
Through(w) == IF pc[w] = "unlock" THEN returned[w] + 1 ELSE returned[w]

\* Inside the critical section, past the test, there is room; at the limit only
\* are messages dropped.
RoomInv ==
    /\ Len(out) <= Limit
    /\ dropped > 0 => Len(out) = Limit
    /\ \A w \in Writers : pc[w] \in {"cut", "append"} => Len(out) < Limit

\* The message a goroutine is printing is its next one.
MsgInv ==
    \A w \in Writers :
        /\ msg[w].from = w
        /\ pc[w] # "idle" => msg[w] \in Message /\ msg[w].seq = returned[w] + 1

\* Until one is dropped every message w is through with is a line, and no line
\* is of any other.
LinesInv ==
    /\ \A i \in 1..Len(out) : out[i].seq \in 1..Through(out[i].from)
    /\ dropped = 0 => \A w \in Writers : \A j \in 1..Through(w) :
          \E i \in 1..Len(out) : out[i].from = w /\ out[i].seq = j

\* The flag tells of the lines that are cut, and of the one about to be.
FlagInv ==
    /\ \A w \in Writers :
          pc[w] = "append" /\ msg[w].size > LineBytes => truncated
    /\ ~truncated => \A i \in 1..Len(out) : ~out[i].cut
    /\ truncated => \/ \E i \in 1..Len(out) : out[i].cut
                    \/ \E w \in Writers : pc[w] = "append" /\ msg[w].size > LineBytes

IInv ==
    /\ TypeOK /\ RoomInv /\ MsgInv /\ LinesInv /\ FlagInv
    /\ FirstLinesInOrder /\ CutIsDeclared

\* The mutex is held by one goroutine at most.
LEMMA OneHolder ==
    ASSUME TypeOK, NEW v \in Writers, NEW w \in Writers, Holds(v), Holds(w)
    PROVE  v = w
  BY DEF TypeOK

\* What a line is.
LEMMA LinesTyped ==
    ASSUME TypeOK
    PROVE  \A i \in 1..Len(out) :
              /\ out[i] = [from |-> out[i].from, seq |-> out[i].seq, cut |-> out[i].cut]
              /\ out[i].from \in Writers /\ out[i].seq \in Nat /\ out[i].cut \in BOOLEAN
  <1> DEFINE L == LineSet
  <1>1. out \in Seq(L)
    BY DEF TypeOK
  <1> HIDE DEF L
  <1>2. \A i \in 1..Len(out) : out[i] \in L
    BY <1>1
  <1>3. \A x \in L : /\ x = [from |-> x.from, seq |-> x.seq, cut |-> x.cut]
                     /\ x.from \in Writers /\ x.seq \in Nat /\ x.cut \in BOOLEAN
    BY DEF L, LineSet
  <1> QED BY <1>2, <1>3

\* Nothing holds before the first message.
LEMMA InitHolds == Init => IInv
  <1> SUFFICES ASSUME Init PROVE IInv
    OBVIOUS
  <1> USE BoundAssumption, FreeAssumption DEF Init
  <1>a. out \in Seq(LineSet) /\ returned \in [Writers -> 0..Quota]
    OBVIOUS
  <1>b. msg \in [Writers -> Message \cup [from: Writers, seq: {1}, size: {0}]]
    OBVIOUS
  <1>c. \A w \in Writers : Holds(w) <=> mu = w
    BY DEF Holds
  <1>1. TypeOK
    BY <1>a, <1>b, <1>c DEF TypeOK
  <1>2. RoomInv /\ LinesInv /\ FlagInv /\ FirstLinesInOrder
    BY DEF RoomInv, LinesInv, FlagInv, FirstLinesInOrder, Through
  <1>3. MsgInv
    BY DEF MsgInv
  <1>4. CutIsDeclared
    BY DEF CutIsDeclared, Nothing
  <1> QED BY <1>1, <1>2, <1>3, <1>4 DEF IInv

\* A goroutine chooses its next message.
LEMMA BeginKeeps ==
    ASSUME IInv, NEW w \in Writers, Begin(w)
    PROVE  IInv'
  <1> USE BoundAssumption, FreeAssumption DEF Begin, Goto
  <1>a. /\ TypeOK /\ RoomInv /\ MsgInv /\ LinesInv /\ FlagInv
        /\ FirstLinesInOrder /\ CutIsDeclared
    BY DEF IInv
  <1>b. PICK s \in 0..MaxSize :
            msg' = [msg EXCEPT ![w] = [from |-> w, seq |-> returned[w] + 1, size |-> s]]
    OBVIOUS
  <1>c. returned[w] + 1 \in 1..Quota
    BY <1>a DEF TypeOK
  <1>d. pc' = [pc EXCEPT ![w] = "lock"] /\ pc[w] = "idle"
    OBVIOUS
  <1>1. TypeOK'
    BY <1>a, <1>b, <1>c, <1>d DEF TypeOK, Holds, Message
  <1>2. RoomInv'
    BY <1>a, <1>d DEF RoomInv, TypeOK
  <1>3. MsgInv'
    BY <1>a, <1>b, <1>c, <1>d DEF MsgInv, TypeOK, Message
  <1>e. \A v \in Writers : Through(v)' = Through(v)
    BY <1>a, <1>d DEF Through, TypeOK
  <1>f. \A i \in 1..Len(out) : out[i].from \in Writers
    BY <1>a, LinesTyped
  <1>4. LinesInv'
    BY <1>a, <1>e, <1>f DEF LinesInv
  <1>5. FlagInv'
    BY <1>a, <1>b, <1>d DEF FlagInv, TypeOK
  <1>6. FirstLinesInOrder' /\ CutIsDeclared'
    BY <1>a DEF FirstLinesInOrder, CutIsDeclared
  <1> QED BY <1>1, <1>2, <1>3, <1>4, <1>5, <1>6 DEF IInv

\* A goroutine enters the critical section.
LEMMA LockKeeps ==
    ASSUME IInv, NEW w \in Writers, Lock(w)
    PROVE  IInv'
  <1> USE BoundAssumption, FreeAssumption DEF Lock, Goto
  <1>a. /\ TypeOK /\ RoomInv /\ MsgInv /\ LinesInv /\ FlagInv
        /\ FirstLinesInOrder /\ CutIsDeclared
    BY DEF IInv
  <1>e. \A v \in Writers : Through(v)' = Through(v)
    BY <1>a DEF Through, TypeOK
  <1>f. \A i \in 1..Len(out) : out[i].from \in Writers
    BY <1>a, LinesTyped
  <1>1. TypeOK'
    BY <1>a DEF TypeOK, Holds
  <1>2. RoomInv'
    BY <1>a DEF RoomInv, TypeOK
  <1>3. MsgInv'
    BY <1>a DEF MsgInv, TypeOK
  <1>4. LinesInv'
    BY <1>a, <1>e, <1>f DEF LinesInv
  <1>5. FlagInv'
    BY <1>a DEF FlagInv, TypeOK
  <1>6. FirstLinesInOrder' /\ CutIsDeclared'
    BY <1>a DEF FirstLinesInOrder, CutIsDeclared
  <1> QED BY <1>1, <1>2, <1>3, <1>4, <1>5, <1>6 DEF IInv

\* There is room, or the message is dropped.
LEMMA TestKeeps ==
    ASSUME IInv, NEW w \in Writers, Test(w)
    PROVE  IInv'
  <1> USE BoundAssumption, FreeAssumption DEF Test, Goto
  <1>a. /\ TypeOK /\ RoomInv /\ MsgInv /\ LinesInv /\ FlagInv
        /\ FirstLinesInOrder /\ CutIsDeclared
    BY DEF IInv
  <1>b. Len(out) \in Nat /\ dropped \in Nat
    BY <1>a DEF TypeOK
  <1>f. \A i \in 1..Len(out) : out[i].from \in Writers /\ out[i].seq \in Nat
    BY <1>a, LinesTyped
  <1>g. \A v \in Writers : returned[v] \in Nat /\ pc[v] \in
            {"idle", "lock", "test", "cut", "append", "unlock"}
    BY <1>a DEF TypeOK
  <1>1. TypeOK'
    <2>1. CASE Len(out) >= Limit
      BY <2>1, <1>a DEF TypeOK, Holds
    <2>2. CASE ~(Len(out) >= Limit)
      BY <2>2, <1>a DEF TypeOK, Holds
    <2> QED BY <2>1, <2>2
  <1>2. RoomInv'
    BY <1>a, <1>b DEF RoomInv, TypeOK
  <1>3. MsgInv'
    BY <1>a DEF MsgInv, TypeOK
  <1>4. LinesInv'
    <2>1. CASE Len(out) >= Limit
      <3>1. dropped' > 0 /\ dropped' # 0
        BY <2>1, <1>b
      <3>2. \A v \in Writers : 1..Through(v) \subseteq 1..Through(v)'
        BY <2>1, <1>a, <1>g DEF Through, TypeOK
      <3> QED BY <1>a, <1>f, <3>1, <3>2 DEF LinesInv
    <2>2. CASE ~(Len(out) >= Limit)
      <3>1. \A v \in Writers : Through(v)' = Through(v)
        BY <2>2, <1>a DEF Through, TypeOK
      <3> QED BY <1>a, <1>f, <2>2, <3>1 DEF LinesInv
    <2> QED BY <2>1, <2>2
  <1>5. FlagInv'
    BY <1>a DEF FlagInv, TypeOK
  <1>6. FirstLinesInOrder' /\ CutIsDeclared'
    BY <1>a DEF FirstLinesInOrder, CutIsDeclared
  <1> QED BY <1>1, <1>2, <1>3, <1>4, <1>5, <1>6 DEF IInv

\* A message that is too long raises the flag before it is stored.
LEMMA CutKeeps ==
    ASSUME IInv, NEW w \in Writers, Cut(w)
    PROVE  IInv'
  <1> USE BoundAssumption, FreeAssumption DEF Cut, Goto
  <1>a. /\ TypeOK /\ RoomInv /\ MsgInv /\ LinesInv /\ FlagInv
        /\ FirstLinesInOrder /\ CutIsDeclared
    BY DEF IInv
  <1>e. \A v \in Writers : Through(v)' = Through(v)
    BY <1>a DEF Through, TypeOK
  <1>f. \A i \in 1..Len(out) : out[i].from \in Writers
    BY <1>a, LinesTyped
  <1>h. \A v \in Writers : pc[v] = "append" => v = w
    BY <1>a, OneHolder DEF Holds
  <1>1. TypeOK'
    BY <1>a DEF TypeOK, Holds
  <1>2. RoomInv'
    BY <1>a DEF RoomInv, TypeOK
  <1>3. MsgInv'
    BY <1>a DEF MsgInv, TypeOK
  <1>4. LinesInv'
    BY <1>a, <1>e, <1>f DEF LinesInv
  <1>5. FlagInv'
    BY <1>a, <1>h DEF FlagInv, TypeOK
  <1>6. FirstLinesInOrder' /\ CutIsDeclared'
    BY <1>a DEF FirstLinesInOrder, CutIsDeclared
  <1> QED BY <1>1, <1>2, <1>3, <1>4, <1>5, <1>6 DEF IInv

\* A goroutine leaves the critical section, and its call returns.
LEMMA UnlockKeeps ==
    ASSUME IInv, NEW w \in Writers, Unlock(w)
    PROVE  IInv'
  <1> USE BoundAssumption, FreeAssumption DEF Unlock, Goto
  <1>a. /\ TypeOK /\ RoomInv /\ MsgInv /\ LinesInv /\ FlagInv
        /\ FirstLinesInOrder /\ CutIsDeclared
    BY DEF IInv
  <1>c. returned[w] + 1 \in 0..Quota
    BY <1>a DEF MsgInv, Message, TypeOK
  <1>e. \A v \in Writers : Through(v)' = Through(v)
    BY <1>a DEF Through, TypeOK
  <1>f. \A i \in 1..Len(out) : out[i].from \in Writers
    BY <1>a, LinesTyped
  <1>1. TypeOK'
    BY <1>a, <1>c DEF TypeOK, Holds
  <1>2. RoomInv'
    BY <1>a DEF RoomInv, TypeOK
  <1>3. MsgInv'
    BY <1>a DEF MsgInv, TypeOK
  <1>4. LinesInv'
    BY <1>a, <1>e, <1>f DEF LinesInv
  <1>5. FlagInv'
    BY <1>a DEF FlagInv, TypeOK
  <1>6. FirstLinesInOrder' /\ CutIsDeclared'
    BY <1>a DEF FirstLinesInOrder, CutIsDeclared
  <1> QED BY <1>1, <1>2, <1>3, <1>4, <1>5, <1>6 DEF IInv

\* The line is stored: there was room, and it is the goroutine's next one.
LEMMA StoreKeeps ==
    ASSUME IInv, NEW w \in Writers, Store(w)
    PROVE  IInv'
  <1> USE BoundAssumption, FreeAssumption
  <1> DEFINE l == Line(msg[w])
  <1>a. /\ TypeOK /\ RoomInv /\ MsgInv /\ LinesInv /\ FlagInv
        /\ FirstLinesInOrder /\ CutIsDeclared
    BY DEF IInv
  <1>b. /\ pc[w] = "append" /\ pc' = [pc EXCEPT ![w] = "unlock"]
        /\ out' = Append(out, l)
        /\ UNCHANGED <<mu, dropped, truncated, msg, returned, read>>
    BY DEF Store, Goto
  <1>c. /\ l.from = w /\ l.seq = returned[w] + 1
        /\ l.cut <=> msg[w].size > LineBytes
    BY <1>a, <1>b DEF MsgInv, Line
  <1>d. l \in LineSet /\ returned[w] \in Nat
    BY <1>a, <1>b DEF MsgInv, Message, Line, LineSet, TypeOK
  <1>e. /\ Len(out) \in Nat /\ Len(out') = Len(out) + 1
        /\ out'[Len(out) + 1] = l
        /\ \A i \in 1..Len(out) : out'[i] = out[i]
        /\ out' \in Seq(LineSet)
    <2>1. out \in Seq(LineSet)
      BY <1>a DEF TypeOK
    <2> HIDE DEF l
    <2> QED BY <1>b, <1>d, <2>1
  <1>f. \A i \in 1..Len(out) :
           /\ out[i].from \in Writers /\ out[i].seq \in Nat /\ out[i].cut \in BOOLEAN
    BY <1>a, LinesTyped
  <1>g. dropped = 0 /\ Len(out) < Limit
    BY <1>a, <1>b, <1>e DEF RoomInv, TypeOK
  <1>h. \A v \in Writers : Through(v)' = IF v = w THEN Through(w) + 1 ELSE Through(v)
    BY <1>a, <1>b DEF Through, TypeOK
  <1>i. Through(w) = returned[w] /\ \A v \in Writers : Through(v) \in Nat
    BY <1>a, <1>b DEF Through, TypeOK
  <1>j. \A v \in Writers : pc[v] \in {"cut", "append"} => v = w
    BY <1>a, <1>b, OneHolder DEF Holds
  <1> HIDE DEF l
  <1>1. TypeOK'
    BY <1>a, <1>b, <1>e DEF TypeOK, Holds
  <1>2. RoomInv'
    BY <1>a, <1>b, <1>e, <1>g, <1>j DEF RoomInv, TypeOK
  <1>3. MsgInv'
    BY <1>a, <1>b DEF MsgInv, TypeOK
  <1>k. \A i \in 1..Len(out') : out'[i].from \in Writers
    BY <1>c, <1>e, <1>f
  <1>4. LinesInv'
    <2> DEFINE T(v) == IF v = w THEN Through(w) + 1 ELSE Through(v)
    <2>1. ASSUME NEW i \in 1..Len(out')
          PROVE  out'[i].seq \in 1..T(out'[i].from)
      <3>1. CASE i \in 1..Len(out)
        <4>1. out'[i] = out[i] /\ out[i].from \in Writers
          BY <3>1, <1>e, <1>f
        <4>2. out[i].seq \in 1..Through(out[i].from)
          BY <3>1, <1>a DEF LinesInv
        <4>3. Through(w) \in Nat /\ Through(out[i].from) \in Nat
          BY <4>1, <1>i
        <4> QED BY <4>1, <4>2, <4>3
      <3>2. CASE i = Len(out) + 1
        <4>1. out'[i] = l
          BY <3>2, <1>e
        <4> QED BY <4>1, <1>c, <1>d, <1>i
      <3> QED BY <3>1, <3>2, <1>e
    <2>2. ASSUME NEW v \in Writers, NEW j \in 1..T(v)
          PROVE  \E i \in 1..Len(out') : out'[i].from = v /\ out'[i].seq = j
      <3>1. CASE j \in 1..Through(v)
        BY <3>1, <1>a, <1>e, <1>g DEF LinesInv
      <3>2. CASE v = w /\ j = Through(w) + 1
        BY <3>2, <1>c, <1>e, <1>i
      <3> QED BY <3>1, <3>2, <1>i
    <2>3. \A v \in Writers : Through(v)' = T(v)
      BY <1>h
    <2> HIDE DEF T
    <2>4. \A i \in 1..Len(out') :
             out'[i].seq \in 1..(IF pc'[out'[i].from] = "unlock"
                                 THEN returned'[out'[i].from] + 1
                                 ELSE returned'[out'[i].from])
      BY <2>1, <2>3, <1>k DEF Through
    <2>5. \A v \in Writers : \A j \in 1..Through(v)' :
             \E i \in 1..Len(out') : out'[i].from = v /\ out'[i].seq = j
      BY <2>2, <2>3
    <2> QED BY <2>4, <2>5 DEF LinesInv, Through
  <1>5. FlagInv'
    <2>1. \A v \in Writers : ~(pc'[v] = "append")
      BY <1>a, <1>b, <1>j DEF TypeOK
    <2>2. CASE l.cut
      <3>1. truncated /\ out'[Len(out) + 1].cut /\ Len(out) + 1 \in 1..Len(out')
        BY <2>2, <1>a, <1>b, <1>c, <1>e DEF FlagInv
      <3> QED BY <3>1, <2>1, <1>b DEF FlagInv
    <2>3. CASE ~l.cut
      <3>1. truncated => \E i \in 1..Len(out) : out[i].cut
        BY <2>3, <1>a, <1>b, <1>c, <1>j DEF FlagInv
      <3>2. truncated' => \E i \in 1..Len(out') : out'[i].cut
        BY <3>1, <1>b, <1>e
      <3>3. ~truncated => \A i \in 1..Len(out) : ~out[i].cut
        BY <1>a DEF FlagInv
      <3>4. ~truncated' => \A i \in 1..Len(out') : ~out'[i].cut
        BY <3>3, <2>3, <1>b, <1>e
      <3> QED BY <3>2, <3>4, <2>1 DEF FlagInv
    <2> QED BY <2>2, <2>3
  <1>6. FirstLinesInOrder'
    <2> SUFFICES ASSUME NEW i \in 1..Len(out'), out'[i].seq > 1
                 PROVE  \E j \in 1..(i - 1) : /\ out'[j].from = out'[i].from
                                             /\ out'[j].seq = out'[i].seq - 1
      BY DEF FirstLinesInOrder
    <2>1. CASE i \in 1..Len(out)
      <3>1. PICK j \in 1..(i - 1) : out[j].from = out[i].from /\ out[j].seq = out[i].seq - 1
        BY <2>1, <1>a, <1>e DEF FirstLinesInOrder
      <3> QED BY <2>1, <3>1, <1>e
    <2>2. CASE i = Len(out) + 1
      <3>1. out'[i].from = w /\ out'[i].seq = returned[w] + 1
        BY <2>2, <1>c, <1>e
      <3>2. returned[w] \in 1..Through(w)
        BY <3>1, <1>d, <1>i
      <3>3. PICK j \in 1..Len(out) : out[j].from = w /\ out[j].seq = returned[w]
        BY <3>2, <1>a, <1>g DEF LinesInv
      <3> QED BY <2>2, <3>1, <3>3, <1>d, <1>e
    <2> QED BY <2>1, <2>2, <1>e
  <1>7. CutIsDeclared'
    BY <1>a, <1>b DEF CutIsDeclared
  <1> QED BY <1>1, <1>2, <1>3, <1>4, <1>5, <1>6, <1>7 DEF IInv

\* A reader finds the mutex free: nobody is between two assignments.
LEMMA LinesKeeps ==
    ASSUME IInv, lines
    PROVE  IInv'
  <1> USE BoundAssumption, FreeAssumption
  <1>a. /\ TypeOK /\ RoomInv /\ MsgInv /\ LinesInv /\ FlagInv
        /\ FirstLinesInOrder /\ CutIsDeclared
    BY DEF IInv
  <1>b. /\ mu = Free /\ read' = Report
        /\ UNCHANGED <<mu, out, dropped, truncated, pc, msg, returned>>
    BY DEF lines
  <1>c. \A v \in Writers : pc[v] \in {"idle", "lock"} /\ Through(v) = returned[v]
    BY <1>a, <1>b DEF TypeOK, Holds, Through
  <1>d. dropped \in Nat
    BY <1>a DEF TypeOK
  <1>1. ~(truncated \/ dropped > 0) => \A v \in Writers : \A j \in 1..returned[v] :
           [from |-> v, seq |-> j, cut |-> FALSE] \in {out[i] : i \in 1..Len(out)}
    <2> SUFFICES ASSUME ~truncated, dropped = 0, NEW v \in Writers, NEW j \in 1..returned[v]
                 PROVE  \E i \in 1..Len(out) : out[i] = [from |-> v, seq |-> j, cut |-> FALSE]
      BY <1>d
    <2>1. PICK i \in 1..Len(out) : out[i].from = v /\ out[i].seq = j
      BY <1>a, <1>c DEF LinesInv
    <2>2. ~out[i].cut
      BY <1>a DEF FlagInv
    <2>3. /\ out[i] = [from |-> out[i].from, seq |-> out[i].seq, cut |-> out[i].cut]
          /\ out[i].cut \in BOOLEAN
      BY <1>a, LinesTyped
    <2>4. out[i].cut = FALSE
      BY <2>2, <2>3
    <2> QED BY <2>1, <2>3, <2>4
  <1>2. truncated \/ dropped > 0 => Len(out) = Limit \/ \E i \in 1..Len(out) : out[i].cut
    BY <1>a, <1>c DEF FlagInv, RoomInv
  <1>3. CutIsDeclared'
    BY <1>1, <1>2, <1>b DEF CutIsDeclared, Report
  <1>4. /\ TypeOK' /\ RoomInv' /\ MsgInv' /\ LinesInv' /\ FlagInv' /\ FirstLinesInOrder'
    BY <1>a, <1>b DEF TypeOK, RoomInv, MsgInv, LinesInv, FlagInv, FirstLinesInOrder,
                      Holds, Through
  <1> QED BY <1>3, <1>4 DEF IInv

\* Every step keeps the invariant.
LEMMA StepKeeps == IInv /\ [Next]_vars => IInv'
  <1> SUFFICES ASSUME IInv, [Next]_vars PROVE IInv'
    OBVIOUS
  <1>1. ASSUME NEW w \in Writers, Begin(w) \/ Step(w) PROVE IInv'
    BY <1>1, BeginKeeps, LockKeeps, TestKeeps, CutKeeps, StoreKeeps, UnlockKeeps DEF Step
  <1>2. CASE lines
    BY <1>2, LinesKeeps
  <1>3. CASE UNCHANGED vars
    BY <1>3 DEF vars, IInv, TypeOK, RoomInv, MsgInv, LinesInv, FlagInv,
                FirstLinesInOrder, CutIsDeclared, Holds, Through
  <1> QED BY <1>1, <1>2, <1>3 DEF Next, Collect

\* The bookkeeping of the collector holds in every reachable state.
LEMMA CollectorInvariance == Spec => []IInv
  BY InitHolds, StepKeeps, PTL DEF Spec

\* Every variable keeps its type, and the mutex has one holder at most.
THEOREM CollectorTypes == Spec => []TypeOK
  <1>1. IInv => TypeOK
    BY DEF IInv
  <1> QED BY <1>1, CollectorInvariance, PTL

\* However many goroutines print, no more than Limit lines are ever held.
THEOREM NeverOverTheLimit == Spec => []Bounded
  <1>1. IInv => Bounded
    BY DEF IInv, RoomInv, Bounded
  <1> QED BY <1>1, CollectorInvariance, PTL

\* lines() never hides that something is missing, and never says so without cause.
THEOREM CutsAreDeclared == Spec => []CutIsDeclared
  <1>1. IInv => CutIsDeclared
    BY DEF IInv
  <1> QED BY <1>1, CollectorInvariance, PTL

\* What is kept of a goroutine's messages is how they began, in their order.
THEOREM FirstLinesKept == Spec => []FirstLinesInOrder
  <1>1. IInv => FirstLinesInOrder
    BY DEF IInv
  <1> QED BY <1>1, CollectorInvariance, PTL

-----------------------------------------------------------------------------
(* The tracer, which is the collector without lines(). *)

LEMMA TracerInvariance == TracerSpec => []IInv
  <1>1. IInv /\ [Collect]_vars => IInv'
    BY StepKeeps DEF Next
  <1> QED BY InitHolds, <1>1, PTL DEF TracerSpec

\* Nothing is dropped while there is room (tool_opa.go:333-336, 390-393).
DropsOnlyAtLimit == dropped > 0 => Len(out) = Limit

THEOREM NothingIsDroppedEarly ==
    (Spec => []DropsOnlyAtLimit) /\ (TracerSpec => []DropsOnlyAtLimit)
  <1>1. IInv => DropsOnlyAtLimit
    BY DEF IInv, RoomInv, DropsOnlyAtLimit
  <1> QED BY <1>1, CollectorInvariance, TracerInvariance, PTL

\* A limit of 4000 would do for what README.md:92 says of a trace: where a run
\* finds TraceHolds4000 violated, the number is to blame and no interleaving
\* (tool_opa.go:30-33).
THEOREM TheLimitIsToBlame ==
    ASSUME DocumentedEvents <= Limit
    PROVE  TracerSpec => []TraceHolds4000
  <1>1. DropsOnlyAtLimit => TraceHolds4000
    BY DEF DropsOnlyAtLimit, TraceHolds4000
  <1> QED BY <1>1, NothingIsDroppedEarly, PTL

-----------------------------------------------------------------------------
(* Every message is accounted for. *)

\* The messages the goroutines are through with.
Sent == {m \in Writers \X (1..Quota) : m[2] <= Through(m[1])}

\* Every message is one line or one drop: none is lost to a race, none counted
\* twice, though the two counts are kept in two steps of many goroutines
\* (tool_opa.go:330-338, 386-400).
Accounted == Cardinality(Sent) = Len(out) + dropped

\* A step after which each goroutine is through with as many messages as before.
LEMMA SameSent ==
    ASSUME \A w \in Writers : Through(w)' = Through(w)
    PROVE  Sent' = Sent
  BY DEF Sent

\* A step that takes one goroutine through one more message.
LEMMA OneMoreSent ==
    ASSUME IsFiniteSet(Writers), NEW w \in Writers,
           \A v \in Writers : Through(v) \in Nat,
           Through(w) + 1 \in 1..Quota, Through(w)' = Through(w) + 1,
           \A v \in Writers \ {w} : Through(v)' = Through(v)
    PROVE  Cardinality(Sent') = Cardinality(Sent) + 1 /\ Cardinality(Sent) \in Nat
  <1> DEFINE m == <<w, Through(w) + 1>>
  <1>1. IsFiniteSet(Sent)
    <2>1. IsFiniteSet(1..Quota)
      BY BoundAssumption, FS_Interval
    <2>2. IsFiniteSet(Writers \X (1..Quota))
      BY <2>1, FS_Product
    <2>3. Sent \in SUBSET (Writers \X (1..Quota))
      BY DEF Sent
    <2> QED BY <2>2, <2>3, FS_Subset
  <1>2. m \notin Sent
    BY DEF Sent
  <1>3. Sent' = Sent \cup {m}
    <2>1. ASSUME NEW x \in Writers \X (1..Quota)
          PROVE  x[2] <= Through(x[1])' <=> x[2] <= Through(x[1]) \/ x = m
      <3>1. PICK v \in Writers, j \in 1..Quota : x = <<v, j>>
        OBVIOUS
      <3>2. CASE v = w
        BY <3>1, <3>2
      <3>3. CASE v # w
        BY <3>1, <3>3
      <3> QED BY <3>2, <3>3
    <2>2. m \in Writers \X (1..Quota)
      OBVIOUS
    <2> HIDE DEF m
    <2> QED BY <2>1, <2>2 DEF Sent
  <1>4. Cardinality(Sent) \in Nat
    BY <1>1, FS_CardinalityType
  <1> HIDE DEF m
  <1> QED BY <1>1, <1>2, <1>3, <1>4, FS_AddElement

\* Entering, cutting, leaving and reading take no message anywhere.
LEMMA QuietSteps ==
    ASSUME IInv, NEW w \in Writers, Begin(w) \/ Lock(w) \/ Cut(w) \/ Unlock(w)
    PROVE  Sent' = Sent /\ Len(out)' = Len(out) /\ dropped' = dropped
  <1>1. \A v \in Writers : Through(v)' = Through(v)
    BY DEF IInv, TypeOK, Begin, Lock, Cut, Unlock, Goto, Through
  <1> QED BY <1>1, SameSent DEF Begin, Lock, Cut, Unlock

\* Storing takes a goroutine through its message, and so does dropping.
LEMMA CountingSteps ==
    ASSUME IsFiniteSet(Writers), IInv, Accounted, NEW w \in Writers, Store(w) \/ Test(w)
    PROVE  Accounted'
  <1>1. /\ out \in Seq(LineSet) /\ dropped \in Nat
        /\ \A v \in Writers : returned[v] \in Nat
        /\ pc \in [Writers -> {"idle", "lock", "test", "cut", "append", "unlock"}]
    BY DEF IInv, TypeOK
  <1>2. \A v \in Writers : Through(v) \in Nat
    <2> TAKE v \in Writers
    <2>1. returned[v] \in Nat /\ returned[v] + 1 \in Nat
      BY <1>1
    <2> QED BY <2>1 DEF Through
  <1>3. pc[w] \in {"append", "test"}
    BY DEF Store, Test
  <1>4. Through(w) + 1 \in 1..Quota
    <2>1. msg[w] \in Message /\ msg[w].seq = returned[w] + 1
      BY <1>3 DEF IInv, MsgInv
    <2> QED BY <1>3, <2>1 DEF Message, Through
  <1>5. ASSUME Through(w)' = Through(w) + 1,
               \A v \in Writers \ {w} : Through(v)' = Through(v),
               Len(out') + dropped' = Len(out) + dropped + 1
        PROVE  Accounted'
    BY <1>2, <1>4, <1>5, OneMoreSent DEF Accounted
  <1>6. CASE Store(w)
    <2>1. /\ out' = Append(out, Line(msg[w])) /\ dropped' = dropped
          /\ pc[w] = "append" /\ pc' = [pc EXCEPT ![w] = "unlock"] /\ returned' = returned
      BY <1>6 DEF Store, Goto
    <2>2. Len(out') = Len(out) + 1
      BY <1>1, <2>1
    <2>3. Through(w)' = Through(w) + 1 /\ \A v \in Writers \ {w} : Through(v)' = Through(v)
      BY <1>1, <2>1 DEF Through
    <2>4. Len(out) \in Nat
      BY <1>1
    <2> QED BY <1>1, <1>5, <2>1, <2>2, <2>3, <2>4
  <1>7. CASE Test(w) /\ Len(out) >= Limit
    <2>1. /\ out' = out /\ dropped' = dropped + 1
          /\ pc[w] = "test" /\ pc' = [pc EXCEPT ![w] = "unlock"] /\ returned' = returned
      BY <1>7 DEF Test, Goto
    <2>2. Through(w)' = Through(w) + 1 /\ \A v \in Writers \ {w} : Through(v)' = Through(v)
      BY <1>1, <2>1 DEF Through
    <2>3. Len(out) \in Nat
      BY <1>1
    <2> QED BY <1>1, <1>5, <2>1, <2>2, <2>3
  <1>8. CASE Test(w) /\ ~(Len(out) >= Limit)
    <2>1. /\ out' = out /\ dropped' = dropped
          /\ pc[w] = "test" /\ pc' = [pc EXCEPT ![w] = "cut"] /\ returned' = returned
      BY <1>8 DEF Test, Goto
    <2>2. \A v \in Writers : Through(v)' = Through(v)
      BY <1>1, <2>1 DEF Through
    <2> QED BY <2>1, <2>2, SameSent DEF Accounted
  <1> QED BY <1>6, <1>7, <1>8

\* Whatever the interleaving of finitely many goroutines, lines and drops add up
\* to the messages they are through with.
THEOREM EveryMessageIsAccountedFor ==
    ASSUME IsFiniteSet(Writers)
    PROVE  (Spec => []Accounted) /\ (TracerSpec => []Accounted)
  <1>1. Init => Accounted
    <2> SUFFICES ASSUME Init PROVE Accounted
      OBVIOUS
    <2>1. Sent = {}
      BY DEF Init, Sent, Through
    <2>2. out = <<>> /\ dropped = 0
      BY DEF Init
    <2> QED BY <2>1, <2>2, FS_EmptySet DEF Accounted
  <1>2. IInv /\ Accounted /\ [Next]_vars => Accounted'
    <2> SUFFICES ASSUME IInv, Accounted, [Next]_vars PROVE Accounted'
      OBVIOUS
    <2>1. ASSUME NEW w \in Writers, Begin(w) \/ Lock(w) \/ Cut(w) \/ Unlock(w)
          PROVE  Accounted'
      BY <2>1, QuietSteps DEF Accounted
    <2>2. ASSUME NEW w \in Writers, Store(w) \/ Test(w) PROVE Accounted'
      BY <2>2, CountingSteps
    <2>3. CASE lines \/ UNCHANGED vars
      <3>1. UNCHANGED <<out, dropped, pc, returned>>
        BY <2>3 DEF lines, vars
      <3>2. \A w \in Writers : Through(w)' = Through(w)
        BY <3>1 DEF Through
      <3> QED BY <3>1, <3>2, SameSent DEF Accounted
    <2> QED BY <2>1, <2>2, <2>3 DEF Next, Collect, Step
  <1>3. IInv /\ Accounted /\ [Collect]_vars => Accounted'
    BY <1>2 DEF Next
  <1> QED BY <1>1, <1>2, <1>3, CollectorInvariance, TracerInvariance, PTL DEF Spec, TracerSpec

-----------------------------------------------------------------------------
(* The collector implements BoundedLog. *)

\* A message is stored: the log keeps it, and loses what was cut from it.
LEMMA StoreIsKeep ==
    ASSUME IInv, NEW w \in Writers, Store(w)
    PROVE  Log!Keep(msg[w]) /\ msg[w] \in Message
  <1> USE BoundAssumption
  <1> DEFINE l == Line(msg[w])
  <1>a. TypeOK /\ RoomInv /\ MsgInv
    BY DEF IInv
  <1>b. pc[w] = "append" /\ out' = Append(out, l) /\ dropped' = dropped
    BY DEF Store
  <1>c. msg[w] \in Message /\ l \in LineSet
    BY <1>a, <1>b DEF MsgInv, Message, Line, LineSet
  <1>d. Len(out) < Limit
    BY <1>a, <1>b DEF RoomInv
  <1>e. /\ Len(out) \in Nat /\ Len(out') = Len(out) + 1
        /\ out'[Len(out) + 1] = l
        /\ \A i \in 1..Len(out) : out'[i] = out[i]
    <2>1. out \in Seq(LineSet)
      BY <1>a DEF TypeOK
    <2> HIDE DEF l
    <2> QED BY <1>b, <1>c, <2>1
  <1>f. l = Log!Line(msg[w])
    BY DEF Line, Log!Line
  <1> HIDE DEF l
  <1>1. Lost' <=> Lost \/ l.cut
    BY <1>b, <1>e DEF Lost
  <1>2. l.cut \in BOOLEAN
    BY <1>c DEF LineSet
  <1>3. Lost' = (Lost \/ l.cut)
    BY <1>1, <1>2 DEF Lost
  <1> QED BY <1>b, <1>c, <1>d, <1>f, <1>3 DEF Log!Keep, Lost

\* A message finds no room and is dropped: the log loses it.
LEMMA TestIsLose ==
    ASSUME IInv, NEW w \in Writers, Test(w)
    PROVE  Log!Lose \/ UNCHANGED <<out, Lost>>
  <1> USE BoundAssumption
  <1>a. TypeOK /\ RoomInv
    BY DEF IInv
  <1>b. out' = out
    BY DEF Test
  <1>1. CASE Len(out) >= Limit
    <2>1. Len(out) = Limit
      BY <1>1, <1>a DEF RoomInv, TypeOK
    <2>2. dropped' > 0
      BY <1>1, <1>a DEF Test, TypeOK
    <2> QED BY <1>b, <2>1, <2>2 DEF Log!Lose, Lost
  <1>2. CASE ~(Len(out) >= Limit)
    BY <1>2, <1>b DEF Test, Lost
  <1> QED BY <1>1, <1>2

\* Every step is one of the log's, or none.
LEMMA StepIsLogStep ==
    ASSUME IInv, [Next]_vars
    PROVE  [Log!Next]_<<out, Lost>>
  <1>1. ASSUME NEW w \in Writers, Store(w) PROVE Log!Next
    <2>1. msg[w] \in Message /\ Log!Keep(msg[w])
      BY <1>1, StoreIsKeep
    <2>2. \E m \in Message : Log!Keep(m)
      BY <2>1 DEF Log!Keep
    <2> QED BY <2>2 DEF Log!Next
  <1>2. ASSUME NEW w \in Writers, Test(w) PROVE [Log!Next]_<<out, Lost>>
    BY <1>2, TestIsLose DEF Log!Next
  <1>3. ASSUME NEW w \in Writers, Begin(w) \/ Lock(w) \/ Cut(w) \/ Unlock(w)
        PROVE  UNCHANGED <<out, Lost>>
    BY <1>3 DEF Begin, Lock, Cut, Unlock, Lost
  <1>4. CASE lines \/ UNCHANGED vars
    BY <1>4 DEF lines, vars, Lost
  <1> QED BY <1>1, <1>2, <1>3, <1>4 DEF Next, Collect, Step

\* Goroutines that share a mutex are, together, one log that takes each message
\* at one moment (tool_opa.go:366-399).
THEOREM ImplementsBoundedLog == Spec => IsBoundedLog
  <1>1. Init => Log!Init
    BY DEF Init, Log!Init, Lost
  <1>2. IInv /\ [Next]_vars => [Log!Next]_<<out, Lost>>
    BY StepIsLogStep
  <1> QED BY <1>1, <1>2, CollectorInvariance, PTL DEF Spec, IsBoundedLog, Log!Spec
=============================================================================
