---------------------------- MODULE PDPURLProofs ----------------------------
(***************************************************************************)
(* Where chained calls go, for any mounts, configured URLs and made-up URLs. *)
(***************************************************************************)
EXTENDS PDPURL, TLAPS

(* Paths. *)

LEMMA EndpointList ==
    /\ Len(EndpointPaths) = 3 /\ DOMAIN EndpointPaths = 1..3
    /\ \A i \in 1..3 : EndpointPaths[i] \in Seq(Segments) /\ Len(EndpointPaths[i]) > 0
    /\ EndpointPaths[1] = pathEvaluations /\ EndpointPaths[2] = pathEvaluation
    /\ EndpointPaths[3] = pathMetadata
  <1>1. /\ Len(EndpointPaths) = 3 /\ DOMAIN EndpointPaths = 1..3
        /\ EndpointPaths[1] = pathEvaluations /\ EndpointPaths[2] = pathEvaluation
        /\ EndpointPaths[3] = pathMetadata
    BY DEF EndpointPaths
  <1>2. pathEvaluations \in Seq(Segments) /\ Len(pathEvaluations) = 3
    BY SegmentAssumption DEF pathEvaluations
  <1>3. pathEvaluation \in Seq(Segments) /\ Len(pathEvaluation) = 3
    BY SegmentAssumption DEF pathEvaluation
  <1>4. pathMetadata \in Seq(Segments) /\ Len(pathMetadata) = 2
    BY SegmentAssumption DEF pathMetadata
  <1>5. \A i \in 1..3 : i = 1 \/ i = 2 \/ i = 3
    OBVIOUS
  <1> QED BY <1>1, <1>2, <1>3, <1>4, <1>5

LEMMA EndpointEnds ==
    /\ Last(EndpointPaths[1]) = "evaluations" /\ Last(EndpointPaths[2]) = "evaluation"
    /\ Last(EndpointPaths[3]) = "authzen-configuration"
  <1>1. Last(pathEvaluations) = "evaluations"
    BY DEF pathEvaluations, Last
  <1>2. Last(pathEvaluation) = "evaluation"
    BY DEF pathEvaluation, Last
  <1>3. Last(pathMetadata) = "authzen-configuration"
    BY DEF pathMetadata, Last
  <1> QED BY <1>1, <1>2, <1>3, EndpointList

\* No two endpoint paths end alike, and none ends in a slash.
LEMMA EndsDiffer ==
    \A i, j \in 1..3 : Last(EndpointPaths[i]) = Last(EndpointPaths[j]) => i = j
  <1>1. \A i \in 1..3 : i = 1 \/ i = 2 \/ i = 3
    OBVIOUS
  <1> QED BY <1>1, EndpointEnds

LEMMA NoEndpointEndsInSlash == \A i \in 1..3 : Last(EndpointPaths[i]) # ""
  <1>1. \A i \in 1..3 : i = 1 \/ i = 2 \/ i = 3
    OBVIOUS
  <1> QED BY <1>1, EndpointEnds, Zenon

LEMMA Appended ==
    ASSUME NEW m \in Seq(Segments), NEW x \in Segments
    PROVE  /\ Append(m, x) \in Seq(Segments) /\ Append(m, x) # <<>>
           /\ Last(Append(m, x)) = x /\ Front(Append(m, x)) = m
  <1> DEFINE p == Append(m, x)
  <1>1. /\ p \in Seq(Segments) /\ Len(p) = Len(m) + 1 /\ p[Len(p)] = x
        /\ \A i \in 1..Len(m) : p[i] = m[i]
    OBVIOUS
  <1> HIDE DEF p
  <1>2. Len(m) \in Nat /\ Len(p) - 1 = Len(m)
    BY <1>1
  <1>3. Front(p) = SubSeq(p, 1, Len(m))
    BY <1>2 DEF Front
  <1>4. /\ SubSeq(p, 1, Len(m)) \in Seq(Segments) /\ Len(SubSeq(p, 1, Len(m))) = Len(m)
        /\ \A i \in 1..Len(m) : SubSeq(p, 1, Len(m))[i] = m[i]
    BY <1>1, <1>2
  <1>5. Front(p) = m
    BY <1>3, <1>4
  <1>6. p # <<>>
    BY <1>1, <1>2
  <1> QED BY <1>1, <1>5, <1>6 DEF Last, p

LEMMA Joined ==
    ASSUME NEW m \in Seq(Segments), NEW e \in Seq(Segments)
    PROVE  /\ m \o e \in Seq(Segments) /\ Len(m \o e) = Len(m) + Len(e)
           /\ SubSeq(m \o e, 1, Len(m \o e) - Len(e)) = m
           /\ Len(e) > 0 => Last(m \o e) = Last(e)
  BY DEF Last

\* A suffix ends as the path does.
LEMMA SuffixEnds ==
    ASSUME NEW e \in Seq(Segments), Len(e) > 0, NEW p \in Seq(Segments), IsSuffix(e, p)
    PROVE  Len(e) <= Len(p) /\ Last(e) = Last(p)
  <1>1. /\ Reverse(e) \in Seq(Segments) /\ Len(Reverse(e)) = Len(e) /\ Reverse(e)[1] = Last(e)
    BY DEF Reverse, Last
  <1>2. Len(e) <= Len(Reverse(p)) /\ SubSeq(Reverse(e), 1, Len(e)) = SubSeq(Reverse(p), 1, Len(e))
    BY <1>1 DEF IsSuffix, IsPrefix
  <1>3. Reverse(p) \in Seq(Segments) /\ Len(Reverse(p)) = Len(p)
        /\ (Len(p) > 0 => Reverse(p)[1] = Last(p))
    BY DEF Reverse, Last
  <1>4. Len(e) \in Nat /\ Len(p) \in Nat /\ Len(e) <= Len(p)
    BY <1>2, <1>3
  <1>5. SubSeq(Reverse(e), 1, Len(e))[1] = Reverse(e)[1]
    BY <1>1, <1>4
  <1>6. SubSeq(Reverse(p), 1, Len(e))[1] = Reverse(p)[1]
    BY <1>3, <1>4
  <1> QED BY <1>1, <1>2, <1>3, <1>4, <1>5, <1>6

LEMMA JoinedIsSuffix ==
    ASSUME NEW m \in Seq(Segments), NEW e \in Seq(Segments)
    PROVE  IsSuffix(e, m \o e)
  <1> DEFINE p == m \o e
  <1>1. p \in Seq(Segments) /\ Len(p) = Len(m) + Len(e)
        /\ \A i \in 1..Len(e) : p[Len(p) - i + 1] = e[Len(e) - i + 1]
    OBVIOUS
  <1> HIDE DEF p
  <1>2. /\ Reverse(e) \in Seq(Segments) /\ Len(Reverse(e)) = Len(e)
        /\ Reverse(p) \in Seq(Segments) /\ Len(Reverse(p)) = Len(p)
        /\ \A i \in 1..Len(e) : Reverse(e)[i] = e[Len(e) - i + 1]
        /\ \A i \in 1..Len(p) : Reverse(p)[i] = p[Len(p) - i + 1]
    BY <1>1 DEF Reverse
  <1>3. Len(e) \in Nat /\ Len(m) \in Nat /\ Len(p) \in Nat /\ Len(e) <= Len(p)
    BY <1>1
  <1>4. /\ SubSeq(Reverse(e), 1, Len(e)) \in Seq(Segments)
        /\ SubSeq(Reverse(p), 1, Len(e)) \in Seq(Segments)
        /\ Len(SubSeq(Reverse(e), 1, Len(e))) = Len(e)
        /\ Len(SubSeq(Reverse(p), 1, Len(e))) = Len(e)
    BY <1>2, <1>3
  <1>5. \A i \in 1..Len(e) :
          SubSeq(Reverse(e), 1, Len(e))[i] = SubSeq(Reverse(p), 1, Len(e))[i]
    BY <1>1, <1>2, <1>3
  <1>6. SubSeq(Reverse(e), 1, Len(e)) = SubSeq(Reverse(p), 1, Len(e))
    BY <1>4, <1>5
  <1> QED BY <1>2, <1>3, <1>6 DEF IsSuffix, IsPrefix, p

LEMMA MountKept == \A m \in Mounts : m \in Seq(Segments) /\ TrimSlash(m) = m
  BY MountAssumption, Zenon DEF TrimSlash

\* Of an endpoint, what is left is its mount: no endpoint path ends another.
LEMMA EndpointStripped ==
    ASSUME NEW m \in Seq(Segments), NEW i \in 1..3
    PROVE  StripEndpoint(m \o EndpointPaths[i]) = m
  <1> DEFINE p == m \o EndpointPaths[i]
             known == {j \in DOMAIN EndpointPaths : IsSuffix(EndpointPaths[j], p)}
  <1>1. EndpointPaths[i] \in Seq(Segments) /\ Len(EndpointPaths[i]) > 0
    BY EndpointList
  <1>2. p \in Seq(Segments) /\ Last(p) = Last(EndpointPaths[i])
        /\ SubSeq(p, 1, Len(p) - Len(EndpointPaths[i])) = m
    BY <1>1, Joined
  <1>3. IsSuffix(EndpointPaths[i], p)
    BY <1>1, JoinedIsSuffix
  <1> HIDE DEF p
  <1>4. \A j \in known : j = i
    BY <1>2, EndpointList, EndsDiffer, SuffixEnds
  <1>5. known = {i}
    BY <1>3, <1>4, EndpointList
  <1>6. Min({i}) = i
    BY DEF Min
  <1>7. StripEndpoint(p) = TrimSuffix(p, EndpointPaths[i])
    <2>1. StripEndpoint(p) = IF known = {} THEN p ELSE TrimSuffix(p, EndpointPaths[Min(known)])
      BY DEF StripEndpoint
    <2> HIDE DEF known
    <2> QED BY <1>5, <1>6, <2>1
  <1> QED BY <1>2, <1>3, <1>7 DEF TrimSuffix, p

LEMMA NothingStripped ==
    ASSUME NEW p, \A i \in DOMAIN EndpointPaths : ~IsSuffix(EndpointPaths[i], p)
    PROVE  StripEndpoint(p) = p
  BY DEF StripEndpoint

\* Whatever it is meant by, the root of a PDP is its mount.
LEMMA RootIsMount ==
    ASSUME NEW m \in Mounts, NEW p, Means(m, p)
    PROVE  TrimSlash(StripEndpoint(p)) = m /\ p \in Seq(Segments)
  <1>0. m \in Seq(Segments) /\ TrimSlash(m) = m
    BY MountKept
  <1>1. CASE \E i \in DOMAIN EndpointPaths : p = m \o EndpointPaths[i]
    <2>1. PICK i \in 1..3 : p = m \o EndpointPaths[i]
      BY <1>1, EndpointList
    <2>2. StripEndpoint(p) = m /\ p \in Seq(Segments)
      BY <1>0, <2>1, EndpointStripped, EndpointList, Joined
    <2> QED BY <1>0, <2>2
  <1>2. CASE p = m /\ \A i \in DOMAIN EndpointPaths : ~IsSuffix(EndpointPaths[i], m)
    BY <1>0, <1>2, NothingStripped
  <1>3. CASE p = Append(m, "")
    <2> DEFINE slash == ""
    <2>1. slash \in Segments
      BY SlashAssumption, Zenon
    <2>p. p = Append(m, slash)
      BY <1>3, Zenon
    <2>2. \A i \in 1..3 : Last(EndpointPaths[i]) # slash
      BY NoEndpointEndsInSlash
    <2>3. TrimSlash(p) = IF p # <<>> /\ Last(p) = slash THEN Front(p) ELSE p
      BY Zenon DEF TrimSlash
    <2> HIDE DEF slash
    <2>4. p \in Seq(Segments) /\ TrimSlash(p) = m /\ Last(p) = slash
      BY <1>0, <2>1, <2>p, <2>3, Appended
    <2>5. \A i \in DOMAIN EndpointPaths : ~IsSuffix(EndpointPaths[i], p)
      BY <2>2, <2>4, EndpointList, SuffixEnds
    <2> QED BY <2>4, <2>5, NothingStripped
  <1> QED BY <1>1, <1>2, <1>3 DEF Means

LEMMA EndpointMeans ==
    ASSUME NEW m \in Mounts
    PROVE  /\ Means(m, m \o pathEvaluations) /\ Means(m, m \o pathEvaluation)
           /\ Means(m, m \o pathMetadata)
  <1>1. \A i \in DOMAIN EndpointPaths : Means(m, m \o EndpointPaths[i])
    BY Zenon DEF Means
  <1> QED BY <1>1, EndpointList

\* What is cut off a path leaves a path.
LEMMA PathsStayPaths ==
    ASSUME NEW p \in Seq(Segments)
    PROVE  TrimSlash(p) \in Seq(Segments) /\ StripEndpoint(p) \in Seq(Segments)
  <1>1. (TrimSlash(p) = Front(p) /\ p # <<>>) \/ TrimSlash(p) = p
    BY Zenon DEF TrimSlash
  <1>2. p # <<>> => Front(p) \in Seq(Segments)
    BY DEF Front
  <1>3. \A e \in Seq(Segments) : TrimSuffix(p, e) \in Seq(Segments)
    <2> TAKE e \in Seq(Segments)
    <2>1. Len(p) \in Nat /\ Len(e) \in Nat /\ Len(p) - Len(e) <= Len(p)
      OBVIOUS
    <2>2. \A n \in Int : n <= Len(p) => SubSeq(p, 1, n) \in Seq(Segments)
      OBVIOUS
    <2> QED BY <2>1, <2>2 DEF TrimSuffix
  <1> DEFINE known == {j \in DOMAIN EndpointPaths : IsSuffix(EndpointPaths[j], p)}
  <1>4. StripEndpoint(p) = IF known = {} THEN p ELSE TrimSuffix(p, EndpointPaths[Min(known)])
    BY DEF StripEndpoint
  <1>5. known # {} => Min(known) \in 1..3
    <2>1. known \subseteq 1..3
      BY EndpointList
    <2> HIDE DEF known
    <2>2. ASSUME known # {} PROVE \E x \in known : \A y \in known : x <= y
      <3>1. \A x \in known : x = 1 \/ x = 2 \/ x = 3
        BY <2>1
      <3> QED BY <2>2, <3>1
    <2> QED BY <2>1, <2>2 DEF Min
  <1> HIDE DEF known
  <1> QED BY <1>1, <1>2, <1>3, <1>4, <1>5, EndpointList

-----------------------------------------------------------------------------
(* URLs. *)

SameHost(v, u) == v.scheme = u.scheme /\ v.host = u.host /\ v.user = u.user

LEMMA SameHostSameValidity ==
    ASSUME NEW u, NEW v, SameHost(v, u)
    PROVE  Valid(u) <=> Valid(v)
  BY Zenon DEF SameHost, Valid

LEMMA ValidMeans ==
    ASSUME NEW u, Valid(u)
    PROVE  u.scheme \in {"http", "https"} /\ u.host # "" /\ ~u.user
  BY Zenon DEF Valid

LEMMA NoURLIsInvalid == ~Valid(NoURL)
  <1>1. NoURL.scheme = "" /\ NoURL.host = ""
    BY Zenon DEF NoURL
  <1> QED BY <1>1, ValidMeans, Zenon

LEMMA WithPathKeeps ==
    ASSUME NEW u \in URLs, NEW p \in Seq(Segments)
    PROVE  /\ WithPath(u, p) \in URLs /\ SameHost(WithPath(u, p), u)
           /\ WithPath(u, p).path = p
  BY DEF URLs, WithPath, SameHost

\* An endpoint is derived on the host of its URL and, at the configured PDP, under
\* the mount.
LEMMA Resolved ==
    ASSUME NEW m \in Mounts, NEW u \in URLs, NEW q \in Seq(Segments)
    PROVE  LET v == resolveFromRoot(rootOf(u), q)
           IN  /\ v \in URLs /\ SameHost(v, u)
               /\ Means(m, u.path) => v.path = m \o q
  <1> DEFINE r == TrimSlash(StripEndpoint(u.path))
             w == WithPath(u, r)
             s == TrimSlash(r) \o q
             v == WithPath(w, s)
  <1>1. u.path \in Seq(Segments)
    BY DEF URLs
  <1>2. r \in Seq(Segments)
    BY <1>1, PathsStayPaths
  <1>3. Means(m, u.path) => r = m
    BY RootIsMount
  <1> HIDE DEF r
  <1>4. w \in URLs /\ SameHost(w, u) /\ w.path = r
    BY <1>2, WithPathKeeps
  <1> HIDE DEF w
  <1>5. TrimSlash(r) \in Seq(Segments)
    BY <1>2, PathsStayPaths
  <1>6. s \in Seq(Segments) /\ (r = m => s = m \o q)
    BY <1>5, MountKept, Joined
  <1> HIDE DEF s
  <1>7. v \in URLs /\ SameHost(v, w) /\ v.path = s
    BY <1>4, <1>6, WithPathKeeps
  <1>8. v = resolveFromRoot(rootOf(u), q)
    <2>1. rootOf(u) = w
      BY DEF rootOf, r, w
    <2>2. resolveFromRoot(rootOf(u), q) = WithPath(w, TrimSlash(w.path) \o q)
      BY <2>1 DEF resolveFromRoot
    <2> QED BY <1>4, <2>2 DEF v, s
  <1> HIDE DEF v
  <1>9. SameHost(v, u)
    BY <1>4, <1>7 DEF SameHost
  <1> QED BY <1>3, <1>6, <1>7, <1>8, <1>9

\* A path cut by a slash and grown by two segments or more is another path.
LEMMA LongerPath ==
    ASSUME NEW r \in Seq(Segments), NEW q \in Seq(Segments), Len(q) >= 2
    PROVE  TrimSlash(r) \o q # r
  <1>1. (TrimSlash(r) = Front(r) /\ r # <<>>) \/ TrimSlash(r) = r
    BY Zenon DEF TrimSlash
  <1>2. ASSUME r # <<>> PROVE Front(r) \in Seq(Segments) /\ Len(Front(r)) = Len(r) - 1
    <2>1. Len(r) \in Nat /\ Len(r) # 0
      BY <1>2
    <2>2. Len(r) - 1 \in 0..Len(r)
      BY <2>1
    <2>3. \A n \in 0..Len(r) : SubSeq(r, 1, n) \in Seq(Segments) /\ Len(SubSeq(r, 1, n)) = n
      OBVIOUS
    <2> QED BY <2>2, <2>3 DEF Front
  <1>3. TrimSlash(r) \in Seq(Segments) /\ Len(TrimSlash(r)) >= Len(r) - 1
    BY <1>1, <1>2
  <1> DEFINE t == TrimSlash(r)
  <1>4. t \in Seq(Segments) /\ Len(t) >= Len(r) - 1
    BY <1>3
  <1> HIDE DEF t
  <1>5. Len(t \o q) = Len(t) + Len(q)
    BY <1>4
  <1>6. Len(t \o q) # Len(r)
    BY <1>4, <1>5
  <1> QED BY <1>6 DEF t

\* A derived endpoint has a path of its own, so it never has the spelling of the
\* URL it is derived from.
LEMMA ResolvedSpelling ==
    ASSUME NEW u \in URLs, NEW q \in Seq(Segments), Len(q) >= 2
    PROVE  ~resolveFromRoot(rootOf(u), q).escaped
  <1> DEFINE r == TrimSlash(StripEndpoint(u.path))
             w == WithPath(u, r)
             s == TrimSlash(r) \o q
  <1>1. u.path \in Seq(Segments)
    BY DEF URLs
  <1>2. r \in Seq(Segments)
    BY <1>1, PathsStayPaths
  <1>3. s # r
    BY <1>2, LongerPath
  <1>4. rootOf(u) = w
    BY DEF rootOf, r, w
  <1> HIDE DEF r
  <1>5. w \in URLs /\ w.path = r
    BY <1>2, WithPathKeeps
  <1>6. resolveFromRoot(rootOf(u), q) = WithPath(w, s)
    BY <1>4, <1>5 DEF resolveFromRoot
  <1> HIDE DEF w, s
  <1>7. WithPath(w, s).escaped = (w.escaped /\ s = w.path)
    BY <1>5 DEF WithPath, URLs
  <1> QED BY <1>3, <1>5, <1>6, <1>7

-----------------------------------------------------------------------------
(* The invariant. *)

Tools == {"evaluate", "batch", "discover"}

\* At the configured host, a URL that passes validation is one of the PDP's.
AtHome(u) == Valid(u) /\ u.host = config.host => Means(mount, u.path)

SessionInv ==
    /\ mount \in Mounts /\ config \in URLs /\ AtHome(config)
    /\ \A u \in seen : u \in URLs /\ AtHome(u)
    /\ \A u \in seen \ Offered : Valid(u)

MetadataOr(tool) == IF tool = "discover" THEN pathMetadata ELSE pathEvaluations

CallInv ==
    /\ call.tool \in Tools \cup {"none"}
    /\ Sent => /\ call.url \in URLs /\ Valid(call.url)
               /\ call.url.host = Override(call.override).host
               /\ Derived => ~call.url.escaped
               /\ call.url.host = config.host /\ Derived =>
                      call.url.path = mount \o MetadataOr(call.tool)

Inv == SessionInv /\ CallInv

\* Init meets the invariant.
LEMMA InitInv == Init => Inv
  <1> SUFFICES ASSUME Init PROVE Inv
    OBVIOUS
  <1>1. PICK c \in Configured : mount = c.mount /\ config = c.url
    BY DEF Init
  <1>2. seen = Offered /\ call = [tool |-> "none", override |-> NoURL, url |-> NoURL]
    BY Zenon DEF Init
  <1>3. mount \in Mounts /\ config \in URLs /\ (config = NoURL \/ Means(mount, config.path))
    BY <1>1, ConfiguredAssumption
  <1>4. AtHome(config)
    BY <1>3, NoURLIsInvalid DEF AtHome
  <1>5. ASSUME NEW u \in seen PROVE u \in URLs /\ AtHome(u)
    <2>1. u \in URLs /\ (u.host = config.host =>
                            u.host = "" \/ u.user \/ Means(mount, u.path))
      BY <1>1, <1>2, <1>5, OfferedAssumption, Zenon
    <2>2. AtHome(u)
      BY <2>1, ValidMeans, Zenon DEF AtHome
    <2> QED BY <2>1, <2>2
  <1>6. call.tool = "none" /\ call.url = NoURL
    BY <1>2
  <1>7. SessionInv
    BY <1>2, <1>3, <1>4, <1>5 DEF SessionInv
  <1> QED BY <1>6, <1>7 DEF Inv, CallInv, Sent

\* Where a call goes that is not refused.
LEMMA WhereCallsGo ==
    ASSUME SessionInv, NEW tool \in Tools, NEW u \in seen \cup {NoURL},
           Override(u) # NoURL, Valid(Override(u))
    PROVE  LET v == Endpoint(tool, u)
           IN  /\ v \in URLs /\ SameHost(v, Override(u)) /\ AtHome(v)
               /\ tool = "discover" \/ (tool = "batch" /\ u = NoURL) =>
                    /\ ~v.escaped
                    /\ v.host = config.host => v.path = mount \o MetadataOr(tool)
  <1> DEFINE o == Override(u)
             v == Endpoint(tool, u)
  <1>1. o \in URLs /\ AtHome(o) /\ Valid(o) /\ (u # NoURL => o = u) /\ (u = NoURL => o = config)
    BY DEF SessionInv, Override
  <1>2. /\ pathMetadata \in Seq(Segments) /\ pathEvaluations \in Seq(Segments)
        /\ Len(pathMetadata) >= 2 /\ Len(pathEvaluations) >= 2
    <2>1. Len(pathMetadata) >= 2
      BY SMT DEF pathMetadata
    <2>2. Len(pathEvaluations) >= 2
      BY SMT DEF pathEvaluations
    <2> QED BY EndpointList, <2>1, <2>2
  <1>3. mount \in Mounts /\ config \in URLs
    BY DEF SessionInv
  <1>4. o.host = config.host => Means(mount, o.path)
    BY <1>1 DEF AtHome
  <1>e. \/ tool = "discover" /\ v = resolveFromRoot(rootOf(o), pathMetadata)
        \/ tool = "batch" /\ u = NoURL /\ v = resolveFromRoot(rootOf(o), pathEvaluations)
        \/ tool # "discover" /\ ~(tool = "batch" /\ u = NoURL) /\ v = o
    <2>1. CASE tool = "discover"
      BY <2>1 DEF Endpoint
    <2>2. CASE tool = "batch" /\ u = NoURL
      BY <1>1, <2>2 DEF Endpoint, batchEndpointFrom
    <2>3. CASE tool = "batch" /\ u # NoURL
      BY <1>1, <2>3 DEF Endpoint
    <2>4. CASE tool = "evaluate"
      BY <2>4 DEF Endpoint
    <2> QED BY <2>1, <2>2, <2>3, <2>4 DEF Tools
  <1> HIDE DEF v, o
  <1>5. ASSUME NEW q \in {pathMetadata, pathEvaluations},
               v = resolveFromRoot(rootOf(o), q)
        PROVE  /\ v \in URLs /\ SameHost(v, o) /\ AtHome(v) /\ ~v.escaped
               /\ v.host = config.host => v.path = mount \o q
    <2>1. v \in URLs /\ SameHost(v, o) /\ (Means(mount, o.path) => v.path = mount \o q)
      BY <1>1, <1>2, <1>3, <1>5, Resolved
    <2>2. v.host = config.host => v.path = mount \o q
      BY <1>4, <2>1 DEF SameHost
    <2>3. Means(mount, mount \o q)
      BY <1>3, EndpointMeans
    <2>4. ~v.escaped
      BY <1>1, <1>2, <1>5, ResolvedSpelling
    <2> QED BY <2>1, <2>2, <2>3, <2>4 DEF AtHome
  <1>6. CASE tool = "discover" /\ v = resolveFromRoot(rootOf(o), pathMetadata)
    BY <1>5, <1>6 DEF o, v, MetadataOr
  <1>7. CASE tool = "batch" /\ u = NoURL /\ v = resolveFromRoot(rootOf(o), pathEvaluations)
    BY <1>5, <1>7 DEF o, v, MetadataOr
  <1>8. CASE tool # "discover" /\ ~(tool = "batch" /\ u = NoURL) /\ v = o
    BY <1>1, <1>8 DEF o, v, SameHost
  <1> QED BY <1>e, <1>6, <1>7, <1>8

\* A call keeps the invariant: what it shows is as much at home as what it used.
LEMMA CallKeeps ==
    ASSUME Inv, NEW tool \in Tools, NEW u \in seen \cup {NoURL}, Call(tool, u)
    PROVE  Inv'
  <1> DEFINE v == Endpoint(tool, u)
  <1>0. SessionInv /\ mount \in Mounts
    BY DEF Inv, SessionInv
  <1>1. /\ Override(u) # NoURL /\ Valid(Override(u))
        /\ seen' = seen \cup Shown(tool, v) /\ mount' = mount /\ config' = config
        /\ call'.tool = tool /\ call'.override = u /\ call'.url = v
    BY DEF Call
  <1>2. /\ v \in URLs /\ SameHost(v, Override(u)) /\ AtHome(v)
        /\ tool = "discover" \/ (tool = "batch" /\ u = NoURL) =>
             /\ ~v.escaped
             /\ v.host = config.host => v.path = mount \o MetadataOr(tool)
    BY <1>0, <1>1, WhereCallsGo
  <1> HIDE DEF v
  <1>3. Valid(v)
    BY <1>1, <1>2, SameHostSameValidity
  <1>4. ASSUME NEW w \in Shown(tool, v) PROVE w \in URLs /\ Valid(w) /\ AtHome(w)
    <2>1. w = v \/ \E p \in {pathEvaluation, pathEvaluations} : w = WithPath(v, mount \o p)
      BY <1>4 DEF Shown
    <2>2. ASSUME NEW p \in {pathEvaluation, pathEvaluations}, w = WithPath(v, mount \o p)
          PROVE  w \in URLs /\ Valid(w) /\ AtHome(w)
      <3>1. mount \o p \in Seq(Segments) /\ Means(mount, mount \o p)
        BY <1>0, MountKept, EndpointList, Joined, EndpointMeans
      <3>2. w \in URLs /\ SameHost(w, v) /\ w.path = mount \o p
        BY <1>2, <2>2, <3>1, WithPathKeeps
      <3>3. Valid(w)
        BY <1>3, <3>2, SameHostSameValidity
      <3> QED BY <3>1, <3>2, <3>3 DEF AtHome
    <2> QED BY <1>2, <1>3, <2>1, <2>2
  <1>5. \A w : AtHome(w)' <=> AtHome(w)
    BY <1>1 DEF AtHome
  <1>6. SessionInv'
    <2>1. \A w \in seen' : w \in URLs /\ AtHome(w)
      BY <1>0, <1>1, <1>4 DEF SessionInv
    <2>2. \A w \in seen' \ Offered : Valid(w)
      BY <1>0, <1>1, <1>4 DEF SessionInv
    <2>3. mount' \in Mounts /\ config' \in URLs /\ AtHome(config)
      BY <1>0, <1>1 DEF SessionInv
    <2>4. (AtHome(config))'
      BY <1>1, <2>3 DEF AtHome
    <2> QED BY <1>5, <2>1, <2>2, <2>3, <2>4 DEF SessionInv
  <1>7. CallInv'
    <2>1. (Override(call.override))' = Override(u)
      BY <1>1 DEF Override
    <2>2. Derived' <=> (tool = "discover" \/ (tool = "batch" /\ u = NoURL))
      BY <1>1 DEF Derived
    <2>3. v.host = Override(u).host
      BY <1>2 DEF SameHost
    <2> QED BY <1>1, <1>2, <1>3, <2>1, <2>2, <2>3 DEF CallInv
  <1> QED BY <1>6, <1>7 DEF Inv

\* So does a refusal, which sends nothing.
LEMMA RefuseKeeps ==
    ASSUME Inv, NEW tool \in Tools, NEW u \in seen \cup {NoURL}, Refuse(tool, u)
    PROVE  Inv'
  <1>1. UNCHANGED <<mount, config, seen>> /\ call'.tool = tool /\ call'.url = NoURL
    BY DEF Refuse
  <1>2. SessionInv'
    BY <1>1 DEF Inv, SessionInv, AtHome
  <1>3. CallInv'
    BY <1>1 DEF CallInv, Sent
  <1> QED BY <1>2, <1>3 DEF Inv

\* In every session, of whatever length, URLs that pass validation at the
\* configured host are the PDP's own.
THEOREM Invariance == Spec => []Inv
  <1>1. Inv /\ [Next]_vars => Inv'
    <2> SUFFICES ASSUME Inv, [Next]_vars PROVE Inv'
      OBVIOUS
    <2>1. ASSUME NEW tool \in Tools, NEW u \in seen \cup {NoURL}, Call(tool, u) \/ Refuse(tool, u)
          PROVE  Inv'
      BY <2>1, CallKeeps, RefuseKeeps
    <2>2. CASE UNCHANGED vars
      BY <2>2 DEF vars, Inv, SessionInv, CallInv, AtHome, Sent, Derived, Override
    <2> QED BY <2>1, <2>2 DEF Next, Tools
  <1> QED BY InitInv, <1>1, PTL DEF Spec

\* Every URL a session can see has its type, and those a result shows are HTTP
\* (authzen.go:140-160).
THEOREM SessionTypes == Spec => []TypeOK
  <1>1. Inv => TypeOK
    <2> SUFFICES ASSUME Inv PROVE TypeOK
      OBVIOUS
    <2>1. \A u \in seen \cup {config} : u.path \in Seq(Segments) /\ u.escaped \in BOOLEAN
      BY DEF Inv, SessionInv, URLs
    <2>2. \A u \in seen \ Offered : u.scheme \in {"http", "https"}
      BY ValidMeans DEF Inv, SessionInv
    <2>3. mount \in Mounts /\ call.tool \in {"none", "evaluate", "batch", "discover"}
      BY DEF Inv, SessionInv, CallInv, Tools
    <2> QED BY <2>1, <2>2, <2>3 DEF TypeOK
  <1> QED BY Invariance, <1>1, PTL

\* Nothing is sent to a URL with userinfo or without a host (authzen.go:140-160).
THEOREM NothingIsSentAmiss == Spec => []RequestsAreValid
  <1>1. Inv => RequestsAreValid
    BY ValidMeans, Zenon DEF Inv, CallInv, RequestsAreValid
  <1> QED BY Invariance, <1>1, PTL

\* Chaining URLs leaves neither the host nor the mount of the PDP
\* (authzen.go:312-350, tool_authzen.go:325-328).
THEOREM ChainingNeverStrays == Spec => []ChainingStaysOnMount
  <1>1. Inv => ChainingStaysOnMount
    BY DEF Inv, CallInv, ChainingStaysOnMount, MetadataOr
  <1> QED BY Invariance, <1>1, PTL

\* A derived endpoint loses the spelling of the URL it comes from, always: with
\* a slash written as %2F there, it names another resource to the PDP's router
\* (authzen.go:323-335, 345-350).
DerivedIsRespelt == Sent /\ Derived => ~call.url.escaped

THEOREM DerivedEndpointsAreRespelt == Spec => []DerivedIsRespelt
  <1>1. Inv => DerivedIsRespelt
    BY DEF Inv, CallInv, DerivedIsRespelt
  <1> QED BY Invariance, <1>1, PTL

\* What the run that finds PrefixIsKept violated leaves open: no configured URL
\* but one that spells a slash as %2F loses its prefix, and every one that does
\* loses it at the first discovery (authzen.go:323-335, README.md:122).
OnlySpelling ==
    /\ ~config.escaped => PrefixIsKept
    /\ Sent /\ call.tool = "discover" /\ call.override = NoURL /\ config.escaped
          => ~PrefixIsKept

THEOREM OnlySpellingIsLost == Spec => []OnlySpelling
  <1>1. Inv => OnlySpelling
    <2> SUFFICES ASSUME Inv PROVE OnlySpelling
      OBVIOUS
    <2>1. Sent /\ call.tool = "discover" => ~call.url.escaped
      BY Zenon DEF Inv, CallInv, Derived
    <2>2. config.escaped \in BOOLEAN
      BY DEF Inv, SessionInv, URLs
    <2>3. Sent => call.url.escaped \in BOOLEAN
      BY DEF Inv, CallInv, URLs
    <2>4. CASE config.escaped
      BY <2>1, <2>4, Zenon DEF OnlySpelling, PrefixIsKept
    <2>5. CASE ~config.escaped
      <3>1. Sent /\ call.tool = "discover" => call.url.escaped = config.escaped
        BY <2>1, <2>2, <2>3, <2>5
      <3> QED BY <2>5, <3>1, Zenon DEF OnlySpelling, PrefixIsKept
    <2> QED BY <2>4, <2>5
  <1> QED BY Invariance, <1>1, PTL
=============================================================================
