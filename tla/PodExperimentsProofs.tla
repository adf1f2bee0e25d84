------------------------ MODULE PodExperimentsProofs ------------------------
(***************************************************************************)
(* Theorems about PodExperiments, for any clusters, any number of          *)
(* experiments with any requests, any evictions, and with or without       *)
(* failing calls of the API server.                                        *)
(***************************************************************************)
EXTENDS PodExperiments, FiniteSetTheorems, SequenceTheorems, TLAPS

\* A sequence, whatever its elements are.
List(s) == s \in Seq(Range(s))

\* A pod as the API server or an experiment's copy has it: an image is whole
\* and without annotation, or broken once with the image from before noted.
WholePod(p) ==
    /\ p = [f \in PodFields |-> p[f]]
    /\ p.gen \in Nat
    /\ DOMAIN p.images = DOMAIN p.notes
    /\ \A k \in DOMAIN p.images : <<p.images[k], p.notes[k]>> \in {<<0, -1>>, <<1, 0>>}

\* A meta, or a pod an experiment has hit, names the pod p.
Points(m, p) == m.ns = p.ns /\ m.pod = p.name
SameName(p, q) == p.ns = q.ns /\ p.name = q.name

PodsOK == /\ List(pods)
          /\ \A i \in DOMAIN pods : WholePod(pods[i])
          /\ \A i, j \in DOMAIN pods : SameName(pods[i], pods[j]) => i = j

ShapeOK ==
    /\ stage    = [e \in Exps |-> stage[e]]
    /\ todo     = [e \in Exps |-> todo[e]]
    /\ copy     = [e \in Exps |-> copy[e]]
    /\ statuses = [e \in Exps |-> statuses[e]]
    /\ hit      = [e \in Exps |-> hit[e]]
    /\ trouble \in BOOLEAN
    /\ \A e \in Exps : /\ List(statuses[e])
                       /\ stage[e] = "destroying" => List(todo[e])
                       /\ copy[e] # <<>> => /\ WholePod(copy[e][1]) /\ todo[e] # <<>> /\ Fails(e)
                                            /\ stage[e] \in {"creating", "destroying"}

\* What the statuses of e say that it has to destroy, and what it has still to
\* destroy at this moment.
Reported(e) == {ParseIdentifier(statuses[e][k].identifier) :
                   k \in {j \in DOMAIN statuses[e] : statuses[e][j].ok}}
Owed(e) == IF stage[e] \in {"creating", "created"} THEN Reported(e)
           ELSE IF stage[e] = "destroying" THEN Range(todo[e]) ELSE {}

\* Every broken pod is one that some experiment will come to.
Claimed ==
    ~trouble => \A i \in DOMAIN pods :
        Broken(pods[i]) /\ ~pods[i].terminating
            => \E e \in Exps : Fails(e) /\ \E m \in Owed(e) : Points(m, pods[i])

\* What a fail experiment reports, and what it destroys, it has hit.
HitBefore(e) ==
    Fails(e) => \A m \in Reported(e) \cup Owed(e) :
                    \E h \in hit[e] : m.ns = h.ns /\ m.pod = h.name

\* A pod that has taken a name since is of a later generation.
NotOlder(e) ==
    \A h \in hit[e], i \in DOMAIN pods : SameName(h, pods[i]) => h.gen \in Nat /\ h.gen <= pods[i].gen

\* The inductive invariant.
IInv == /\ PodsOK /\ ShapeOK /\ Claimed
        /\ \A e \in Exps : HitBefore(e) /\ NotOlder(e)

-----------------------------------------------------------------------------
(***************************************************************************)
(* Sequences.                                                              *)
(***************************************************************************)

\* What a sequence is, as far as the lemmas below need it.
LEMMA ListFacts ==
    ASSUME NEW s, List(s)
    PROVE  Len(s) \in Nat /\ DOMAIN s = 1 .. Len(s) /\ s \in [1 .. Len(s) -> Range(s)]
BY LenProperties DEF List

\* Append keeps what is there and adds x (Record).
LEMMA AppendFacts ==
    ASSUME NEW s, List(s), NEW x
    PROVE  /\ List(Append(s, x))
           /\ DOMAIN Append(s, x) = 1 .. Len(s) + 1
           /\ \A k \in 1 .. Len(s) : Append(s, x)[k] = s[k]
           /\ Append(s, x)[Len(s) + 1] = x
<1> DEFINE S == Range(s) \cup {x}
<1>1. s \in Seq(S) /\ x \in S
  BY SeqMonotonic DEF List
<1>2. /\ Append(s, x) \in Seq(S) /\ Len(Append(s, x)) = Len(s) + 1
      /\ \A k \in 1 .. Len(s) : Append(s, x)[k] = s[k]
      /\ Append(s, x)[Len(s) + 1] = x
  <2> HIDE DEF S
  <2> QED BY <1>1, AppendProperties
<1>3. DOMAIN Append(s, x) = 1 .. Len(s) + 1
  <2> HIDE DEF S
  <2> QED BY <1>2, LenProperties
<1>4. List(Append(s, x))
  <2> HIDE DEF S
  <2> QED BY <1>2, SeqOfRange DEF List
<1> QED BY <1>2, <1>3, <1>4

\* Tail drops the first (Skip).
LEMMA TailFacts ==
    ASSUME NEW s, List(s), s # <<>>
    PROVE  /\ List(Tail(s))
           /\ Range(s) = {Head(s)} \cup Range(Tail(s))
<1>1. s \in Seq(Range(s))
  BY DEF List
<1>2. /\ Tail(s) \in Seq(Range(s)) /\ Len(Tail(s)) = Len(s) - 1
      /\ \A i \in 1 .. Len(Tail(s)) : Tail(s)[i] = s[i + 1]
  BY <1>1, HeadTailProperties
<1>3. List(Tail(s))
  BY <1>2, SeqOfRange DEF List
<1>4. Len(s) \in Nat \ {0} /\ DOMAIN s = 1 .. Len(s) /\ DOMAIN Tail(s) = 1 .. Len(s) - 1
  BY <1>1, <1>2, EmptySeq, LenProperties
<1>5. Head(s) = s[1]
  BY <1>1
<1>6. Head(s) \in Range(s) /\ Range(Tail(s)) \subseteq Range(s)
  BY <1>2, <1>4, <1>5 DEF Range
<1>7. ASSUME NEW k \in DOMAIN s, k # 1 PROVE s[k] \in Range(Tail(s))
  <2>1. k - 1 \in DOMAIN Tail(s) /\ k - 1 \in 1 .. Len(Tail(s)) /\ (k - 1) + 1 = k
    BY <1>2, <1>4, <1>7
  <2>2. Tail(s)[k - 1] = s[k]
    BY <1>2, <2>1
  <2> QED BY <2>1, <2>2 DEF Range
<1>8. Range(s) \subseteq {Head(s)} \cup Range(Tail(s))
  BY <1>5, <1>7 DEF Range
<1> QED BY <1>3, <1>6, <1>8

\* A sequence without its i-th element (Gone).
LEMMA WithoutFacts ==
    ASSUME NEW s, List(s), NEW i \in DOMAIN s
    PROVE  LET t == SubSeq(s, 1, i - 1) \o SubSeq(s, i + 1, Len(s))
           IN  /\ List(t)
               /\ DOMAIN t = 1 .. Len(s) - 1
               /\ \A j \in DOMAIN t : t[j] = s[IF j < i THEN j ELSE j + 1]
<1> DEFINE a == SubSeq(s, 1, i - 1)
           b == SubSeq(s, i + 1, Len(s))
           n == Len(s)
           S == Range(s)
<1>1. n \in Nat /\ i \in 1 .. n /\ \A k \in 1 .. n : s[k] \in S
  BY ListFacts
<1>2. \A k \in 1 .. i - 1 : s[k] \in S
  BY <1>1
<1>3. \A k \in i + 1 .. n : s[k] \in S
  BY <1>1
<1> HIDE DEF n, S
<1>4. /\ a \in Seq(S) /\ Len(a) = i - 1
      /\ \A k \in 1 .. i - 1 : a[k] = s[k]
  <2>1. i - 1 \in Int /\ 1 \in Int
    BY <1>1
  <2>2. /\ a \in Seq(S) /\ Len(a) = (IF 1 <= i - 1 THEN (i - 1) - 1 + 1 ELSE 0)
        /\ \A k \in 1 .. (i - 1) - 1 + 1 : a[k] = s[1 + k - 1]
    BY <1>2, <2>1, SubSeqProperties
  <2> QED BY <1>1, <2>2
<1>5. /\ b \in Seq(S) /\ Len(b) = n - i
      /\ \A k \in 1 .. n - i : b[k] = s[i + k]
  <2>1. i + 1 \in Int /\ n \in Int /\ n = Len(s)
    BY <1>1 DEF n
  <2>2. /\ b \in Seq(S) /\ Len(b) = (IF i + 1 <= n THEN n - (i + 1) + 1 ELSE 0)
        /\ \A k \in 1 .. n - (i + 1) + 1 : b[k] = s[(i + 1) + k - 1]
    BY <1>3, <2>1, SubSeqProperties
  <2> QED BY <1>1, <2>2
<1> HIDE DEF a, b
<1>6. /\ a \o b \in Seq(S) /\ Len(a \o b) = (i - 1) + (n - i)
      /\ \A j \in 1 .. (i - 1) + (n - i) : (a \o b)[j] = IF j <= i - 1 THEN a[j] ELSE b[j - (i - 1)]
  <2>1. /\ a \o b \in Seq(S) /\ Len(a \o b) = Len(a) + Len(b)
        /\ \A j \in 1 .. Len(a) + Len(b) : (a \o b)[j] = IF j <= Len(a) THEN a[j] ELSE b[j - Len(a)]
    BY <1>4, <1>5, ConcatProperties
  <2> QED BY <1>4, <1>5, <2>1
<1>7. DOMAIN (a \o b) = 1 .. n - 1
  BY <1>1, <1>6, LenProperties
<1>8. ASSUME NEW j \in 1 .. n - 1 PROVE (a \o b)[j] = s[IF j < i THEN j ELSE j + 1]
  <2>1. CASE j < i
    BY <1>1, <1>4, <1>6, <2>1
  <2>2. CASE ~(j < i)
    <3>1. (a \o b)[j] = b[j - (i - 1)] /\ j - (i - 1) \in 1 .. n - i
      BY <1>1, <1>6, <2>2
    <3>2. i + (j - (i - 1)) = j + 1
      BY <1>1
    <3> QED BY <1>5, <2>2, <3>1, <3>2
  <2> QED BY <2>1, <2>2
<1>9. List(a \o b)
  BY <1>6, SeqOfRange DEF List
<1> QED BY <1>7, <1>8, <1>9 DEF a, b, n

-----------------------------------------------------------------------------
(***************************************************************************)
(* Positions in order, and what Destroy makes of the statuses.             *)
(***************************************************************************)

\* Nth lists the positions K, all of them and nothing else.
LEMMA NthFacts ==
    ASSUME NEW K \in SUBSET Nat, IsFiniteSet(K)
    PROVE  /\ Cardinality(K) \in Nat
           /\ \A i \in 1 .. Cardinality(K) : Nth(K, i) \in K
           /\ \A k \in K : \E i \in 1 .. Cardinality(K) : Nth(K, i) = k
           /\ \A i, j \in 1 .. Cardinality(K) : Nth(K, i) = Nth(K, j) => i = j
           /\ \A i \in 1 .. Cardinality(K) : Cardinality({j \in K : j <= Nth(K, i)}) = i
<1> DEFINE n       == Cardinality(K)
           upTo(k) == {j \in K : j <= k}
           rank    == [k \in K |-> Cardinality(upTo(k))]
<1>1. n \in Nat
  BY FS_CardinalityType
<1>2. ASSUME NEW k \in K
      PROVE  IsFiniteSet(upTo(k)) /\ Cardinality(upTo(k)) \in 1 .. n
  <2>1. upTo(k) \in SUBSET K /\ k \in upTo(k)
    OBVIOUS
  <2> HIDE DEF upTo
  <2>2. IsFiniteSet(upTo(k)) /\ Cardinality(upTo(k)) <= n
    BY <2>1, FS_Subset
  <2>3. Cardinality(upTo(k)) \in Nat /\ Cardinality(upTo(k)) # 0
    BY <2>1, <2>2, FS_CardinalityType, FS_EmptySet
  <2> QED BY <1>1, <2>2, <2>3
<1>3. ASSUME NEW k \in K, NEW l \in K, k < l
      PROVE  Cardinality(upTo(k)) # Cardinality(upTo(l))
  <2>1. k \in Nat /\ l \in Nat /\ \A j \in K : j \in Nat
    OBVIOUS
  <2>2. upTo(k) \in SUBSET upTo(l) /\ l \in upTo(l) /\ l \notin upTo(k)
    <3>1. \A j \in K : j <= k => j <= l
      BY <1>3, <2>1
    <3>2. l <= l /\ ~(l <= k)
      BY <1>3, <2>1
    <3> QED BY <3>1, <3>2, Zenon
  <2>3. IsFiniteSet(upTo(l))
    BY <1>2
  <2> HIDE DEF upTo
  <2> QED BY <2>2, <2>3, FS_Subset
<1>4. ASSUME NEW k \in K, NEW l \in K, Cardinality(upTo(k)) = Cardinality(upTo(l))
      PROVE  k = l
  <2>1. k < l \/ l < k \/ k = l
    OBVIOUS
  <2> HIDE DEF upTo
  <2> QED BY <1>3, <1>4, <2>1
<1>5. rank \in Injection(K, 1 .. n)
  <2> HIDE DEF upTo, n
  <2> QED BY <1>2, <1>4 DEF Injection, IsInjective
<1>6. IsFiniteSet(1 .. n) /\ Cardinality(1 .. n) = n
  BY <1>1, FS_Interval
<1>7. rank \in Surjection(K, 1 .. n)
  <2> HIDE DEF rank, n
  <2> QED BY <1>5, <1>6, FS_Injection DEF n
<1>8. ASSUME NEW i \in 1 .. n
      PROVE  Nth(K, i) \in K /\ Cardinality(upTo(Nth(K, i))) = i
  <2>1. \E k \in K : Cardinality(upTo(k)) = i
    BY <1>7 DEF Surjection
  <2> QED BY <2>1 DEF Nth
<1>9. ASSUME NEW k \in K PROVE \E i \in 1 .. n : Nth(K, i) = k
  <2> DEFINE i == Cardinality(upTo(k))
  <2>1. i \in 1 .. n
    BY <1>2
  <2>2. Nth(K, i) \in K /\ Cardinality(upTo(Nth(K, i))) = i
    BY <1>8, <2>1
  <2>3. Nth(K, i) = k
    <3> HIDE DEF upTo
    <3> QED BY <1>4, <2>2
  <2> QED BY <2>1, <2>3
<1>10. \A i, j \in 1 .. n : Nth(K, i) = Nth(K, j) => i = j
  <2> HIDE DEF upTo, n
  <2> QED BY <1>8
<1> QED BY <1>1, <1>8, <1>9, <1>10

\* Destroy works on the resources whose status is a success: on all of them, and
\* on nothing else (ExpController.Destroy).
LEMMA DestroyMetasFacts ==
    ASSUME NEW s, List(s)
    PROVE  /\ List(DestroyMetas(s))
           /\ Range(DestroyMetas(s)) =
                {ParseIdentifier(s[k].identifier) : k \in {j \in DOMAIN s : s[j].ok}}
<1> DEFINE good  == {k \in DOMAIN s : s[k].ok}
           n     == Cardinality(good)
           metas == [i \in 1 .. n |-> ParseIdentifier(s[Nth(good, i)].identifier)]
<1>1. good \in SUBSET Nat /\ IsFiniteSet(good)
  <2>1. Len(s) \in Nat /\ good \in SUBSET (1 .. Len(s))
    BY ListFacts
  <2>2. IsFiniteSet(1 .. Len(s))
    BY <2>1, FS_Interval
  <2>3. good \in SUBSET Nat
    BY <2>1
  <2> HIDE DEF good
  <2>4. IsFiniteSet(good)
    BY <2>1, <2>2, FS_Subset
  <2> QED BY <2>3, <2>4
<1>2. DestroyMetas(s) = metas
  BY DEF DestroyMetas
<1>3. /\ n \in Nat
      /\ \A i \in 1 .. n : Nth(good, i) \in good
      /\ \A k \in good : \E i \in 1 .. n : Nth(good, i) = k
  <2> HIDE DEF good
  <2> QED BY <1>1, NthFacts
<1>4. List(metas)
  <2> HIDE DEF good, n
  <2>1. metas \in [1 .. n -> Range(metas)]
    BY DEF Range
  <2> HIDE DEF metas
  <2> QED BY <1>3, <2>1 DEF List
<1>5. Range(metas) = {ParseIdentifier(s[k].identifier) : k \in good}
  <2> HIDE DEF good, n
  <2> QED BY <1>3 DEF Range
<1> QED BY <1>2, <1>4, <1>5

LEMMA PartIsList == ASSUME NEW S, NEW x \in S PROVE Part(x) \in Seq(S)
<1>1. CASE x = Blank
  <2>1. <<>> \in Seq(S)
    BY EmptySeq
  <2> QED BY <1>1, <2>1 DEF Part
<1>2. CASE x # Blank
  <2>1. <<x>> \in Seq(S)
    OBVIOUS
  <2> QED BY <1>2, <2>1 DEF Part
<1> QED BY <1>1, <1>2

\* What is added to an identifier leaves its first three parts alone.
LEMMA KeepsParts ==
    ASSUME NEW S, NEW s \in Seq(S), NEW t \in Seq(S), Len(s) >= 3
    PROVE  s \o t \in Seq(S) /\ Len(s \o t) >= 3 /\ (s \o t)[1] = s[1] /\ (s \o t)[3] = s[3]
<1>1. Len(s) \in Nat /\ Len(t) \in Nat
  BY LenProperties
<1>2. /\ s \o t \in Seq(S) /\ Len(s \o t) = Len(s) + Len(t)
      /\ \A i \in 1 .. Len(s) + Len(t) : (s \o t)[i] = IF i <= Len(s) THEN s[i] ELSE t[i - Len(s)]
  BY ConcatProperties
<1>3. 1 \in 1 .. Len(s) + Len(t) /\ 3 \in 1 .. Len(s) + Len(t) /\ 1 <= Len(s) /\ 3 <= Len(s)
  BY <1>1
<1> QED BY <1>1, <1>2, <1>3

LEMMA ParseFacts ==
    ASSUME NEW ss, Len(ss) \in Nat, Len(ss) >= 3
    PROVE  ParseIdentifier(ss).ns = ss[1] /\ ParseIdentifier(ss).pod = ss[3]
<1> DEFINE part(i) == IF i <= Len(ss) THEN ss[i] ELSE Blank
<1>1. part(1) = ss[1] /\ part(3) = ss[3]
  <2>1. 1 <= Len(ss) /\ 3 <= Len(ss)
    OBVIOUS
  <2> QED BY <2>1, Zenon
<1>2. ParseIdentifier(ss) = [ns |-> part(1), node |-> part(2), pod |-> part(3),
                             cname |-> part(4), cid |-> part(5), runtime |-> part(6)]
  BY DEF ParseIdentifier
<1> HIDE DEF part
<1> QED BY <1>1, <1>2

\* An identifier names the pod of the meta it was made from (GetIdentifier,
\* ParseIdentifier).
LEMMA IdentifierNames ==
    ASSUME NEW m
    PROVE  LET back == ParseIdentifier(GetIdentifier(m))
           IN  back.ns = m.ns /\ back.pod = m.pod
<1> DEFINE S == {m.ns, m.node, m.pod, m.cname, m.cid, m.runtime}
           a == <<m.ns, m.node, m.pod>>
<1>1. a \in Seq(S) /\ Len(a) = 3 /\ a[1] = m.ns /\ a[3] = m.pod
  OBVIOUS
<1>2. m.cname \in S /\ m.cid \in S /\ m.runtime \in S
  OBVIOUS
<1> HIDE DEF S, a
<1>3. Part(m.cname) \in Seq(S) /\ Part(m.cid) \in Seq(S) /\ Part(m.runtime) \in Seq(S)
  BY <1>2, PartIsList
<1> DEFINE b == a \o Part(m.cname)
           c == b \o Part(m.cid)
           d == c \o Part(m.runtime)
<1>4. b \in Seq(S) /\ Len(b) >= 3 /\ b[1] = m.ns /\ b[3] = m.pod
  <2>1. Len(a) >= 3
    BY <1>1
  <2> QED BY <1>1, <1>3, <2>1, KeepsParts
<1> HIDE DEF b
<1>5. c \in Seq(S) /\ Len(c) >= 3 /\ c[1] = m.ns /\ c[3] = m.pod
  BY <1>3, <1>4, KeepsParts
<1> HIDE DEF c
<1>6. d \in Seq(S) /\ Len(d) >= 3 /\ d[1] = m.ns /\ d[3] = m.pod
  BY <1>3, <1>5, KeepsParts
<1>7. GetIdentifier(m) = d
  BY DEF GetIdentifier, a, b, c
<1> HIDE DEF d
<1>8. Len(d) \in Nat
  BY <1>6, LenProperties
<1> QED BY <1>6, <1>7, <1>8, ParseFacts


-----------------------------------------------------------------------------
(***************************************************************************)
(* Pods.                                                                   *)
(***************************************************************************)

\* q is the pod p, of the same generation and with the same images.
Resembles(q, p) ==
    /\ WholePod(q) /\ SameName(q, p) /\ q.gen = p.gen
    /\ q.images = p.images

LEMMA OtherVersion ==
    ASSUME NEW p, WholePod(p), NEW v
    PROVE  /\ Resembles([p EXCEPT !.rv = v], p)
           /\ [p EXCEPT !.rv = v].terminating = p.terminating
<1> DEFINE q == [p EXCEPT !.rv = v]
<1>1. /\ q = [f \in PodFields |-> q[f]]
      /\ q.ns = p.ns /\ q.name = p.name /\ q.gen = p.gen /\ q.images = p.images
      /\ q.notes = p.notes /\ q.terminating = p.terminating
  BY DEF WholePod, PodFields
<1> HIDE DEF q
<1>2. WholePod(q)
  BY <1>1 DEF WholePod
<1> QED BY <1>1, <1>2 DEF Resembles, SameName, q

\* A pod that is being deleted (Terminate, Evict).
LEMMA Terminated ==
    ASSUME NEW p, WholePod(p)
    PROVE  /\ Resembles([p EXCEPT !.terminating = TRUE], p)
           /\ [p EXCEPT !.terminating = TRUE].terminating
<1> DEFINE q == [p EXCEPT !.terminating = TRUE]
<1>1. /\ q = [f \in PodFields |-> q[f]]
      /\ q.ns = p.ns /\ q.name = p.name /\ q.gen = p.gen /\ q.images = p.images
      /\ q.notes = p.notes /\ q.terminating = TRUE
  BY DEF WholePod, PodFields
<1> HIDE DEF q
<1>2. WholePod(q)
  BY <1>1 DEF WholePod
<1> QED BY <1>1, <1>2 DEF Resembles, SameName, q

\* A pod whose containers cannot be started again (Kubelet).
LEMMA Unready ==
    ASSUME NEW p, WholePod(p), NEW cs
    PROVE  LET q == [p EXCEPT !.ready = FALSE, !.containers = cs]
           IN  Resembles(q, p) /\ q.terminating = p.terminating
<1> DEFINE q == [p EXCEPT !.ready = FALSE, !.containers = cs]
<1>1. /\ q = [f \in PodFields |-> q[f]]
      /\ q.ns = p.ns /\ q.name = p.name /\ q.gen = p.gen /\ q.images = p.images
      /\ q.notes = p.notes /\ q.terminating = p.terminating
  BY DEF WholePod, PodFields
<1> HIDE DEF q
<1>2. WholePod(q)
  BY <1>1 DEF WholePod
<1> QED BY <1>1, <1>2 DEF Resembles, SameName, q

\* failPod breaks an image at most once, and keeps the one from before.
LEMMA FailedPod ==
    ASSUME NEW p, WholePod(p)
    PROVE  /\ WholePod(failPod(p)) /\ SameName(failPod(p), p) /\ failPod(p).gen = p.gen
<1> DEFINE q == failPod(p)
<1>1. /\ q = [f \in PodFields |-> q[f]]
      /\ q.ns = p.ns /\ q.name = p.name /\ q.gen = p.gen
      /\ q.notes  = [k \in DOMAIN p.notes |-> IF p.notes[k] = -1 THEN p.images[k] ELSE p.notes[k]]
      /\ q.images = [k \in DOMAIN p.images |-> IF p.notes[k] = -1 THEN p.images[k] + 1 ELSE p.images[k]]
  BY DEF WholePod, PodFields, failPod
<1>2. ASSUME NEW k \in DOMAIN p.images
      PROVE  <<q.images[k], q.notes[k]>> \in {<<0, -1>>, <<1, 0>>}
  <2>1. k \in DOMAIN p.notes /\ <<p.images[k], p.notes[k]>> \in {<<0, -1>>, <<1, 0>>}
    BY DEF WholePod
  <2> HIDE DEF q
  <2>2. CASE p.images[k] = 0 /\ p.notes[k] = -1
    BY <1>1, <2>1, <2>2
  <2>3. CASE p.images[k] = 1 /\ p.notes[k] = 0
    BY <1>1, <2>1, <2>3
  <2> QED BY <2>1, <2>2, <2>3
<1> HIDE DEF q
<1>3. DOMAIN q.images = DOMAIN p.images /\ DOMAIN q.notes = DOMAIN p.notes
  BY <1>1
<1>4. WholePod(q)
  BY <1>1, <1>2, <1>3 DEF WholePod
<1> QED BY <1>1, <1>4 DEF SameName, q

\* A pod that takes the place of another is whole (Gone).
LEMMA FreshPod ==
    ASSUME NEW p, WholePod(p)
    PROVE  /\ WholePod(Fresh(p)) /\ SameName(Fresh(p), p) /\ Fresh(p).gen = p.gen + 1
           /\ ~Broken(Fresh(p))
<1> DEFINE q == Fresh(p)
<1>1. /\ q = [f \in PodFields |-> q[f]]
      /\ q.ns = p.ns /\ q.name = p.name /\ q.gen = p.gen + 1
      /\ q.notes  = [k \in DOMAIN p.notes |-> -1]
      /\ q.images = [k \in DOMAIN p.images |-> 0]
  BY DEF WholePod, PodFields, Fresh
<1> HIDE DEF q
<1>2. WholePod(q)
  <2>1. q.gen \in Nat /\ DOMAIN p.images = DOMAIN p.notes
    BY <1>1 DEF WholePod
  <2>2. DOMAIN q.images = DOMAIN p.images /\ DOMAIN q.notes = DOMAIN p.notes
    BY <1>1
  <2>3. ASSUME NEW k \in DOMAIN q.images PROVE q.images[k] = 0 /\ q.notes[k] = -1
    BY <1>1, <2>1, <2>2
  <2> QED BY <1>1, <2>1, <2>2, <2>3 DEF WholePod
<1>3. ~Broken(q)
  BY <1>1 DEF Broken
<1> QED BY <1>1, <1>2, <1>3 DEF SameName, q


\* What a write of a pod leaves behind (Store).
LEMMA StoreFacts ==
    ASSUME PodsOK, NEW i \in DOMAIN pods, NEW new, WholePod(new),
           SameName(new, pods[i]), new.gen = pods[i].gen, Store(i, new)
    PROVE  /\ PodsOK'
           /\ DOMAIN pods' = DOMAIN pods
           /\ \A j \in DOMAIN pods : j # i => pods'[j] = pods[j]
           /\ SameName(pods'[i], pods[i]) /\ pods'[i].gen = pods[i].gen
           /\ pods'[i].images = new.images /\ pods'[i].terminating = new.terminating
<1>1. CASE new = pods[i]
  <2>1. pods' = pods
    BY <1>1 DEF Store
  <2> QED BY <1>1, <2>1 DEF PodsOK, List, SameName
<1>2. CASE new # pods[i]
  <2> DEFINE q == [new EXCEPT !.rv = @ + 1]
             S == Range(pods) \cup {q}
  <2>1. Resembles(q, new) /\ q.terminating = new.terminating
    BY OtherVersion
  <2>2. pods' = [pods EXCEPT ![i] = q]
    BY <1>2 DEF Store
  <2> HIDE DEF q
  <2>3. pods \in Seq(S) /\ q \in S
    BY SeqMonotonic DEF PodsOK, List
  <2>4. i \in 1 .. Len(pods) /\ DOMAIN pods = 1 .. Len(pods)
    BY ListFacts DEF PodsOK
  <2> HIDE DEF S
  <2>5. pods' \in Seq(S) /\ Len(pods') = Len(pods)
        /\ \A j \in 1 .. Len(pods) : pods'[j] = IF j = i THEN q ELSE pods[j]
    BY <2>2, <2>3, <2>4, ExceptSeq
  <2>6. List(pods)' /\ DOMAIN pods' = DOMAIN pods
    BY <2>4, <2>5, SeqOfRange, LenProperties DEF List
  <2>7. pods'[i] = q /\ \A j \in DOMAIN pods : j # i => pods'[j] = pods[j]
    BY <2>4, <2>5
  <2>8. \A j \in DOMAIN pods : WholePod(pods'[j]) /\ SameName(pods'[j], pods[j])
    BY <2>1, <2>7 DEF PodsOK, Resembles, SameName
  <2>9. \A j, k \in DOMAIN pods' : SameName(pods'[j], pods'[k]) => j = k
    BY <2>6, <2>8 DEF PodsOK, SameName
  <2>10. PodsOK'
    BY <2>6, <2>8, <2>9 DEF PodsOK
  <2> QED BY <2>1, <2>6, <2>7, <2>8, <2>10 DEF Resembles
<1> QED BY <1>1, <1>2

\* No step of these makes a broken pod, or gives a name to an older one.
Keeps ==
    \A i \in DOMAIN pods' : \E j \in DOMAIN pods :
        /\ SameName(pods'[i], pods[j])
        /\ pods[j].gen <= pods'[i].gen
        /\ Broken(pods'[i]) /\ ~pods'[i].terminating => Broken(pods[j]) /\ ~pods[j].terminating

LEMMA SamePods == ASSUME PodsOK, UNCHANGED pods PROVE PodsOK' /\ Keeps
<1>1. PodsOK'
  BY DEF PodsOK, List
<1>2. ASSUME NEW i \in DOMAIN pods PROVE pods[i].gen <= pods[i].gen /\ SameName(pods[i], pods[i])
  BY DEF PodsOK, WholePod, SameName
<1> QED BY <1>1, <1>2 DEF Keeps

LEMMA StoreKeeps ==
    ASSUME PodsOK, NEW i \in DOMAIN pods, NEW new, Resembles(new, pods[i]),
           new.terminating \/ new.terminating = pods[i].terminating, Store(i, new)
    PROVE  PodsOK' /\ Keeps
<1>1. WholePod(new) /\ SameName(new, pods[i]) /\ new.gen = pods[i].gen /\ new.images = pods[i].images
  BY DEF Resembles
<1>2. /\ PodsOK'
      /\ DOMAIN pods' = DOMAIN pods
      /\ \A j \in DOMAIN pods : j # i => pods'[j] = pods[j]
      /\ SameName(pods'[i], pods[i]) /\ pods'[i].gen = pods[i].gen
      /\ pods'[i].images = new.images /\ pods'[i].terminating = new.terminating
  BY <1>1, StoreFacts
<1>3. ASSUME NEW j \in DOMAIN pods
      PROVE  /\ SameName(pods'[j], pods[j])
             /\ pods[j].gen <= pods'[j].gen
             /\ Broken(pods'[j]) /\ ~pods'[j].terminating => Broken(pods[j]) /\ ~pods[j].terminating
  <2>1. pods[j].gen \in Nat
    BY DEF PodsOK, WholePod
  <2>2. CASE j = i
    BY <1>1, <1>2, <2>1, <2>2 DEF Broken
  <2>3. CASE j # i
    BY <1>2, <2>1, <2>3 DEF SameName
  <2> QED BY <2>2, <2>3
<1> QED BY <1>2, <1>3 DEF Keeps

\* A pod that is deleted by its name; it is the only one of that name.
LEMMA TerminateFacts ==
    ASSUME PodsOK, NEW m, Terminate(m)
    PROVE  /\ PodsOK' /\ Keeps
           /\ \A i \in DOMAIN pods' : Points(m, pods'[i]) => pods'[i].terminating
           /\ DOMAIN pods' = DOMAIN pods
           /\ \A i \in DOMAIN pods : pods'[i].terminating => pods[i].terminating \/ Points(m, pods[i])
<1>1. PICK i \in At(m) : Store(i, [pods[i] EXCEPT !.terminating = TRUE])
  BY DEF Terminate
<1> DEFINE new == [pods[i] EXCEPT !.terminating = TRUE]
<1>2. i \in DOMAIN pods /\ Points(m, pods[i]) /\ WholePod(pods[i])
  BY DEF At, Points, PodsOK
<1>3. Resembles(new, pods[i]) /\ new.terminating
  BY <1>2, Terminated
<1> HIDE DEF new
<1>4. PodsOK' /\ Keeps
  BY <1>1, <1>2, <1>3, StoreKeeps DEF new
<1>5. /\ DOMAIN pods' = DOMAIN pods
      /\ \A j \in DOMAIN pods : j # i => pods'[j] = pods[j]
      /\ SameName(pods'[i], pods[i]) /\ pods'[i].terminating = new.terminating
  BY <1>1, <1>2, <1>3, StoreFacts DEF new, Resembles
<1>6. ASSUME NEW j \in DOMAIN pods', Points(m, pods'[j]) PROVE pods'[j].terminating
  <2>1. j = i
    BY <1>2, <1>5, <1>6 DEF PodsOK, Points, SameName
  <2> QED BY <1>3, <1>5, <2>1
<1> QED BY <1>2, <1>4, <1>5, <1>6

\* The rest of the cluster keeps pods whole and breaks none.
LEMMA EnvironmentFacts ==
    ASSUME PodsOK, Environment
    PROVE  PodsOK' /\ Keeps
<1>1. PICK i \in DOMAIN pods : Kubelet(i) \/ Evict(i) \/ Gone(i)
  BY DEF Environment
<1>2. WholePod(pods[i])
  BY DEF PodsOK
<1>3. CASE Kubelet(i)
  <2> DEFINE cs  == [k \in DOMAIN pods[i].containers |-> [pods[i].containers[k] EXCEPT !.running = FALSE]]
             new == [pods[i] EXCEPT !.ready = FALSE, !.containers = cs]
  <2>1. Store(i, new)
    BY <1>3 DEF Kubelet
  <2> HIDE DEF cs
  <2>2. Resembles(new, pods[i]) /\ new.terminating = pods[i].terminating
    BY <1>2, Unready
  <2> HIDE DEF new
  <2> QED BY <2>1, <2>2, StoreKeeps
<1>4. CASE Evict(i)
  <2> DEFINE new == [pods[i] EXCEPT !.terminating = TRUE]
  <2>1. Store(i, new)
    BY <1>4 DEF Evict
  <2>2. Resembles(new, pods[i]) /\ new.terminating
    BY <1>2, Terminated
  <2> HIDE DEF new
  <2> QED BY <2>1, <2>2, StoreKeeps
<1>5. CASE Gone(i) /\ pods[i].name \in Stable
  <2> DEFINE q == Fresh(pods[i])
             S == Range(pods) \cup {q}
  <2>1. /\ WholePod(q) /\ SameName(q, pods[i]) /\ q.gen = pods[i].gen + 1
        /\ ~Broken(q)
    BY <1>2, FreshPod
  <2>2. pods' = [pods EXCEPT ![i] = q]
    BY <1>5 DEF Gone
  <2> HIDE DEF q
  <2>3. pods \in Seq(S) /\ q \in S
    BY SeqMonotonic DEF PodsOK, List
  <2>4. i \in 1 .. Len(pods) /\ DOMAIN pods = 1 .. Len(pods)
    BY ListFacts DEF PodsOK
  <2> HIDE DEF S
  <2>5. pods' \in Seq(S) /\ Len(pods') = Len(pods)
        /\ \A j \in 1 .. Len(pods) : pods'[j] = IF j = i THEN q ELSE pods[j]
    BY <2>2, <2>3, <2>4, ExceptSeq
  <2>6. List(pods)' /\ DOMAIN pods' = DOMAIN pods
    BY <2>4, <2>5, SeqOfRange, LenProperties DEF List
  <2>7. pods'[i] = q /\ \A j \in DOMAIN pods : j # i => pods'[j] = pods[j]
    BY <2>4, <2>5
  <2>8. \A j \in DOMAIN pods : WholePod(pods'[j]) /\ SameName(pods'[j], pods[j])
    BY <2>1, <2>7 DEF PodsOK, SameName
  <2>9. \A j, k \in DOMAIN pods' : SameName(pods'[j], pods'[k]) => j = k
    BY <2>6, <2>8 DEF PodsOK, SameName
  <2>10. PodsOK'
    BY <2>6, <2>8, <2>9 DEF PodsOK
  <2>11. ASSUME NEW j \in DOMAIN pods
         PROVE  /\ pods[j].gen <= pods'[j].gen
                /\ Broken(pods'[j]) /\ ~pods'[j].terminating => Broken(pods[j]) /\ ~pods[j].terminating
    <3>1. pods[j].gen \in Nat
      BY DEF PodsOK, WholePod
    <3>2. CASE j = i
      BY <2>1, <2>7, <3>1, <3>2
    <3>3. CASE j # i
      BY <2>7, <3>1, <3>3
    <3> QED BY <3>2, <3>3
  <2> QED BY <2>6, <2>8, <2>10, <2>11 DEF Keeps
<1>6. CASE Gone(i) /\ pods[i].name \notin Stable
  <2> DEFINE from(j) == IF j < i THEN j ELSE j + 1
  <2>1. pods' = SubSeq(pods, 1, i - 1) \o SubSeq(pods, i + 1, Len(pods))
    BY <1>6 DEF Gone
  <2>2. /\ List(pods') /\ DOMAIN pods' = 1 .. Len(pods) - 1
        /\ \A j \in DOMAIN pods' : pods'[j] = pods[IF j < i THEN j ELSE j + 1]
    BY <2>1, WithoutFacts DEF PodsOK
  <2>3. Len(pods) \in Nat /\ DOMAIN pods = 1 .. Len(pods) /\ i \in 1 .. Len(pods)
    BY ListFacts DEF PodsOK
  <2>4. \A j \in DOMAIN pods' : from(j) \in DOMAIN pods /\ pods'[j] = pods[from(j)]
    BY <2>2, <2>3
  <2>5. \A j, k \in DOMAIN pods' : from(j) = from(k) => j = k
    BY <2>2, <2>3
  <2> HIDE DEF from
  <2>6. List(pods)'
    BY <2>2 DEF List
  <2>7. \A j \in DOMAIN pods' : WholePod(pods'[j])
    BY <2>4 DEF PodsOK
  <2>8. \A j, k \in DOMAIN pods' : SameName(pods'[j], pods'[k]) => j = k
    BY <2>4, <2>5 DEF PodsOK
  <2>9. PodsOK'
    BY <2>6, <2>7, <2>8 DEF PodsOK
  <2>10. ASSUME NEW j \in DOMAIN pods'
         PROVE  /\ from(j) \in DOMAIN pods /\ SameName(pods'[j], pods[from(j)])
                /\ pods[from(j)].gen <= pods'[j].gen
                /\ Broken(pods'[j]) /\ ~pods'[j].terminating
                     => Broken(pods[from(j)]) /\ ~pods[from(j)].terminating
    <3>1. pods[from(j)].gen \in Nat
      BY <2>4 DEF PodsOK, WholePod
    <3> QED BY <2>4, <3>1 DEF SameName
  <2> QED BY <2>9, <2>10 DEF Keeps
<1> QED BY <1>1, <1>3, <1>4, <1>5, <1>6

-----------------------------------------------------------------------------
(***************************************************************************)
(* The steps.                                                              *)
(***************************************************************************)

\* What an experiment has to destroy depends on its own variables.
LEMMA Apart ==
    ASSUME NEW x, stage'[x] = stage[x], todo'[x] = todo[x], statuses'[x] = statuses[x]
    PROVE  Reported(x)' = Reported(x) /\ Owed(x)' = Owed(x)
BY DEF Reported, Owed

\* A step of e leaves the other experiments' variables alone.
Only(e) ==
    /\ stage'    = [x \in Exps |-> stage'[x]]
    /\ todo'     = [x \in Exps |-> todo'[x]]
    /\ copy'     = [x \in Exps |-> copy'[x]]
    /\ statuses' = [x \in Exps |-> statuses'[x]]
    /\ \A x \in Exps \ {e} : /\ stage'[x] = stage[x] /\ todo'[x] = todo[x]
                             /\ copy'[x] = copy[x] /\ statuses'[x] = statuses[x]

\* A step that breaks no pod keeps the invariant when what it takes off the
\* list of a fail experiment is gone or being deleted, and it adds nothing.
LEMMA QuietStep ==
    ASSUME IInv, PodsOK', ShapeOK', Keeps, UNCHANGED <<request, hit>>,
           ~trouble' => ~trouble,
           \A e \in Exps : Fails(e) => Reported(e)' \cup Owed(e)' \subseteq Reported(e) \cup Owed(e),
           ~trouble' => \A e \in Exps, i \in DOMAIN pods' : \A m \in Owed(e) :
               Fails(e) /\ Points(m, pods'[i]) /\ ~pods'[i].terminating => m \in Owed(e)'
    PROVE  IInv'
<1>1. Claimed'
  <2>1. SUFFICES ASSUME ~trouble', NEW i \in DOMAIN pods', Broken(pods'[i]), ~pods'[i].terminating
                 PROVE  \E e \in Exps : Fails(e)' /\ \E m \in Owed(e)' : Points(m, pods'[i])
    BY DEF Claimed, Broken, Points
  <2>2. PICK j \in DOMAIN pods : /\ SameName(pods'[i], pods[j])
                                 /\ Broken(pods[j]) /\ ~pods[j].terminating
    BY <2>1 DEF Keeps
  <2>3. PICK e \in Exps : Fails(e) /\ \E m \in Owed(e) : Points(m, pods[j])
    BY <2>1, <2>2 DEF IInv, Claimed
  <2>4. PICK m \in Owed(e) : Points(m, pods[j])
    BY <2>3
  <2>5. Points(m, pods'[i])
    BY <2>2, <2>4 DEF Points, SameName
  <2>6. Fails(e)'
    BY <2>3 DEF Fails
  <2> QED BY <2>1, <2>3, <2>5, <2>6
<1>2. ASSUME NEW e \in Exps PROVE HitBefore(e)'
  BY DEF IInv, HitBefore, Fails
<1>3. ASSUME NEW e \in Exps PROVE NotOlder(e)'
  <2>1. SUFFICES ASSUME NEW h \in hit[e], NEW i \in DOMAIN pods', SameName(h, pods'[i])
                 PROVE  h.gen \in Nat /\ h.gen <= pods'[i].gen
    BY DEF NotOlder, SameName
  <2>2. PICK j \in DOMAIN pods : SameName(pods'[i], pods[j]) /\ pods[j].gen <= pods'[i].gen
    BY DEF Keeps
  <2>3. h.gen \in Nat /\ h.gen <= pods[j].gen
    BY <2>1, <2>2 DEF IInv, NotOlder, SameName
  <2>4. pods[j].gen \in Nat /\ pods'[i].gen \in Nat
    BY DEF IInv, PodsOK, WholePod
  <2> QED BY <2>2, <2>3, <2>4
<1> QED BY <1>1, <1>2, <1>3 DEF IInv

\* What a step of one experiment has to show of its variables.
LEMMA ShapeStep ==
    ASSUME ShapeOK, NEW e \in Exps, Only(e), UNCHANGED request,
           hit' = [x \in Exps |-> hit'[x]], trouble' \in BOOLEAN,
           List(statuses'[e]), stage'[e] = "destroying" => List(todo'[e]),
           copy'[e] # <<>> => /\ WholePod(copy'[e][1]) /\ todo'[e] # <<>> /\ Fails(e)
                              /\ stage'[e] \in {"creating", "destroying"}
    PROVE  ShapeOK'
<1>1. ASSUME NEW x \in Exps
      PROVE  /\ List(statuses'[x])
             /\ stage'[x] = "destroying" => List(todo'[x])
             /\ copy'[x] # <<>> => /\ WholePod(copy'[x][1]) /\ todo'[x] # <<>> /\ Fails(x)
                                   /\ stage'[x] \in {"creating", "destroying"}
  BY DEF Only, ShapeOK
<1>2. \A x \in Exps : Fails(x)' = Fails(x)
  BY DEF Fails
<1>3. ASSUME NEW x \in Exps
      PROVE  List(statuses[x])' /\ (stage[x] = "destroying" => List(todo[x]))'
  BY <1>1 DEF List
<1>4. ASSUME NEW x \in Exps
      PROVE  (copy[x] # <<>> => /\ WholePod(copy[x][1]) /\ todo[x] # <<>> /\ Fails(x)
                                /\ stage[x] \in {"creating", "destroying"})'
  BY <1>1, <1>2 DEF WholePod
<1> QED BY <1>3, <1>4 DEF Only, ShapeOK

\* The same for a step of one experiment.
LEMMA QuietStepOf ==
    ASSUME IInv, NEW e \in Exps, Only(e), PodsOK', Keeps, UNCHANGED <<request, hit>>,
           trouble' \in BOOLEAN, ~trouble' => ~trouble,
           List(statuses'[e]), stage'[e] = "destroying" => List(todo'[e]),
           copy'[e] # <<>> => /\ WholePod(copy'[e][1]) /\ todo'[e] # <<>> /\ Fails(e)
                              /\ stage'[e] \in {"creating", "destroying"},
           Fails(e) => Reported(e)' \cup Owed(e)' \subseteq Reported(e) \cup Owed(e),
           Fails(e) /\ ~trouble' => \A i \in DOMAIN pods' : \A m \in Owed(e) :
               Points(m, pods'[i]) /\ ~pods'[i].terminating => m \in Owed(e)'
    PROVE  IInv'
<1>1. ShapeOK'
  <2>1. hit' = [x \in Exps |-> hit'[x]]
    BY DEF IInv, ShapeOK
  <2> QED BY <2>1, ShapeStep DEF IInv
<1>2. ASSUME NEW x \in Exps \ {e}
      PROVE  Reported(x)' = Reported(x) /\ Owed(x)' = Owed(x)
  BY Apart DEF Only
<1> QED BY <1>1, <1>2, QuietStep

\* The status of a resource is one more; a success is one more to destroy.
LEMMA RecordFacts ==
    ASSUME IInv, NEW e \in Exps, NEW identifier, NEW ok \in BOOLEAN,
           Record(e, identifier, ok), UNCHANGED stage
    PROVE  /\ Only(e) /\ List(statuses'[e]) /\ copy'[e] = <<>>
           /\ Reported(e)' = Reported(e) \cup (IF ok THEN {ParseIdentifier(identifier)} ELSE {})
<1> DEFINE s == statuses[e]
           r == [identifier |-> identifier, ok |-> ok]
           n == Len(s)
<1>1. List(s)
  BY DEF IInv, ShapeOK
<1>2. statuses'[e] = Append(s, r) /\ copy'[e] = <<>> /\ Only(e)
  BY DEF Record, IInv, ShapeOK, Only
<1>3. r.identifier = identifier /\ r.ok = ok
  OBVIOUS
<1> HIDE DEF r
<1>4. n \in Nat /\ DOMAIN s = 1 .. n
  BY <1>1, ListFacts
<1>5. /\ List(Append(s, r))
      /\ DOMAIN Append(s, r) = 1 .. n + 1
      /\ \A k \in 1 .. n : Append(s, r)[k] = s[k]
      /\ Append(s, r)[n + 1] = r
  BY <1>1, AppendFacts
<1> DEFINE t == Append(s, r)
<1>6. Reported(e)' = {ParseIdentifier(t[k].identifier) : k \in {j \in DOMAIN t : t[j].ok}}
  BY <1>2 DEF Reported
<1>7. Reported(e) = {ParseIdentifier(s[k].identifier) : k \in {j \in DOMAIN s : s[j].ok}}
  BY DEF Reported
<1>8. {j \in DOMAIN t : t[j].ok} = {j \in DOMAIN s : s[j].ok} \cup (IF ok THEN {n + 1} ELSE {})
  <2>1. DOMAIN t = DOMAIN s \cup {n + 1} /\ n + 1 \notin DOMAIN s
    BY <1>4, <1>5
  <2> QED BY <1>3, <1>4, <1>5, <2>1
<1>9. \A j \in DOMAIN s : t[j] = s[j]
  BY <1>4, <1>5
<1>10. t[n + 1].identifier = identifier
  BY <1>3, <1>5
<1> HIDE DEF s, t, n
<1>11. Reported(e)' = Reported(e) \cup (IF ok THEN {ParseIdentifier(identifier)} ELSE {})
  BY <1>6, <1>7, <1>8, <1>9, <1>10
<1> QED BY <1>2, <1>5, <1>11 DEF t

\* A status that reports no more than there was to destroy changes nothing.
LEMMA QuietRecord ==
    ASSUME IInv, NEW e \in Exps, NEW identifier, NEW ok \in BOOLEAN,
           Record(e, identifier, ok), ok => ~Fails(e), stage[e] = "creating",
           PodsOK', Keeps, UNCHANGED <<request, stage, hit, trouble>>
    PROVE  IInv'
<1>1. /\ Only(e) /\ List(statuses'[e]) /\ copy'[e] = <<>>
      /\ Reported(e)' = Reported(e) \cup (IF ok THEN {ParseIdentifier(identifier)} ELSE {})
  BY RecordFacts
<1>2. Owed(e)' = Reported(e)' /\ Owed(e) = Reported(e)
  BY DEF Owed
<1>3. Fails(e) => Reported(e)' = Reported(e)
  BY <1>1
<1>4. trouble' \in BOOLEAN
  BY DEF IInv, ShapeOK
<1> QED BY <1>1, <1>2, <1>3, <1>4, QuietStepOf

LEMMA CreateStep == ASSUME IInv, NEW e \in Exps, Create(e) PROVE IInv'
<1>1. /\ stage[e] = "new" /\ UNCHANGED <<pods, request, copy, statuses, hit, trouble>>
      /\ Only(e) /\ stage'[e] \in {"creating", "created", "panicked"}
  BY DEF Create, CreateFrom, IInv, ShapeOK, Only
<1>2. PodsOK' /\ Keeps
  BY <1>1, SamePods DEF IInv
<1>3. copy'[e] = <<>> /\ List(statuses'[e]) /\ trouble' \in BOOLEAN
  BY <1>1 DEF IInv, ShapeOK
<1>4. Reported(e)' = Reported(e)
  BY <1>1 DEF Reported
<1>5. Owed(e) = {} /\ Owed(e)' \subseteq Reported(e)'
  BY <1>1 DEF Owed
<1> QED BY <1>1, <1>2, <1>3, <1>4, <1>5, QuietStepOf

LEMMA FailGetStep == ASSUME IInv, NEW e \in Exps, FailGet(e) PROVE IInv'
<1> DEFINE m == Head(todo[e])
<1>1. /\ Fails(e) /\ stage[e] = "creating" /\ todo[e] # <<>>
      /\ UNCHANGED <<pods, request, stage, hit, trouble>>
  BY DEF FailGet
<1>2. PodsOK' /\ Keeps
  BY <1>1, SamePods DEF IInv
<1>3. CASE Record(e, GetIdentifier(m), FALSE)
  BY <1>1, <1>2, <1>3, QuietRecord
<1>4. CASE \E i \in At(m) : copy' = [copy EXCEPT ![e] = <<pods[i]>>] /\ UNCHANGED <<todo, statuses>>
  <2>1. PICK i \in At(m) : copy' = [copy EXCEPT ![e] = <<pods[i]>>] /\ UNCHANGED <<todo, statuses>>
    BY <1>4
  <2>2. WholePod(pods[i])
    BY DEF At, IInv, PodsOK
  <2>3. copy'[e] = <<pods[i]>> /\ Only(e)
    BY <1>1, <2>1 DEF IInv, ShapeOK, Only
  <2>4. Reported(e)' = Reported(e) /\ Owed(e)' = Owed(e)
    BY <1>1, <2>1, Apart
  <2>5. copy'[e][1] = pods[i] /\ todo'[e] # <<>> /\ stage'[e] = "creating"
    BY <1>1, <2>1, <2>3
  <2>6. trouble' \in BOOLEAN /\ List(statuses'[e])
    BY <1>1, <2>1 DEF IInv, ShapeOK
  <2> QED BY <1>1, <1>2, <2>2, <2>3, <2>4, <2>5, <2>6, QuietStepOf
<1> QED BY <1>3, <1>4 DEF FailGet

\* A pod that is broken is reported, unless the reply is lost.
LEMMA FailUpdateStep == ASSUME IInv, NEW e \in Exps, FailUpdate(e) PROVE IInv'
<1> DEFINE m == Head(todo[e])
           p == copy[e][1]
           b == ParseIdentifier(GetIdentifier(m))
<1>1. /\ Fails(e) /\ stage[e] = "creating" /\ copy[e] # <<>>
      /\ UNCHANGED <<request, stage>>
  BY DEF FailUpdate
<1>2. CASE Record(e, GetIdentifier(m), FALSE) /\ UNCHANGED <<pods, hit, trouble>>
  <2>1. PodsOK' /\ Keeps
    BY <1>2, SamePods DEF IInv
  <2> QED BY <1>1, <1>2, <2>1, QuietRecord
<1>3. ASSUME NEW i \in At(m), NEW ok \in {TRUE, ~ApiFaults}, Same(pods[i]) = Same(p),
             Store(i, failPod(p)), Record(e, GetIdentifier(m), ok),
             hit' = [hit EXCEPT ![e] = IF ok THEN @ \cup {Same(p)} ELSE @],
             trouble' = (trouble \/ ~ok)
      PROVE  IInv'
  <2>1. ok \in BOOLEAN /\ WholePod(p) /\ i \in DOMAIN pods /\ Points(m, pods[i])
    BY <1>1, PodBoundsAssumption DEF IInv, ShapeOK, At, Points
  <2>2. pods[i].ns = p.ns /\ pods[i].name = p.name /\ pods[i].gen = p.gen
    BY <1>3 DEF Same
  <2>3. /\ WholePod(failPod(p)) /\ SameName(failPod(p), pods[i]) /\ failPod(p).gen = pods[i].gen
    BY <2>1, <2>2, FailedPod DEF SameName
  <2>4. /\ PodsOK'
        /\ DOMAIN pods' = DOMAIN pods
        /\ \A j \in DOMAIN pods : j # i => pods'[j] = pods[j]
        /\ SameName(pods'[i], pods[i]) /\ pods'[i].gen = pods[i].gen
    BY <1>3, <2>1, <2>3, StoreFacts DEF IInv
  <2>5. /\ Only(e) /\ List(statuses'[e]) /\ copy'[e] = <<>>
        /\ Reported(e)' = Reported(e) \cup (IF ok THEN {b} ELSE {})
    BY <1>1, <1>3, <2>1, RecordFacts
  <2>6. b.ns = m.ns /\ b.pod = m.pod
    BY IdentifierNames
  <2>7. Owed(e)' = Reported(e)' /\ Owed(e) = Reported(e)
    BY <1>1 DEF Owed
  <2>8. \A x \in Exps \ {e} : Reported(x)' = Reported(x) /\ Owed(x)' = Owed(x)
    BY <2>5, Apart DEF Only
  <2>9. /\ hit' = [x \in Exps |-> hit'[x]] /\ trouble' \in BOOLEAN
        /\ hit'[e] = hit[e] \cup (IF ok THEN {Same(p)} ELSE {})
        /\ \A x \in Exps \ {e} : hit'[x] = hit[x]
    BY <1>3, <2>1 DEF IInv, ShapeOK
  <2> HIDE DEF b
  <2>10. ShapeOK'
    <3>1. stage'[e] # "destroying"
      BY <1>1
    <3> QED BY <1>1, <2>5, <2>9, <3>1, ShapeStep DEF IInv
  <2>11. Claimed'
    <3>1. SUFFICES ASSUME ~trouble', NEW j \in DOMAIN pods', Broken(pods'[j]), ~pods'[j].terminating
                   PROVE  \E x \in Exps : Fails(x)' /\ \E n \in Owed(x)' : Points(n, pods'[j])
      BY DEF Claimed, Broken, Points
    <3>2. ~trouble /\ ok
      BY <1>3, <2>1, <3>1 DEF IInv, ShapeOK
    <3>3. CASE j = i
      <4>1. Points(b, pods'[j])
        BY <2>1, <2>4, <2>6, <3>3 DEF Points, SameName
      <4>2. b \in Owed(e)' /\ Fails(e)'
        BY <1>1, <2>5, <2>7, <3>2 DEF Fails
      <4> QED BY <4>1, <4>2
    <3>4. CASE j # i
      <4>1. j \in DOMAIN pods /\ pods'[j] = pods[j] /\ Broken(pods[j])
        BY <2>4, <3>1, <3>4
      <4>2. PICK x \in Exps : Fails(x) /\ \E n \in Owed(x) : Points(n, pods[j])
        BY <3>1, <3>2, <4>1 DEF IInv, Claimed
      <4>3. Owed(x) \subseteq Owed(x)'
        BY <2>5, <2>7, <2>8
      <4>4. Fails(x)'
        BY <1>1, <4>2 DEF Fails
      <4> QED BY <4>1, <4>2, <4>3, <4>4
    <3> QED BY <3>3, <3>4
  <2>12. ASSUME NEW x \in Exps PROVE HitBefore(x)'
    <3>1. SUFFICES ASSUME Fails(x), NEW n \in Reported(x)' \cup Owed(x)'
                   PROVE  \E h \in hit'[x] : n.ns = h.ns /\ n.pod = h.name
      BY <1>1 DEF HitBefore, Fails
    <3>2. CASE n \in Reported(x) \cup Owed(x)
      BY <2>9, <3>1, <3>2 DEF IInv, HitBefore
    <3>3. CASE x = e /\ n = b /\ ok
      <4>1. Same(p) \in hit'[x] /\ Same(p).ns = p.ns /\ Same(p).name = p.name
        BY <2>9, <3>3 DEF Same
      <4> QED BY <2>1, <2>2, <2>6, <3>3, <4>1 DEF Points
    <3> QED BY <2>5, <2>7, <2>8, <3>1, <3>2, <3>3
  <2>13. ASSUME NEW x \in Exps PROVE NotOlder(x)'
    <3>1. SUFFICES ASSUME NEW h \in hit'[x], NEW j \in DOMAIN pods', SameName(h, pods'[j])
                   PROVE  h.gen \in Nat /\ h.gen <= pods'[j].gen
      BY DEF NotOlder, SameName
    <3>2. j \in DOMAIN pods /\ SameName(h, pods[j]) /\ pods'[j].gen = pods[j].gen
      BY <2>4, <3>1 DEF SameName
    <3>3. CASE h \in hit[x]
      BY <3>2, <3>3 DEF IInv, NotOlder
    <3>4. CASE h = Same(p)
      <4>1. h.ns = pods[i].ns /\ h.name = pods[i].name /\ h.gen = pods[i].gen
        BY <2>2, <3>4 DEF Same
      <4>2. j = i
        BY <2>1, <3>2, <4>1 DEF IInv, PodsOK, SameName
      <4>3. pods[i].gen \in Nat
        BY <2>1 DEF IInv, PodsOK, WholePod
      <4> QED BY <3>2, <4>1, <4>2, <4>3
    <3> QED BY <2>9, <3>1, <3>3, <3>4
  <2> QED BY <2>4, <2>10, <2>11, <2>12, <2>13 DEF IInv
<1>4. QED
  <2>1. CASE \E i \in At(m), ok \in {TRUE, ~ApiFaults} :
                /\ Same(pods[i]) = Same(p)
                /\ Store(i, failPod(p)) /\ Record(e, GetIdentifier(m), ok)
                /\ hit' = [hit EXCEPT ![e] = IF ok THEN @ \cup {Same(p)} ELSE @]
                /\ trouble' = (trouble \/ ~ok)
    BY <1>3, <2>1
  <2> QED BY <1>2, <2>1 DEF FailUpdate

\* The other actions delete or report on their own account.
LEMMA OtherActionStep ==
    ASSUME IInv, NEW e \in Exps, DeletePod(e) \/ OtherExec(e) PROVE IInv'
<1>1. /\ ~Fails(e) /\ stage[e] = "creating"
      /\ UNCHANGED <<request, stage, hit, trouble>>
  BY DEF DeletePod, OtherExec, Fails
<1>2. PodsOK' /\ Keeps
  <2>1. UNCHANGED pods \/ Terminate(Head(todo[e]))
    BY DEF DeletePod, OtherExec
  <2> QED BY <2>1, SamePods, TerminateFacts DEF IInv
<1>3. ASSUME NEW identifier, NEW ok, ok = TRUE \/ ok = FALSE, Record(e, identifier, ok) PROVE IInv'
  <2>1. ok \in BOOLEAN
    BY <1>3
  <2> QED BY <1>1, <1>2, <1>3, <2>1, QuietRecord
<1>4. CASE DeletePod(e)
  <2> DEFINE m == Head(todo[e])
             identifier == <<m.ns, m.node, m.pod>>
  <2>1. \/ \E ok \in {TRUE, ~ApiFaults} : Record(e, identifier, ok)
        \/ Record(e, identifier, FALSE)
    BY <1>4, Zenon DEF DeletePod
  <2>2. \A ok \in {TRUE, ~ApiFaults} : ok = TRUE \/ ok = FALSE
    BY PodBoundsAssumption
  <2> HIDE DEF identifier
  <2> QED BY <1>3, <2>1, <2>2, Zenon
<1>5. CASE OtherExec(e)
  <2>1. \E ok \in BOOLEAN : Record(e, GetIdentifier(Head(todo[e])), ok)
    BY <1>5, Zenon DEF OtherExec
  <2>2. \A ok \in BOOLEAN : ok = TRUE \/ ok = FALSE
    OBVIOUS
  <2> QED BY <1>3, <2>1, <2>2, Zenon
<1> QED BY <1>4, <1>5

LEMMA CreateReturnsStep == ASSUME IInv, NEW e \in Exps, CreateReturns(e) PROVE IInv'
<1>1. /\ stage[e] = "creating" /\ stage'[e] = "created" /\ todo[e] = <<>>
      /\ UNCHANGED <<pods, request, todo, copy, statuses, hit, trouble>>
      /\ Only(e)
  BY DEF CreateReturns, IInv, ShapeOK, Only
<1>2. PodsOK' /\ Keeps
  BY <1>1, SamePods DEF IInv
<1>3. copy'[e] = <<>> /\ List(statuses'[e]) /\ trouble' \in BOOLEAN
  BY <1>1 DEF IInv, ShapeOK
<1>4. Reported(e)' = Reported(e) /\ Owed(e)' = Owed(e)
  BY <1>1 DEF Reported, Owed
<1> QED BY <1>1, <1>2, <1>3, <1>4, QuietStepOf

LEMMA DestroyStep == ASSUME IInv, NEW e \in Exps, Destroy(e) PROVE IInv'
<1>1. /\ stage[e] = "created" /\ stage'[e] = "destroying" /\ todo'[e] = DestroyMetas(statuses[e])
      /\ UNCHANGED <<pods, request, copy, statuses, hit, trouble>>
      /\ Only(e)
  BY DEF Destroy, IInv, ShapeOK, Only
<1>2. PodsOK' /\ Keeps
  BY <1>1, SamePods DEF IInv
<1>3. copy'[e] = <<>> /\ List(statuses'[e]) /\ List(statuses[e]) /\ trouble' \in BOOLEAN
  BY <1>1 DEF IInv, ShapeOK
<1>4. List(todo'[e]) /\ Range(todo'[e]) = Reported(e)
  BY <1>1, <1>3, DestroyMetasFacts DEF Reported
<1>5. Reported(e)' = Reported(e)
  BY <1>1 DEF Reported
<1>6. Owed(e)' = Reported(e) /\ Owed(e) = Reported(e)
  BY <1>1, <1>4 DEF Owed, Range
<1> QED BY <1>1, <1>2, <1>3, <1>4, <1>5, <1>6, QuietStepOf

\* One entry less to destroy: the pod it names is gone or being deleted.
LEMMA SkipStep ==
    ASSUME IInv, NEW e \in Exps, stage[e] = "destroying", todo[e] # <<>>, Skip(e),
           PodsOK', Keeps, UNCHANGED <<request, stage, statuses, hit>>,
           trouble' \in BOOLEAN, ~trouble' => ~trouble,
           ~trouble' => \A i \in DOMAIN pods' :
               Points(Head(todo[e]), pods'[i]) => pods'[i].terminating
    PROVE  IInv'
<1>1. todo'[e] = Tail(todo[e]) /\ copy'[e] = <<>> /\ Only(e)
  BY DEF Skip, IInv, ShapeOK, Only
<1>2. List(todo[e]) /\ List(statuses'[e])
  BY DEF IInv, ShapeOK
<1>3. List(todo'[e]) /\ Range(todo[e]) = {Head(todo[e])} \cup Range(todo'[e])
  BY <1>1, <1>2, TailFacts
<1>4. Owed(e) = Range(todo[e]) /\ Owed(e)' = Range(todo'[e])
  BY DEF Owed, Range
<1>5. Reported(e)' = Reported(e)
  BY DEF Reported
<1>6. Owed(e)' \subseteq Owed(e)
  BY <1>3, <1>4
<1>7. ~trouble' => \A i \in DOMAIN pods' : \A m \in Owed(e) :
               Points(m, pods'[i]) /\ ~pods'[i].terminating => m \in Owed(e)'
  BY <1>3, <1>4
<1> QED BY <1>1, <1>2, <1>3, <1>5, <1>6, <1>7, QuietStepOf

LEMMA DestroyGetStep == ASSUME IInv, NEW e \in Exps, DestroyGet(e) PROVE IInv'
<1> DEFINE m == Head(todo[e])
<1>1. /\ Fails(e) /\ stage[e] = "destroying" /\ todo[e] # <<>>
      /\ UNCHANGED <<pods, request, stage, statuses, hit>>
  BY DEF DestroyGet
<1>2. PodsOK' /\ Keeps
  BY <1>1, SamePods DEF IInv
<1>3. CASE Skip(e) /\ trouble' = (trouble \/ At(m) # {})
  <2>1. trouble' \in BOOLEAN /\ (~trouble' => ~trouble /\ At(m) = {})
    BY <1>3 DEF IInv, ShapeOK
  <2>2. ~trouble' => \A i \in DOMAIN pods' : ~Points(m, pods'[i])
    BY <1>1, <2>1 DEF At, Points
  <2> QED BY <1>1, <1>2, <1>3, <2>1, <2>2, SkipStep
<1>4. ASSUME NEW i \in At(m), copy' = [copy EXCEPT ![e] = <<pods[i]>>], UNCHANGED <<todo, trouble>>
      PROVE  IInv'
  <2>1. WholePod(pods[i])
    BY DEF At, IInv, PodsOK
  <2>2. copy'[e] = <<pods[i]>> /\ Only(e)
    BY <1>1, <1>4 DEF IInv, ShapeOK, Only
  <2>3. Reported(e)' = Reported(e) /\ Owed(e)' = Owed(e)
    BY <1>1, <1>4, Apart
  <2>4. copy'[e][1] = pods[i] /\ todo'[e] # <<>> /\ stage'[e] = "destroying"
    BY <1>1, <1>4, <2>2
  <2>5. trouble' \in BOOLEAN /\ List(statuses'[e]) /\ List(todo'[e])
    BY <1>1, <1>4 DEF IInv, ShapeOK
  <2>6. Fails(e) /\ WholePod(copy'[e][1])
    BY <1>1, <2>1, <2>4
  <2> QED BY <1>1, <1>2, <1>4, <2>2, <2>3, <2>4, <2>5, <2>6, QuietStepOf
<1> QED BY <1>3, <1>4 DEF DestroyGet

LEMMA DestroyDeleteStep == ASSUME IInv, NEW e \in Exps, DestroyDelete(e) PROVE IInv'
<1> DEFINE m == Head(todo[e])
<1>1. /\ stage[e] = "destroying" /\ todo[e] # <<>> /\ Skip(e)
      /\ UNCHANGED <<request, stage, statuses, hit>>
  BY DEF DestroyDelete, IInv, ShapeOK
<1>2. CASE Terminate(m) /\ UNCHANGED trouble
  <2>1. PodsOK' /\ Keeps /\ \A i \in DOMAIN pods' : Points(m, pods'[i]) => pods'[i].terminating
    BY <1>2, TerminateFacts DEF IInv
  <2>2. trouble' \in BOOLEAN
    BY <1>2 DEF IInv, ShapeOK
  <2> QED BY <1>1, <1>2, <2>1, <2>2, SkipStep
<1>3. CASE trouble' = (trouble \/ At(m) # {}) /\ UNCHANGED pods
  <2>1. trouble' \in BOOLEAN /\ (~trouble' => ~trouble /\ At(m) = {})
    BY <1>3 DEF IInv, ShapeOK
  <2>2. ~trouble' => \A i \in DOMAIN pods' : ~Points(m, pods'[i])
    BY <1>3, <2>1 DEF At, Points
  <2>3. PodsOK' /\ Keeps
    BY <1>3, SamePods DEF IInv
  <2> QED BY <1>1, <1>3, <2>1, <2>2, <2>3, SkipStep
<1> QED BY <1>2, <1>3 DEF DestroyDelete

LEMMA DestroyReturnsStep == ASSUME IInv, NEW e \in Exps, DestroyReturns(e) PROVE IInv'
<1>1. /\ stage[e] = "destroying" /\ (Fails(e) => todo[e] = <<>>)
      /\ stage'[e] = "destroyed" /\ UNCHANGED <<pods, request, copy, statuses, hit, trouble>>
      /\ Only(e)
  BY DEF DestroyReturns, IInv, ShapeOK, Only
<1>2. PodsOK' /\ Keeps
  BY <1>1, SamePods DEF IInv
<1>3. copy'[e] = <<>> /\ List(statuses'[e]) /\ trouble' \in BOOLEAN
  BY <1>1 DEF IInv, ShapeOK
<1>4. Reported(e)' = Reported(e)
  BY <1>1 DEF Reported
<1>5. Owed(e)' = {} /\ (Fails(e) => Owed(e) = {})
  BY <1>1 DEF Owed, Range
<1> QED BY <1>1, <1>2, <1>3, <1>4, <1>5, QuietStepOf

\* A step that leaves the experiments alone.
LEMMA OutsideStep ==
    ASSUME IInv, PodsOK', Keeps,
           UNCHANGED <<request, stage, todo, copy, statuses, hit, trouble>>
    PROVE  IInv'
<1>1. ShapeOK'
  BY DEF IInv, ShapeOK, List, WholePod, Fails
<1>2. \A x \in Exps : Reported(x)' = Reported(x) /\ Owed(x)' = Owed(x)
  BY Apart
<1> QED BY <1>1, <1>2, QuietStep

-----------------------------------------------------------------------------
(***************************************************************************)
(* The invariant, and what follows from it.                                *)
(***************************************************************************)

\* A pod of a new cluster.
LEMMA InitOK == Init => IInv
<1> SUFFICES ASSUME Init PROVE IInv
  OBVIOUS
<1>1. PodsOK /\ \A i \in DOMAIN pods : ~Broken(pods[i])
  <2>1. List(pods)
    BY ClustersAssumption DEF Init, List
  <2>2. ASSUME NEW i \in DOMAIN pods PROVE WholePod(pods[i]) /\ ~Broken(pods[i])
    <3>1. /\ pods[i] = [f \in PodFields |-> pods[i][f]]
          /\ pods[i].gen \in Nat
          /\ DOMAIN pods[i].images = DOMAIN pods[i].notes
          /\ \A k \in DOMAIN pods[i].images : pods[i].images[k] = 0 /\ pods[i].notes[k] = -1
      <4>1. /\ pods[i] = [f \in PodFields |-> pods[i][f]]
            /\ pods[i].gen \in Nat
            /\ pods[i].images = [k \in DOMAIN pods[i].containers |-> 0]
            /\ pods[i].notes = [k \in DOMAIN pods[i].containers |-> -1]
        BY ClustersAssumption DEF Init
      <4> QED BY <4>1
    <3> QED BY <3>1 DEF WholePod, Broken
  <2>3. \A i, j \in DOMAIN pods : SameName(pods[i], pods[j]) => i = j
    BY ClustersAssumption DEF Init, SameName
  <2> QED BY <2>1, <2>2, <2>3 DEF PodsOK
<1>2. ShapeOK
  <2>1. \A e \in Exps : statuses[e] = <<>> /\ todo[e] = <<>> /\ stage[e] = "new" /\ copy[e] = <<>>
    BY DEF Init
  <2>2. <<>> \in Seq(Range(<<>>))
    BY EmptySeq
  <2> QED BY <2>1, <2>2 DEF Init, ShapeOK, List
<1>3. \A e \in Exps : Reported(e) = {} /\ Owed(e) = {} /\ hit[e] = {}
  BY DEF Init, Reported, Owed
<1> QED BY <1>1, <1>2, <1>3 DEF IInv, Claimed, HitBefore, NotOlder

THEOREM Invariance == Spec => []IInv
<1>1. IInv /\ [Next]_vars => IInv'
  <2> SUFFICES ASSUME IInv, [Next]_vars PROVE IInv'
    OBVIOUS
  <2>1. CASE Environment
    <3>1. UNCHANGED <<request, stage, todo, copy, statuses, hit, trouble>>
      BY <2>1 DEF Environment, Kubelet, Evict, Gone
    <3> QED BY <2>1, <3>1, EnvironmentFacts, OutsideStep DEF IInv
  <2>2. ASSUME NEW e \in Exps, Experiment(e) PROVE IInv'
    BY <2>2, CreateStep, FailGetStep, FailUpdateStep, OtherActionStep, CreateReturnsStep,
       DestroyStep, DestroyGetStep, DestroyDeleteStep, DestroyReturnsStep DEF Experiment
  <2>3. CASE UNCHANGED vars
    BY <2>3, SamePods, OutsideStep DEF IInv, vars
  <2> QED BY <2>1, <2>2, <2>3 DEF Next
<1> QED BY <1>1, InitOK, PTL DEF Spec

\* However many experiments fail the same pod at the same time, each of its
\* images is broken at most once and its annotation keeps the image from before
\* (failPod, and the conflict an Update of an old copy meets).
THEOREM ImagesBrokenOnce == Spec => []BrokenOnce
<1>1. IInv => BrokenOnce
  BY DEF IInv, PodsOK, WholePod, BrokenOnce
<1> QED BY <1>1, Invariance, PTL

\* When every experiment is over, no pod is left with a broken image unless a
\* call has failed (FailPodExecutor create and destroy).
THEOREM NoPodStaysBroken == Spec => []NoneLeftBroken
<1>1. IInv => NoneLeftBroken
  <2> SUFFICES ASSUME IInv, ~trouble, \A e \in Exps : stage[e] \in {"destroyed", "panicked"}
               PROVE  \A i \in DOMAIN pods : Broken(pods[i]) => pods[i].terminating
    BY DEF NoneLeftBroken
  <2>1. \A e \in Exps : Owed(e) = {}
    BY DEF Owed
  <2> QED BY <2>1 DEF IInv, Claimed
<1> QED BY <1>1, Invariance, PTL

\* The destroy of a fail experiment deletes only pods it has failed, or what has
\* since taken their names (FailPodExecutor.destroy).
THEOREM OthersAreSpared == Spec => DestroySparesOthers
<1> DEFINE Spares ==
      \A e \in Exps, i \in DOMAIN pods :
          /\ DestroyDelete(e)
          /\ pods'[i].terminating /\ ~pods[i].terminating
          => \E h \in hit[e] : h.ns = pods[i].ns /\ h.name = pods[i].name /\ h.gen <= pods[i].gen
<1>1. IInv => Spares
  <2> SUFFICES ASSUME IInv, NEW e \in Exps, NEW i \in DOMAIN pods, DestroyDelete(e),
                      pods'[i].terminating, ~pods[i].terminating
               PROVE  \E h \in hit[e] : /\ h.ns = pods[i].ns /\ h.name = pods[i].name
                                         /\ h.gen <= pods[i].gen
    OBVIOUS
  <2> DEFINE m == Head(todo[e])
  <2>1. Fails(e) /\ stage[e] = "destroying" /\ todo[e] # <<>> /\ List(todo[e])
    BY DEF DestroyDelete, IInv, ShapeOK
  <2>2. Terminate(m)
    BY DEF DestroyDelete
  <2>3. Points(m, pods[i])
    BY <2>2, TerminateFacts DEF IInv
  <2>4. m \in Owed(e)
    BY <2>1, TailFacts DEF Owed
  <2>5. PICK h \in hit[e] : m.ns = h.ns /\ m.pod = h.name
    BY <2>1, <2>4 DEF IInv, HitBefore
  <2>6. SameName(h, pods[i])
    BY <2>3, <2>5 DEF Points, SameName
  <2> QED BY <2>6 DEF IInv, NotOlder, SameName
<1>2. [][Spares]_vars <=> DestroySparesOthers
  BY PTL DEF DestroySparesOthers
<1> QED BY <1>1, <1>2, Invariance, PTL DEF Spec

=============================================================================
