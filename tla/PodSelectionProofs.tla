------------------------- MODULE PodSelectionProofs -------------------------
(***************************************************************************)
(* What a creation selects and what the destroy finds again: theorems      *)
(* about PodExperiments on top of the invariant of PodExperimentsProofs,   *)
(* and lemmas about the operators of ResourceSelect.                       *)
(***************************************************************************)
EXTENDS PodExperimentsProofs

-----------------------------------------------------------------------------
(***************************************************************************)
(* Lists.                                                                  *)
(***************************************************************************)

\* A function on an interval is a list.
LEMMA FunctionIsList ==
    ASSUME NEW n \in Nat, NEW f, DOMAIN f = 1 .. n, f = [i \in 1 .. n |-> f[i]]
    PROVE  List(f) /\ Len(f) = n
<1>1. f \in [1 .. n -> Range(f)]
  BY DEF Range
<1>2. f \in Seq(Range(f))
  BY <1>1
<1> QED BY <1>2, LenProperties DEF List

\* The positions of a list are finitely many numbers, and so are some of them.
LEMMA PositionsFinite ==
    ASSUME NEW s, List(s), NEW K \in SUBSET DOMAIN s
    PROVE  K \in SUBSET Nat /\ IsFiniteSet(K) /\ Cardinality(K) \in Nat /\ Cardinality(K) <= Len(s)
<1>1. Len(s) \in Nat /\ DOMAIN s = 1 .. Len(s)
  BY ListFacts
<1>2. IsFiniteSet(1 .. Len(s)) /\ Cardinality(1 .. Len(s)) = Len(s)
  BY <1>1, FS_Interval
<1>3. IsFiniteSet(K) /\ Cardinality(K) <= Cardinality(1 .. Len(s))
  BY <1>1, <1>2, FS_Subset
<1> QED BY <1>1, <1>2, <1>3, FS_CardinalityType

\* Pick returns the elements at the positions K and no others.
LEMMA PickFacts ==
    ASSUME NEW s, List(s), NEW K \in SUBSET DOMAIN s
    PROVE  /\ List(Pick(s, K)) /\ Len(Pick(s, K)) = Cardinality(K)
           /\ DOMAIN Pick(s, K) = 1 .. Cardinality(K)
           /\ \A i \in 1 .. Cardinality(K) : Nth(K, i) \in K /\ Pick(s, K)[i] = s[Nth(K, i)]
           /\ \A k \in K : \E i \in 1 .. Cardinality(K) : Nth(K, i) = k
           /\ \A i, j \in 1 .. Cardinality(K) : Nth(K, i) = Nth(K, j) => i = j
           /\ Range(Pick(s, K)) = {s[k] : k \in K}
<1> DEFINE n == Cardinality(K)
           t == [i \in 1 .. n |-> s[Nth(K, i)]]
<1>1. K \in SUBSET Nat /\ IsFiniteSet(K) /\ n \in Nat
  BY PositionsFinite
<1>2. /\ \A i \in 1 .. n : Nth(K, i) \in K
      /\ \A k \in K : \E i \in 1 .. n : Nth(K, i) = k
      /\ \A i, j \in 1 .. n : Nth(K, i) = Nth(K, j) => i = j
  BY <1>1, NthFacts
<1>3. Pick(s, K) = t
  BY DEF Pick
<1> HIDE DEF n
<1>4. DOMAIN t = 1 .. n /\ t = [i \in 1 .. n |-> t[i]] /\ \A i \in 1 .. n : t[i] = s[Nth(K, i)]
  OBVIOUS
<1> HIDE DEF t
<1>5. List(t) /\ Len(t) = n
  BY <1>1, <1>4, FunctionIsList
<1>6. Range(t) = {s[k] : k \in K}
  BY <1>2, <1>4 DEF Range
<1> QED BY <1>2, <1>3, <1>4, <1>5, <1>6 DEF n

\* Concat returns the elements of all the lists and no others.
LEMMA ConcatFacts ==
    ASSUME NEW ss, List(ss), \A i \in DOMAIN ss : List(ss[i])
    PROVE  /\ List(Concat(ss))
           /\ Range(Concat(ss)) = UNION {Range(ss[i]) : i \in DOMAIN ss}
<1> DEFINE T == Places(ss)
           n == Cardinality(T)
           r == [t \in T |-> Cardinality(UpTo(ss, t))]
<1>1. \A i \in DOMAIN ss : i \in Nat /\ \A k \in DOMAIN ss[i] : k \in Nat
  BY ListFacts
<1>2. T = {t \in Nat \X Nat : t[1] \in DOMAIN ss /\ t[2] \in DOMAIN ss[t[1]]}
  BY <1>1 DEF Places
<1>3. IsFiniteSet(T)
  <2> DEFINE row(i) == {<<i, k>> : k \in DOMAIN ss[i]}
             rows   == {row(i) : i \in DOMAIN ss}
  <2>1. ASSUME NEW i \in DOMAIN ss PROVE IsFiniteSet(row(i))
    <3>1. IsFiniteSet(DOMAIN ss[i])
      BY PositionsFinite
    <3>2. row(i) \subseteq {i} \X DOMAIN ss[i]
      OBVIOUS
    <3>3. IsFiniteSet({i} \X DOMAIN ss[i])
      BY <3>1, FS_Singleton, FS_Product
    <3> HIDE DEF row
    <3> QED BY <3>2, <3>3, FS_Subset
  <2>2. IsFiniteSet(DOMAIN ss)
    BY PositionsFinite
  <2>3. IsFiniteSet(rows)
    <3> DEFINE f == [i \in DOMAIN ss |-> row(i)]
    <3>1. f \in Surjection(DOMAIN ss, rows)
      <4> HIDE DEF row
      <4> QED BY DEF Surjection
    <3> HIDE DEF rows
    <3> QED BY <2>2, <3>1, FS_Surjection
  <2>4. \A t \in rows : IsFiniteSet(t)
    <3> HIDE DEF row
    <3> QED BY <2>1
  <2>5. T = UNION rows
    BY DEF Places
  <2> HIDE DEF rows, T
  <2> QED BY <2>3, <2>4, <2>5, FS_UNION
<1>4. n \in Nat
  BY <1>3, FS_CardinalityType
<1> HIDE DEF T
<1>5. ASSUME NEW t \in T
      PROVE  IsFiniteSet(UpTo(ss, t)) /\ Cardinality(UpTo(ss, t)) \in 1 .. n
  <2>1. UpTo(ss, t) \in SUBSET T /\ t \in UpTo(ss, t)
    BY <1>2 DEF UpTo, T
  <2>2. IsFiniteSet(UpTo(ss, t)) /\ Cardinality(UpTo(ss, t)) <= n
    BY <1>3, <2>1, FS_Subset
  <2>3. Cardinality(UpTo(ss, t)) \in Nat /\ Cardinality(UpTo(ss, t)) # 0
    BY <2>1, <2>2, FS_CardinalityType, FS_EmptySet
  <2> QED BY <1>4, <2>2, <2>3
<1>6. ASSUME NEW t \in T, NEW u \in T, t[1] < u[1] \/ (t[1] = u[1] /\ t[2] < u[2])
      PROVE  Cardinality(UpTo(ss, t)) # Cardinality(UpTo(ss, u))
  <2>1. \A x \in T : x[1] \in Nat /\ x[2] \in Nat
    BY <1>2
  <2>2. UpTo(ss, t) \in SUBSET UpTo(ss, u)
    BY <1>6, <2>1 DEF UpTo, T
  <2>3. u \in UpTo(ss, u) /\ u \notin UpTo(ss, t)
    BY <1>6, <2>1 DEF UpTo, T
  <2> QED BY <1>5, <2>2, <2>3, FS_Subset
<1>7. ASSUME NEW t \in T, NEW u \in T, Cardinality(UpTo(ss, t)) = Cardinality(UpTo(ss, u))
      PROVE  t = u
  <2>1. t \in Nat \X Nat /\ u \in Nat \X Nat
    BY <1>2
  <2>2. \/ t[1] < u[1] \/ (t[1] = u[1] /\ t[2] < u[2])
        \/ u[1] < t[1] \/ (u[1] = t[1] /\ u[2] < t[2]) \/ t = u
    BY <2>1
  <2> QED BY <1>6, <1>7, <2>2
<1>8. r \in Injection(T, 1 .. n)
  <2> HIDE DEF n
  <2> QED BY <1>5, <1>7 DEF Injection, IsInjective
<1>9. IsFiniteSet(1 .. n) /\ Cardinality(1 .. n) = n
  BY <1>4, FS_Interval
<1>10. r \in Surjection(T, 1 .. n)
  <2> HIDE DEF r, n
  <2> QED BY <1>3, <1>8, <1>9, FS_Injection DEF n
<1>11. ASSUME NEW i \in 1 .. n
       PROVE  NthPlace(ss, i) \in T /\ Cardinality(UpTo(ss, NthPlace(ss, i))) = i
  <2>1. \E t \in T : Cardinality(UpTo(ss, t)) = i
    BY <1>10 DEF Surjection
  <2> QED BY <2>1 DEF NthPlace, T
<1>12. ASSUME NEW t \in T PROVE \E i \in 1 .. n : NthPlace(ss, i) = t
  <2> DEFINE i == Cardinality(UpTo(ss, t))
  <2>1. i \in 1 .. n
    BY <1>5
  <2>2. NthPlace(ss, i) \in T /\ Cardinality(UpTo(ss, NthPlace(ss, i))) = i
    BY <1>11, <2>1
  <2> QED BY <1>7, <2>1, <2>2
<1> DEFINE c == [i \in 1 .. n |-> ss[NthPlace(ss, i)[1]][NthPlace(ss, i)[2]]]
<1>13. Concat(ss) = c
  BY DEF Concat, T
<1> HIDE DEF n
<1>14. /\ DOMAIN c = 1 .. n /\ c = [i \in 1 .. n |-> c[i]]
       /\ \A i \in 1 .. n : c[i] = ss[NthPlace(ss, i)[1]][NthPlace(ss, i)[2]]
  OBVIOUS
<1> HIDE DEF c
<1>15. List(c)
  BY <1>4, <1>14, FunctionIsList DEF n
<1>16. Range(c) \subseteq UNION {Range(ss[i]) : i \in DOMAIN ss}
  BY <1>2, <1>11, <1>14 DEF Range
<1>17. ASSUME NEW i \in DOMAIN ss, NEW k \in DOMAIN ss[i] PROVE ss[i][k] \in Range(c)
  <2>1. <<i, k>> \in T
    BY DEF T, Places
  <2>2. PICK j \in 1 .. n : NthPlace(ss, j) = <<i, k>>
    BY <1>12, <2>1
  <2>3. c[j] = ss[i][k]
    BY <1>14, <2>2
  <2> QED BY <1>14, <2>3 DEF Range
<1>18. UNION {Range(ss[i]) : i \in DOMAIN ss} \subseteq Range(c)
  BY <1>17 DEF Range
<1> QED BY <1>13, <1>15, <1>16, <1>18

-----------------------------------------------------------------------------
(***************************************************************************)
(* Metas and identifiers.                                                  *)
(***************************************************************************)

\* The parts of a meta that come after the pod are filled from the left.
Sound(m) == /\ m \in Metas
            /\ m.cname = Blank => m.cid = Blank
            /\ m.cid = Blank => m.runtime = Blank

\* A part is added to an identifier when it is not empty.
LEMMA AddPart ==
    ASSUME NEW S, NEW s \in Seq(S), NEW x \in S
    PROVE  /\ s \o Part(x) \in Seq(S) /\ Len(s \o Part(x)) \in Nat
           /\ Len(s \o Part(x)) = IF x = Blank THEN Len(s) ELSE Len(s) + 1
           /\ \A i \in 1 .. Len(s) : (s \o Part(x))[i] = s[i]
           /\ x # Blank => (s \o Part(x))[Len(s) + 1] = x
<1>1. Len(s) \in Nat /\ Part(x) \in Seq(S)
  BY PartIsList, LenProperties
<1>2. /\ s \o Part(x) \in Seq(S) /\ Len(s \o Part(x)) = Len(s) + Len(Part(x))
      /\ \A i \in 1 .. Len(s) + Len(Part(x)) :
             (s \o Part(x))[i] = IF i <= Len(s) THEN s[i] ELSE Part(x)[i - Len(s)]
  BY <1>1, ConcatProperties
<1>3. CASE x = Blank
  <2>1. Len(Part(x)) = 0
    BY <1>3, EmptySeq DEF Part
  <2> QED BY <1>1, <1>2, <1>3, <2>1
<1>4. CASE x # Blank
  <2>1. Len(Part(x)) = 1 /\ Part(x)[1] = x
    BY <1>4 DEF Part
  <2>2. Len(s) + 1 \in 1 .. Len(s) + Len(Part(x)) /\ ~(Len(s) + 1 <= Len(s)) /\ (Len(s) + 1) - Len(s) = 1
    BY <1>1, <2>1
  <2> QED BY <1>1, <1>2, <1>4, <2>1, <2>2
<1> QED BY <1>3, <1>4

\* An identifier is parsed back to the meta it was made from.
LEMMA RoundTrip ==
    ASSUME NEW m, Sound(m)
    PROVE  GetIdentifier(m) \in Seq(Text) /\ ParseIdentifier(GetIdentifier(m)) = m
<1> DEFINE a == <<m.ns, m.node, m.pod>>
           b == a \o Part(m.cname)
           c == b \o Part(m.cid)
           d == c \o Part(m.runtime)
<1>1. /\ m.ns \in Text /\ m.node \in Text /\ m.pod \in Text
      /\ m.cname \in Text /\ m.cid \in Text /\ m.runtime \in Text
      /\ m = [ns |-> m.ns, node |-> m.node, pod |-> m.pod,
              cname |-> m.cname, cid |-> m.cid, runtime |-> m.runtime]
      /\ m.cname = Blank => m.cid = Blank
      /\ m.cid = Blank => m.runtime = Blank
  BY DEF Sound, Metas
<1>2. GetIdentifier(m) = d
  BY DEF GetIdentifier
<1>3. a \in Seq(Text) /\ Len(a) = 3 /\ a[1] = m.ns /\ a[2] = m.node /\ a[3] = m.pod
  BY <1>1
<1> HIDE DEF a
<1>4. /\ b \in Seq(Text) /\ Len(b) \in Nat
      /\ Len(b) = IF m.cname = Blank THEN 3 ELSE 4
      /\ b[1] = m.ns /\ b[2] = m.node /\ b[3] = m.pod /\ (m.cname # Blank => b[4] = m.cname)
  <2>1. a \in Seq(Text) /\ m.cname \in Text
    BY <1>1, <1>3
  <2>2. /\ a \o Part(m.cname) \in Seq(Text) /\ Len(a \o Part(m.cname)) \in Nat
        /\ Len(a \o Part(m.cname)) = IF m.cname = Blank THEN Len(a) ELSE Len(a) + 1
        /\ \A i \in 1 .. Len(a) : (a \o Part(m.cname))[i] = a[i]
        /\ m.cname # Blank => (a \o Part(m.cname))[Len(a) + 1] = m.cname
    BY <2>1, AddPart
  <2> QED BY <1>1, <1>3, <2>2
<1> HIDE DEF b
<1>5. /\ c \in Seq(Text) /\ Len(c) \in Nat
      /\ Len(c) = IF m.cid = Blank THEN Len(b) ELSE 5
      /\ c[1] = m.ns /\ c[2] = m.node /\ c[3] = m.pod
      /\ (m.cname # Blank => c[4] = m.cname) /\ (m.cid # Blank => c[5] = m.cid)
  <2>1. b \in Seq(Text) /\ m.cid \in Text
    BY <1>1, <1>4
  <2>2. /\ b \o Part(m.cid) \in Seq(Text) /\ Len(b \o Part(m.cid)) \in Nat
        /\ Len(b \o Part(m.cid)) = IF m.cid = Blank THEN Len(b) ELSE Len(b) + 1
        /\ \A i \in 1 .. Len(b) : (b \o Part(m.cid))[i] = b[i]
        /\ m.cid # Blank => (b \o Part(m.cid))[Len(b) + 1] = m.cid
    BY <2>1, AddPart
  <2> QED BY <1>1, <1>4, <2>2
<1> HIDE DEF c
<1>6. /\ d \in Seq(Text) /\ Len(d) \in Nat
      /\ Len(d) = IF m.runtime = Blank THEN Len(c) ELSE 6
      /\ d[1] = m.ns /\ d[2] = m.node /\ d[3] = m.pod
      /\ (m.cname # Blank => d[4] = m.cname) /\ (m.cid # Blank => d[5] = m.cid)
      /\ (m.runtime # Blank => d[6] = m.runtime)
  <2>1. c \in Seq(Text) /\ m.runtime \in Text
    BY <1>1, <1>4, <1>5
  <2>2. /\ c \o Part(m.runtime) \in Seq(Text) /\ Len(c \o Part(m.runtime)) \in Nat
        /\ Len(c \o Part(m.runtime)) = IF m.runtime = Blank THEN Len(c) ELSE Len(c) + 1
        /\ \A i \in 1 .. Len(c) : (c \o Part(m.runtime))[i] = c[i]
        /\ m.runtime # Blank => (c \o Part(m.runtime))[Len(c) + 1] = m.runtime
    BY <2>1, AddPart
  <2> QED BY <1>1, <1>4, <1>5, <2>2, SMTT(30)
<1> HIDE DEF d
<1>7. /\ m.ns = IF 1 <= Len(d) THEN d[1] ELSE Blank
      /\ m.node = IF 2 <= Len(d) THEN d[2] ELSE Blank
      /\ m.pod = IF 3 <= Len(d) THEN d[3] ELSE Blank
      /\ m.cname = IF 4 <= Len(d) THEN d[4] ELSE Blank
      /\ m.cid = IF 5 <= Len(d) THEN d[5] ELSE Blank
      /\ m.runtime = IF 6 <= Len(d) THEN d[6] ELSE Blank
  BY <1>1, <1>4, <1>5, <1>6
<1>8. ParseIdentifier(d) = [ns |-> m.ns, node |-> m.node, pod |-> m.pod,
                            cname |-> m.cname, cid |-> m.cid, runtime |-> m.runtime]
  <2> DEFINE part(i) == IF i <= Len(d) THEN d[i] ELSE Blank
  <2>1. ParseIdentifier(d) = [ns |-> part(1), node |-> part(2), pod |-> part(3),
                              cname |-> part(4), cid |-> part(5), runtime |-> part(6)]
    BY DEF ParseIdentifier
  <2>2. /\ part(1) = m.ns /\ part(2) = m.node /\ part(3) = m.pod
        /\ part(4) = m.cname /\ part(5) = m.cid /\ part(6) = m.runtime
    BY <1>7
  <2> HIDE DEF part
  <2> QED BY <2>1, <2>2
<1> QED BY <1>1, <1>2, <1>6, <1>8, Zenon

\* Whatever identifier is parsed, the result is a meta.
LEMMA ParsedIsMeta ==
    ASSUME NEW ss \in Seq(Text)
    PROVE  ParseIdentifier(ss) \in Metas
<1>1. Len(ss) \in Nat /\ \A i \in 1 .. Len(ss) : ss[i] \in Text
  BY LenProperties
<1> DEFINE part(i) == IF i <= Len(ss) THEN ss[i] ELSE Blank
<1>2. Blank \in Text
  BY DEF Text
<1>3. ASSUME NEW i \in 1 .. 6 PROVE part(i) \in Text
  BY <1>1, <1>2
<1>4. part(1) \in Text /\ part(2) \in Text /\ part(3) \in Text
      /\ part(4) \in Text /\ part(5) \in Text /\ part(6) \in Text
  <2> HIDE DEF part
  <2> QED BY <1>3
<1>5. ParseIdentifier(ss) = [ns |-> part(1), node |-> part(2), pod |-> part(3),
                             cname |-> part(4), cid |-> part(5), runtime |-> part(6)]
  BY DEF ParseIdentifier
<1> HIDE DEF part
<1> QED BY <1>4, <1>5 DEF Metas

-----------------------------------------------------------------------------
(***************************************************************************)
(* What the flags select.                                                  *)
(***************************************************************************)

\* Flags as a specification can have them.
FlagsOK(flags) ==
    /\ {flags.count, flags.percent, flags.index} \subseteq NumFlag
    /\ List(flags.names) /\ List(flags.group) /\ List(flags.ids) /\ List(flags.cnames)

\* A resource meets the labels of flags that name it.
Meets(r, flags) ==
    \/ DOMAIN ParseLabels(flags.labels) = {}
    \/ MapContains(r.labels, ParseLabels(flags.labels))

\* A pod that flags allow.
Allowed(p, flags) ==
    /\ p.ns = Namespace(flags)
    /\ \/ p.name \in ToSet(flags.names) /\ Meets(p, flags)
       \/ /\ flags.names = <<>> /\ ~p.terminating
          /\ Selects(ParseLabels(flags.labels), p.labels)

LEMMA ByNamesFacts ==
    ASSUME NEW all, List(all), NEW ns, NEW flags, List(flags.names)
    PROVE  /\ List(ByNames(all, ns, flags))
           /\ \A r \in Range(ByNames(all, ns, flags)) :
                 r \in Range(all) /\ r.ns = ns /\ r.name \in ToSet(flags.names) /\ Meets(r, flags)
<1> DEFINE places(i) == {k \in DOMAIN all :
                            all[k].ns = ns /\ all[k].name = flags.names[i] /\ Meets(all[k], flags)}
           lists == [i \in DOMAIN flags.names |-> Pick(all, places(i))]
<1>1. ByNames(all, ns, flags) = Concat(lists)
  BY DEF ByNames, Meets
<1>2. ASSUME NEW i \in DOMAIN flags.names
      PROVE  /\ List(lists[i])
             /\ \A r \in Range(lists[i]) : \E k \in DOMAIN all :
                   r = all[k] /\ all[k].ns = ns /\ all[k].name = flags.names[i] /\ Meets(all[k], flags)
  <2>1. lists[i] = Pick(all, places(i)) /\ places(i) \in SUBSET DOMAIN all
    OBVIOUS
  <2>2. \A k \in places(i) : k \in DOMAIN all /\ all[k].ns = ns /\ all[k].name = flags.names[i]
                             /\ Meets(all[k], flags)
    OBVIOUS
  <2> HIDE DEF places, lists
  <2>3. List(Pick(all, places(i))) /\ Range(Pick(all, places(i))) = {all[k] : k \in places(i)}
    BY <2>1, PickFacts
  <2> QED BY <2>1, <2>2, <2>3
<1>3. DOMAIN lists = DOMAIN flags.names /\ List(lists)
  <2>1. Len(flags.names) \in Nat /\ DOMAIN flags.names = 1 .. Len(flags.names)
    BY ListFacts
  <2>2. DOMAIN lists = 1 .. Len(flags.names) /\ lists = [i \in 1 .. Len(flags.names) |-> lists[i]]
    BY <2>1
  <2> HIDE DEF lists
  <2> QED BY <2>1, <2>2, FunctionIsList
<1> HIDE DEF lists
<1>4. /\ List(Concat(lists))
      /\ Range(Concat(lists)) = UNION {Range(lists[i]) : i \in DOMAIN lists}
  BY <1>2, <1>3, ConcatFacts
<1>5. ASSUME NEW r \in Range(Concat(lists))
      PROVE  r \in Range(all) /\ r.ns = ns /\ r.name \in ToSet(flags.names) /\ Meets(r, flags)
  <2>1. PICK i \in DOMAIN flags.names : r \in Range(lists[i])
    BY <1>3, <1>4
  <2>2. PICK k \in DOMAIN all :
           r = all[k] /\ all[k].ns = ns /\ all[k].name = flags.names[i] /\ Meets(all[k], flags)
    BY <1>2, <2>1
  <2>3. r \in Range(all)
    BY <2>2 DEF Range
  <2>4. r.name \in ToSet(flags.names)
    BY <2>2 DEF ToSet
  <2> QED BY <2>2, <2>3, <2>4
<1> QED BY <1>1, <1>4, <1>5

LEMMA ByLabelsFacts ==
    ASSUME NEW all, List(all), NEW ns, NEW flags
    PROVE  /\ List(ByLabels(all, ns, flags))
           /\ \A r \in Range(ByLabels(all, ns, flags)) :
                 r \in Range(all) /\ r.ns = ns /\ Selects(ParseLabels(flags.labels), r.labels)
<1> DEFINE K == {k \in DOMAIN all : all[k].ns = ns /\ Selects(ParseLabels(flags.labels), all[k].labels)}
<1>1. ByLabels(all, ns, flags) = Pick(all, K)
  BY DEF ByLabels
<1>2. K \in SUBSET DOMAIN all
  OBVIOUS
<1>3. \A k \in K : all[k].ns = ns /\ Selects(ParseLabels(flags.labels), all[k].labels)
  OBVIOUS
<1> HIDE DEF K
<1>4. List(Pick(all, K)) /\ Range(Pick(all, K)) = {all[k] : k \in K}
  BY <1>2, PickFacts
<1> QED BY <1>1, <1>2, <1>3, <1>4 DEF Range

\* Only pods that the flags allow are found (resourceFunc).
LEMMA PodResourcesFacts ==
    ASSUME NEW all, List(all), NEW flags, FlagsOK(flags)
    PROVE  LET found == podResources(all, flags)
           IN  /\ List(found.list)
               /\ found.resp = "ok" \/ found = Fail
               /\ \A p \in Range(found.list) : p \in Range(all) /\ Allowed(p, flags)
<1> DEFINE ns     == Namespace(flags)
           named  == ByNames(all, ns, flags)
           listed == ByLabels(all, ns, flags)
           K      == {k \in DOMAIN listed : ~listed[k].terminating}
           found  == podResources(all, flags)
<1>1. List(<<>>) /\ Range(<<>>) = {}
  BY EmptySeq DEF List, Range
<1>2. List(named) /\ \A p \in Range(named) : p \in Range(all) /\ Allowed(p, flags)
  BY ByNamesFacts DEF FlagsOK, Allowed
<1>3. /\ List(listed)
      /\ \A p \in Range(listed) :
            p \in Range(all) /\ p.ns = ns /\ Selects(ParseLabels(flags.labels), p.labels)
  BY ByLabelsFacts
<1>4. /\ List(Pick(listed, K))
      /\ \A p \in Range(Pick(listed, K)) : p \in Range(listed) /\ ~p.terminating
  <2>1. K \in SUBSET DOMAIN listed /\ \A k \in K : ~listed[k].terminating
    OBVIOUS
  <2> HIDE DEF K, listed
  <2>2. List(Pick(listed, K)) /\ Range(Pick(listed, K)) = {listed[k] : k \in K}
    BY <1>3, <2>1, PickFacts
  <2> QED BY <2>1, <2>2 DEF Range
<1>5. found = IF flags.names # <<>> THEN IF named = <<>> THEN Fail ELSE Ok(named)
              ELSE IF IllegalLabels(flags) THEN Fail
              ELSE IF flags.labels = <<>> THEN Ok(<<>>)
              ELSE IF listed = <<>> THEN Fail
              ELSE Ok(Pick(listed, K))
  BY DEF podResources
<1> HIDE DEF named, listed, K, found
<1>6. flags.names = <<>> => \A p \in Range(Pick(listed, K)) : p \in Range(all) /\ Allowed(p, flags)
  BY <1>3, <1>4 DEF Allowed
<1>7. \/ found = Fail
      \/ found = Ok(named)
      \/ found = Ok(<<>>)
      \/ found = Ok(Pick(listed, K)) /\ flags.names = <<>>
  BY <1>5
<1>8. \A l : Ok(l).list = l /\ Ok(l).resp = "ok"
  BY DEF Ok
<1>9. Fail.list = <<>>
  BY DEF Fail
<1> QED BY <1>1, <1>2, <1>4, <1>6, <1>7, <1>8, <1>9 DEF found

-----------------------------------------------------------------------------
(***************************************************************************)
(* How many of them.                                                       *)
(***************************************************************************)

\* The limits that evict-count and evict-percent set to m of n resources.
Within(m, n, flags) ==
    /\ flags.count.given = "int" => m <= flags.count.val
    /\ flags.percent.given = "int" => 200 * m <= 2 * flags.percent.val * n + 100

\* One of them has been reached.
Full(m, n, flags) ==
    \/ m = n
    \/ flags.count.given = "int" /\ m = flags.count.val
    \/ flags.percent.given = "int" /\ 200 * m >= 2 * flags.percent.val * n - 100

LEMMA MinFacts ==
    ASSUME NEW a \in Int, NEW b \in Int, NEW c \in Int
    PROVE  /\ Min({a, b, c}) \in {a, b, c}
           /\ Min({a, b, c}) <= a /\ Min({a, b, c}) <= b /\ Min({a, b, c}) <= c
<1> DEFINE S == {a, b, c}
<1>1. \E x \in S : \A y \in S : x <= y
  <2>1. CASE a <= b /\ a <= c
    BY <2>1
  <2>2. CASE b <= a /\ b <= c
    BY <2>2
  <2>3. CASE c <= a /\ c <= b
    BY <2>3
  <2> QED BY <2>1, <2>2, <2>3
<1>2. Min(S) \in S /\ \A y \in S : Min(S) <= y
  <2> HIDE DEF S
  <2> QED BY <1>1 DEF Min
<1> QED BY <1>2

\* The rounding is to a nearest number, whatever the floating-point numbers make
\* of the halves.
LEMMA ShareFacts ==
    ASSUME NEW x \in Int, NEW n \in Nat
    PROVE  /\ Share(x, n) \in Int
           /\ Share(x, n) >= 0 => /\ 200 * Share(x, n) <= 2 * x * n + 100
                                  /\ 200 * Share(x, n) >= 2 * x * n - 100
<1> DEFINE y    == 2 * x * n
           half == IF <<x, n>> \in FallsShort THEN 99 ELSE 100
<1>1. y \in Int /\ half \in {99, 100}
  OBVIOUS
<1>2. x < 0 => y <= 0
  OBVIOUS
<1>3. Share(x, n) = IF x >= 0 THEN (y + half) \div 200 ELSE -((half - y) \div 200)
  BY DEF Share
<1>4. Share(x, n) >= 0 => 200 * Share(x, n) <= y + 100 /\ 200 * Share(x, n) >= y - 100
  <2> HIDE DEF y, half
  <2>1. CASE x >= 0
    BY <1>1, <1>3, <2>1
  <2>2. CASE x < 0
    <3> DEFINE z == (half - y) \div 200
    <3>1. z \in Int /\ z >= 0 /\ 200 * z <= half - y /\ half - y < 200 * z + 200
      BY <1>1, <1>2, <2>2
    <3>2. Share(x, n) = -z
      BY <1>3, <2>2
    <3> HIDE DEF z
    <3> QED BY <1>1, <1>2, <2>2, <3>1, <3>2
  <2> QED BY <2>1, <2>2
<1>5. Share(x, n) \in Int
  <2> HIDE DEF y, half
  <2> QED BY <1>1, <1>3
<1> QED BY <1>4, <1>5

\* The number that is left is within the limits, and up to one (GetResourceCount).
LEMMA CountFacts ==
    ASSUME NEW n \in Nat, NEW flags, FlagsOK(flags)
    PROVE  LET c == GetResourceCount(n, flags)
           IN  /\ c.n \in Int /\ c.n <= n
               /\ n # 0 /\ c.ok /\ c.n >= 0 =>
                    /\ \A m \in Nat : m <= c.n => Within(m, n, flags)
                    /\ Full(c.n, n, flags)
<1> DEFINE illegal(flag) == flag.given = "bad" \/ (flag.given = "int" /\ flag.val = 0)
           want    == IF flags.count.given = "int" THEN flags.count.val ELSE n
           percent == IF flags.percent.given = "int" THEN flags.percent.val ELSE 100
           share   == Share(percent, n)
           least   == Min({want, share, n})
           c       == GetResourceCount(n, flags)
<1>1. want \in Int /\ percent \in Int
  BY DEF FlagsOK, NumFlag
<1>2. c = IF n = 0 THEN [ok |-> TRUE, n |-> 0]
          ELSE IF illegal(flags.count) \/ illegal(flags.percent) THEN [ok |-> FALSE, n |-> 0]
          ELSE [ok |-> TRUE, n |-> least]
  BY DEF GetResourceCount
<1>3. /\ share \in Int
      /\ share >= 0 => /\ 200 * share <= 2 * percent * n + 100
                       /\ 200 * share >= 2 * percent * n - 100
  <2> HIDE DEF percent
  <2> QED BY <1>1, ShareFacts
<1>4. least \in Int /\ least <= n /\ least <= want /\ least <= share /\ least \in {want, share, n}
  <2> HIDE DEF want, share
  <2>1. want \in Int /\ share \in Int /\ n \in Int
    BY <1>1, <1>3
  <2>2. /\ Min({want, share, n}) \in {want, share, n}
        /\ Min({want, share, n}) <= want /\ Min({want, share, n}) <= share
        /\ Min({want, share, n}) <= n
    BY <2>1, MinFacts
  <2> HIDE DEF least
  <2> QED BY <2>1, <2>2 DEF least
<1>5. /\ \/ c.n = least
         \/ c.n = 0 /\ (n = 0 \/ ~c.ok)
      /\ n # 0 /\ c.ok => c.n = least
  <2> HIDE DEF illegal, least, c
  <2> QED BY <1>2
<1>6. ASSUME least >= 0
      PROVE  /\ \A m \in Nat : m <= least => Within(m, n, flags)
             /\ Full(least, n, flags)
  <2>1. /\ share >= 0
        /\ 200 * share <= 2 * percent * n + 100 /\ 200 * share >= 2 * percent * n - 100
    <3> HIDE DEF want, share, least, percent
    <3> QED BY <1>3, <1>4, <1>6
  <2>2. flags.count.given = "int" => want = flags.count.val
    OBVIOUS
  <2>3. flags.count.given # "int" => want = n
    OBVIOUS
  <2>4. flags.percent.given = "int" => percent = flags.percent.val
    OBVIOUS
  <2>5. flags.percent.given # "int" => share >= n
    <3>1. flags.percent.given # "int" => percent = 100
      OBVIOUS
    <3> HIDE DEF share, percent
    <3>2. percent = 100 => 2 * percent * n - 100 = 200 * n - 100
      OBVIOUS
    <3> QED BY <1>3, <2>1, <3>1, <3>2
  <2>6. 2 * percent * n \in Int
    BY <1>1
  <2> HIDE DEF want, share, least, percent
  <2>7. ASSUME NEW m \in Nat, m <= least PROVE Within(m, n, flags)
    <3>1. m <= want /\ 200 * m <= 2 * percent * n + 100
      BY <1>1, <1>3, <1>4, <2>1, <2>6, <2>7
    <3> QED BY <2>2, <2>4, <3>1 DEF Within
  <2>8. Full(least, n, flags)
    <3>1. CASE least = want
      BY <2>2, <2>3, <3>1 DEF Full
    <3>2. CASE least = share /\ flags.percent.given = "int"
      BY <2>1, <2>4, <3>2 DEF Full
    <3>3. CASE least = share /\ flags.percent.given # "int"
      <4>1. least = n
        BY <1>3, <1>4, <2>5, <3>3
      <4> QED BY <4>1 DEF Full
    <3>4. CASE least = n
      BY <3>4 DEF Full
    <3> QED BY <1>4, <3>1, <3>2, <3>3, <3>4
  <2> QED BY <2>7, <2>8
<1> HIDE DEF least, c
<1> QED BY <1>4, <1>5, <1>6 DEF c

\* The resources in the groups that the limits are applied to.
Grouped(list, flags) ==
    IF flags.group = <<>> THEN [k \in DOMAIN list |-> [res |-> list[k], group |-> Blank]]
    ELSE Entries(list, flags.group)

LEMMA Quotient ==
    ASSUME NEW n \in Nat, NEW d \in Nat \ {0}, NEW k \in 1 .. (n * d)
    PROVE  (k - 1) \div d \in Nat /\ (k - 1) \div d < n
<1> DEFINE q == (k - 1) \div d
<1>1. n * d \in Nat /\ k - 1 \in Nat /\ k <= n * d
  OBVIOUS
<1>2. q \in Int /\ d * q <= k - 1 /\ k - 1 < d * (q + 1)
  <2>1. \A x \in Int : x \div d \in Int /\ d * (x \div d) <= x /\ x < d * ((x \div d) + 1)
    OBVIOUS
  <2> QED BY <1>1, <2>1
<1> HIDE DEF q
<1>3. q >= 0
  <2> SUFFICES ASSUME q + 1 <= 0 PROVE FALSE
    BY <1>2
  <2>1. d * (q + 1) <= 0
    BY <1>2
  <2> QED BY <1>1, <1>2, <2>1
<1>4. q < n
  <2> SUFFICES ASSUME n <= q PROVE FALSE
    BY <1>2
  <2>1. d * n <= d * q
    BY <1>2
  <2> QED BY <1>1, <1>2, <2>1
<1> QED BY <1>2, <1>3, <1>4 DEF q

LEMMA GroupedFacts ==
    ASSUME NEW list, List(list), NEW flags, FlagsOK(flags)
    PROVE  /\ List(Grouped(list, flags))
           /\ \A k \in DOMAIN Grouped(list, flags) : Grouped(list, flags)[k].res \in Range(list)
<1>1. Len(list) \in Nat /\ DOMAIN list = 1 .. Len(list)
  BY ListFacts
<1>2. CASE flags.group = <<>>
  <2> DEFINE t == [k \in DOMAIN list |-> [res |-> list[k], group |-> Blank]]
  <2>1. Grouped(list, flags) = t
    BY <1>2 DEF Grouped
  <2>2. DOMAIN t = 1 .. Len(list) /\ t = [k \in 1 .. Len(list) |-> t[k]]
        /\ \A k \in DOMAIN t : t[k].res \in Range(list)
    BY <1>1 DEF Range
  <2> HIDE DEF t
  <2>3. List(t)
    BY <1>1, <2>2, FunctionIsList
  <2> QED BY <2>1, <2>2, <2>3
<1>3. CASE flags.group # <<>>
  <2> DEFINE keys == flags.group
             n    == Len(list) * Len(keys)
             at(k) == ((k - 1) \div Len(keys)) + 1
             group(k) == LET key == keys[((k - 1) % Len(keys)) + 1]
                         IN  IF key \in DOMAIN list[at(k)].labels THEN list[at(k)].labels[key] ELSE Blank
             t == [k \in 1 .. n |-> [res |-> list[at(k)], group |-> group(k)]]
  <2>1. Len(keys) \in Nat \ {0}
    BY <1>3, ListFacts, EmptySeq DEF FlagsOK, List
  <2>2. Grouped(list, flags) = t
    BY <1>3 DEF Grouped, Entries
  <2>3. ASSUME NEW k \in 1 .. n PROVE at(k) \in DOMAIN list
    <3> HIDE DEF keys
    <3>1. (k - 1) \div Len(keys) \in Nat /\ (k - 1) \div Len(keys) < Len(list)
      BY <1>1, <2>1, Quotient
    <3> QED BY <1>1, <3>1
  <2>4. n \in Nat
    BY <1>1, <2>1
  <2> HIDE DEF keys, n, at, group
  <2>5. DOMAIN t = 1 .. n /\ t = [k \in 1 .. n |-> t[k]] /\ \A k \in 1 .. n : t[k].res = list[at(k)]
    OBVIOUS
  <2> HIDE DEF t
  <2>6. List(t)
    BY <2>4, <2>5, FunctionIsList
  <2>7. \A k \in DOMAIN t : t[k].res \in Range(list)
    BY <2>3, <2>5 DEF Range
  <2> QED BY <2>2, <2>6, <2>7
<1> QED BY <1>2, <1>3

\* The groups that there are.
Groups(entries) == {entries[k].group : k \in DOMAIN entries}
Resources(entries) == [k \in DOMAIN entries |-> entries[k].res]

\* A choice of entries: of every group as many as the limits leave.
Chosen(entries, K, flags) ==
    \A g \in Groups(entries) :
        Cardinality(K \cap Members(entries, g)) = CountOf(entries, g, flags).n

\* Of positions there are c up to the c-th.
LEMMA UpToFacts ==
    ASSUME NEW M \in SUBSET Nat, IsFiniteSet(M), NEW c \in 0 .. Cardinality(M)
    PROVE  Cardinality({k \in M : Cardinality({j \in M : j <= k}) <= c}) = c
<1> DEFINE rank(k) == Cardinality({j \in M : j <= k})
           S == {k \in M : rank(k) <= c}
           f == [i \in 1 .. c |-> Nth(M, i)]
<1>1. /\ Cardinality(M) \in Nat
      /\ \A i \in 1 .. Cardinality(M) : Nth(M, i) \in M /\ rank(Nth(M, i)) = i
      /\ \A k \in M : \E i \in 1 .. Cardinality(M) : Nth(M, i) = k
  BY NthFacts
<1>2. c \in Nat /\ c <= Cardinality(M) /\ \A i \in 1 .. c : i \in 1 .. Cardinality(M) /\ i <= c
  BY <1>1
<1> HIDE DEF rank
<1>3. \A i \in 1 .. c : f[i] = Nth(M, i) /\ f[i] \in S /\ rank(f[i]) = i
  BY <1>1, <1>2
<1>4. ASSUME NEW k \in S PROVE \E i \in 1 .. c : f[i] = k
  <2>1. PICK i \in 1 .. Cardinality(M) : Nth(M, i) = k
    BY <1>1
  <2>2. rank(k) = i /\ rank(k) <= c
    BY <1>1, <2>1
  <2>3. i \in 1 .. c
    BY <1>2, <2>2
  <2> QED BY <2>1, <2>3
<1> HIDE DEF S
<1>5. ExistsBijection(1 .. c, S)
  <2>1. f \in [1 .. c -> S]
    BY <1>3
  <2> HIDE DEF f
  <2>2. \A i, j \in 1 .. c : f[i] = f[j] => i = j
    BY <1>3
  <2> QED BY <1>4, <2>1, <2>2 DEF ExistsBijection, Bijection, Injection, Surjection, IsInjective
<1>6. IsFiniteSet(1 .. c) /\ Cardinality(1 .. c) = c
  BY <1>2, FS_Interval
<1> HIDE DEF f
<1>7. Cardinality(S) = c
  BY <1>5, <1>6, FS_Bijection
<1> QED BY <1>7 DEF S, rank

\* Whatever the selection, it is a choice, when the limits leave something of
\* every group.
LEMMA SelectionsFacts ==
    ASSUME NEW entries, List(entries), NEW flags, FlagsOK(flags),
           \A g \in Groups(entries) : ~(CountOf(entries, g, flags).n < 0),
           NEW K \in Selections(entries, flags)
    PROVE  K \in SUBSET DOMAIN entries /\ Chosen(entries, K, flags)
<1>1. CASE flags.random
  BY <1>1 DEF Selections, Chosen, Groups
<1>2. CASE ~flags.random
  <2>1. K = FirstOnes(entries, flags) /\ K \in SUBSET DOMAIN entries
    BY <1>2 DEF Selections, FirstOnes
  <2>2. ASSUME NEW g \in Groups(entries)
        PROVE  Cardinality(K \cap Members(entries, g)) = CountOf(entries, g, flags).n
    <3> DEFINE M == Members(entries, g)
               c == CountOf(entries, g, flags).n
    <3>1. M \in SUBSET DOMAIN entries
      BY DEF Members
    <3>2. M \in SUBSET Nat /\ IsFiniteSet(M) /\ Cardinality(M) \in Nat
      <4> HIDE DEF M
      <4> QED BY <3>1, PositionsFinite
    <3>3. c \in Int /\ c <= Cardinality(M)
      BY <3>2, CountFacts DEF CountOf
    <3>4. c \in 0 .. Cardinality(M)
      <4>1. ~(c < 0)
        OBVIOUS
      <4> HIDE DEF c
      <4> QED BY <3>2, <3>3, <4>1
    <3>5. K \cap M = {k \in M : Cardinality({j \in M : j <= k}) <= c}
      BY <2>1 DEF FirstOnes, Members
    <3> HIDE DEF M, c
    <3>6. Cardinality(K \cap M) = c
      BY <3>2, <3>4, <3>5, UpToFacts
    <3> QED BY <3>6 DEF M, c
  <2> QED BY <2>1, <2>2 DEF Chosen
<1> QED BY <1>1, <1>2

\* What is left of the pods: a choice in every group, unless it has failed.
LEMMA FilterFacts ==
    ASSUME NEW list, List(list), NEW flags, FlagsOK(flags), NEW o \in filterPods(list, flags)
    PROVE  LET entries == Grouped(list, flags)
           IN  \/ o = Fail \/ o = Panic
               \/ \E K \in SUBSET DOMAIN entries :
                     /\ o = Ok(Pick(Resources(entries), K))
                     /\ Chosen(entries, K, flags)
                     /\ \A g \in Groups(entries) : CountOf(entries, g, flags).ok
                                                   /\ ~(CountOf(entries, g, flags).n < 0)
<1> DEFINE entries == Grouped(list, flags)
           counts  == {CountOf(entries, g, flags) : g \in Groups(entries)}
<1>1. filterPods(list, flags) =
        IF \E c \in counts : ~c.ok THEN {Fail}
        ELSE IF \E c \in counts : c.n < 0 THEN {Panic}
        ELSE {IF K = {} /\ flags.group # <<>> THEN Fail ELSE Ok(Pick(Resources(entries), K)) :
                 K \in Selections(entries, flags)}
  BY DEF filterPods, Grouped, Groups, Resources
<1>2. CASE (\E c \in counts : ~c.ok) \/ (\E c \in counts : c.n < 0)
  <2> HIDE DEF counts, entries
  <2> QED BY <1>1, <1>2
<1>3. CASE ~(\E c \in counts : ~c.ok) /\ ~(\E c \in counts : c.n < 0)
  <2>1. \A g \in Groups(entries) : CountOf(entries, g, flags).ok /\ ~(CountOf(entries, g, flags).n < 0)
    <3> HIDE DEF entries
    <3> QED BY <1>3
  <2>2. List(entries)
    BY GroupedFacts
  <2> HIDE DEF counts, entries
  <2>3. PICK K \in Selections(entries, flags) :
           o = IF K = {} /\ flags.group # <<>> THEN Fail ELSE Ok(Pick(Resources(entries), K))
    BY <1>1, <1>3
  <2>4. K \in SUBSET DOMAIN entries /\ Chosen(entries, K, flags)
    BY <2>1, <2>2, SelectionsFacts
  <2> QED BY <2>1, <2>3, <2>4 DEF entries
<1> QED BY <1>2, <1>3

LEMMA GroupedRange ==
    ASSUME NEW list, List(list), NEW flags, FlagsOK(flags), NEW K \in SUBSET DOMAIN Grouped(list, flags)
    PROVE  LET chosen == Pick(Resources(Grouped(list, flags)), K)
           IN  List(Resources(Grouped(list, flags))) /\ List(chosen) /\ Range(chosen) \subseteq Range(list)
<1> DEFINE entries == Grouped(list, flags)
           t       == Resources(entries)
<1>1. List(entries) /\ \A k \in DOMAIN entries : entries[k].res \in Range(list)
  BY GroupedFacts
<1> HIDE DEF entries
<1>2. Len(entries) \in Nat /\ DOMAIN entries = 1 .. Len(entries)
  BY <1>1, ListFacts
<1>3. /\ DOMAIN t = 1 .. Len(entries) /\ t = [k \in 1 .. Len(entries) |-> t[k]]
      /\ \A k \in DOMAIN t : t[k] = entries[k].res
  BY <1>2 DEF Resources
<1>4. K \in SUBSET DOMAIN t
  BY <1>2, <1>3 DEF entries
<1> HIDE DEF t
<1>5. List(t)
  BY <1>2, <1>3, FunctionIsList
<1>6. List(Pick(t, K)) /\ Range(Pick(t, K)) = {t[k] : k \in K}
  BY <1>4, <1>5, PickFacts
<1>7. \A k \in K : t[k] \in Range(list)
  BY <1>1, <1>2, <1>3, <1>4
<1> QED BY <1>5, <1>6, <1>7 DEF t, entries

\* The pods that an experiment acts on are allowed by its flags
\* (GetMatchedPodResources).
LEMMA MatchedFacts ==
    ASSUME NEW all, List(all), NEW flags, FlagsOK(flags), NEW o \in GetMatchedPodResources(all, flags)
    PROVE  /\ List(o.list)
           /\ o.resp = "ok" \/ o = Fail \/ o = Panic
           /\ \A p \in Range(o.list) : p \in Range(all) /\ Allowed(p, flags)
<1> DEFINE found == podResources(all, flags)
<1>1. List(<<>>) /\ Range(<<>>) = {}
  BY EmptySeq DEF List, Range
<1>2. Fail.list = <<>> /\ Panic.list = <<>>
  BY DEF Fail, Panic
<1>3. \A l : Ok(l).list = l /\ Ok(l).resp = "ok"
  BY DEF Ok
<1>4. /\ List(found.list)
      /\ \A p \in Range(found.list) : p \in Range(all) /\ Allowed(p, flags)
  BY PodResourcesFacts
<1>5. o = Fail \/ o \in filterPods(found.list, flags)
  BY DEF GetMatchedPodResources
<1> HIDE DEF found
<1>6. CASE o = Fail \/ o = Panic
  BY <1>1, <1>2, <1>6
<1>7. ASSUME NEW K \in SUBSET DOMAIN Grouped(found.list, flags),
             o = Ok(Pick(Resources(Grouped(found.list, flags)), K))
      PROVE  o.resp = "ok" /\ List(o.list) /\ Range(o.list) \subseteq Range(found.list)
  <2>1. /\ List(Pick(Resources(Grouped(found.list, flags)), K))
        /\ Range(Pick(Resources(Grouped(found.list, flags)), K)) \subseteq Range(found.list)
    BY <1>4, GroupedRange
  <2> QED BY <1>3, <1>7, <2>1
<1>8. \/ o = Fail \/ o = Panic
      \/ \E K \in SUBSET DOMAIN Grouped(found.list, flags) :
            o = Ok(Pick(Resources(Grouped(found.list, flags)), K))
  BY <1>4, <1>5, FilterFacts
<1> QED BY <1>4, <1>6, <1>7, <1>8

-----------------------------------------------------------------------------
(***************************************************************************)
(* The containers in them.                                                 *)
(***************************************************************************)

\* m is the meta of the running container k of the pod p.
IsMetaOf(m, p, k) ==
    k \in DOMAIN p.containers /\ p.containers[k].running /\ m = Meta(p, p.containers[k])

LEMMA MetaPoints == ASSUME NEW p, NEW c PROVE Points(Meta(p, c), p)
BY DEF Points, Meta

Running(p) == {k \in DOMAIN p.containers : p.containers[k].running}
UsablePlaces(list) == {i \in DOMAIN list : Running(list[i]) # {}}

\* Every pod that can be used gives one meta, that of a running container
\* (pod.ExpController.getContainerMatchedList).
LEMMA PodMetasFacts ==
    ASSUME NEW list, List(list), \A p \in Range(list) : List(p.containers)
    PROVE  LET U == UsablePlaces(list)
           IN  /\ List(podMetas(list)) /\ DOMAIN podMetas(list) = 1 .. Cardinality(U)
               /\ \A i \in 1 .. Cardinality(U) :
                     /\ Nth(U, i) \in U
                     /\ \E k : IsMetaOf(podMetas(list)[i], list[Nth(U, i)], k)
<1> DEFINE U      == UsablePlaces(list)
           usable == Pick(list, U)
           meta(p) == Meta(p, p.containers[Nth(Running(p), 1)])
           t      == [i \in DOMAIN usable |-> meta(usable[i])]
<1>1. podMetas(list) = t
  BY DEF podMetas, UsablePlaces, Running
<1>2. U \in SUBSET DOMAIN list
  BY DEF UsablePlaces
<1>3. \A i \in U : Running(list[i]) # {} /\ list[i] \in Range(list)
  BY DEF UsablePlaces, Range
<1> HIDE DEF U
<1>4. /\ DOMAIN usable = 1 .. Cardinality(U) /\ Cardinality(U) \in Nat
      /\ \A i \in 1 .. Cardinality(U) : Nth(U, i) \in U /\ usable[i] = list[Nth(U, i)]
  BY <1>2, PickFacts, PositionsFinite
<1>5. ASSUME NEW p \in Range(list), Running(p) # {} PROVE IsMetaOf(meta(p), p, Nth(Running(p), 1))
  <2>1. Running(p) \in SUBSET DOMAIN p.containers
    BY DEF Running
  <2>2. Running(p) \in SUBSET Nat /\ IsFiniteSet(Running(p)) /\ Cardinality(Running(p)) \in Nat
    BY <2>1, PositionsFinite
  <2>3. Cardinality(Running(p)) # 0
    BY <1>5, <2>2, FS_EmptySet
  <2>4. Nth(Running(p), 1) \in Running(p)
    BY <2>2, <2>3, NthFacts
  <2> QED BY <2>4 DEF IsMetaOf, Running
<1> HIDE DEF usable, meta
<1>6. /\ DOMAIN t = 1 .. Cardinality(U) /\ t = [i \in 1 .. Cardinality(U) |-> t[i]]
      /\ \A i \in 1 .. Cardinality(U) : t[i] = meta(usable[i])
  BY <1>4
<1> HIDE DEF t
<1>7. List(t)
  BY <1>4, <1>6, FunctionIsList
<1>8. ASSUME NEW i \in 1 .. Cardinality(U) PROVE \E k : IsMetaOf(t[i], list[Nth(U, i)], k)
  BY <1>3, <1>4, <1>5, <1>6
<1> QED BY <1>1, <1>4, <1>6, <1>7, <1>8 DEF U

\* The containers asked for, and no others.
LEMMA AskedFacts ==
    ASSUME NEW list, List(list), \A i \in DOMAIN list : List(list[i].containers),
           NEW flags, FlagsOK(flags)
    PROVE  /\ List(AskedContainers(list, flags))
           /\ \A m : m \in Range(AskedContainers(list, flags)) <=>
                 \E i \in DOMAIN list : \E k \in DOMAIN list[i].containers :
                    m = Meta(list[i], list[i].containers[k]) /\ Wanted(list[i], k, flags) # {}
<1> DEFINE n(i, k)  == Cardinality(Wanted(list[i], k, flags))
           meta(i, k) == Meta(list[i], list[i].containers[k])
           row(i, k) == [x \in 1 .. n(i, k) |-> meta(i, k)]
           rows(i) == [k \in DOMAIN list[i].containers |-> row(i, k)]
           all     == [i \in DOMAIN list |-> Concat(rows(i))]
<1>1. AskedContainers(list, flags) = Concat(all)
  BY DEF AskedContainers
<1>2. ASSUME NEW i \in DOMAIN list, NEW k \in DOMAIN list[i].containers
      PROVE  /\ List(row(i, k))
             /\ Range(row(i, k)) = IF Wanted(list[i], k, flags) # {} THEN {meta(i, k)} ELSE {}
  <2>1. /\ IsFiniteSet(Wanted(list[i], k, flags)) /\ n(i, k) \in Nat
    <3>1. \/ Wanted(list[i], k, flags) \in SUBSET DOMAIN flags.ids
          \/ Wanted(list[i], k, flags) \in SUBSET DOMAIN flags.cnames
      BY DEF Wanted
    <3> QED BY <3>1, PositionsFinite DEF FlagsOK
  <2>2. n(i, k) = 0 <=> Wanted(list[i], k, flags) = {}
    BY <2>1, FS_EmptySet
  <2> HIDE DEF n, meta
  <2>3. /\ DOMAIN row(i, k) = 1 .. n(i, k) /\ row(i, k) = [x \in 1 .. n(i, k) |-> row(i, k)[x]]
        /\ \A x \in 1 .. n(i, k) : row(i, k)[x] = meta(i, k)
    OBVIOUS
  <2> HIDE DEF row
  <2>4. List(row(i, k))
    BY <2>1, <2>3, FunctionIsList
  <2>5. CASE Wanted(list[i], k, flags) = {}
    <3>1. DOMAIN row(i, k) = {}
      BY <2>1, <2>2, <2>3, <2>5
    <3> QED BY <2>4, <2>5, <3>1 DEF Range
  <2>6. CASE Wanted(list[i], k, flags) # {}
    <3>1. 1 \in 1 .. n(i, k)
      BY <2>1, <2>2, <2>6
    <3> QED BY <2>3, <2>4, <2>6, <3>1 DEF Range
  <2> QED BY <2>5, <2>6
<1> HIDE DEF row, meta
<1>3. ASSUME NEW i \in DOMAIN list
      PROVE  /\ List(Concat(rows(i)))
             /\ \A m : m \in Range(Concat(rows(i))) <=>
                   \E k \in DOMAIN list[i].containers : m = meta(i, k) /\ Wanted(list[i], k, flags) # {}
  <2> DEFINE N == Len(list[i].containers)
  <2>1. N \in Nat /\ DOMAIN list[i].containers = 1 .. N
    BY ListFacts
  <2>2. /\ DOMAIN rows(i) = DOMAIN list[i].containers
        /\ rows(i) = [k \in DOMAIN list[i].containers |-> rows(i)[k]]
        /\ \A k \in DOMAIN rows(i) : rows(i)[k] = row(i, k)
    OBVIOUS
  <2> HIDE DEF rows, N
  <2>3. List(rows(i))
    BY <2>1, <2>2, FunctionIsList
  <2>4. \A k \in DOMAIN rows(i) : List(rows(i)[k])
    BY <1>2, <2>2
  <2>5. /\ List(Concat(rows(i)))
        /\ Range(Concat(rows(i))) = UNION {Range(rows(i)[k]) : k \in DOMAIN rows(i)}
    BY <2>3, <2>4, ConcatFacts
  <2>6. ASSUME NEW k \in DOMAIN rows(i)
        PROVE  Range(rows(i)[k]) = IF Wanted(list[i], k, flags) # {} THEN {meta(i, k)} ELSE {}
    BY <1>2, <2>2
  <2>7. ASSUME NEW m PROVE m \in Range(Concat(rows(i))) <=>
                   \E k \in DOMAIN list[i].containers : m = meta(i, k) /\ Wanted(list[i], k, flags) # {}
    <3>1. m \in Range(Concat(rows(i))) <=> \E k \in DOMAIN rows(i) : m \in Range(rows(i)[k])
      BY <2>5
    <3>2. \A k \in DOMAIN rows(i) :
             m \in Range(rows(i)[k]) <=> m = meta(i, k) /\ Wanted(list[i], k, flags) # {}
      BY <2>6
    <3> QED BY <2>2, <3>1, <3>2
  <2> QED BY <2>5, <2>7
<1> HIDE DEF rows
<1>4. DOMAIN all = DOMAIN list /\ List(all) /\ \A i \in DOMAIN all : all[i] = Concat(rows(i))
  <2>1. Len(list) \in Nat /\ DOMAIN list = 1 .. Len(list)
    BY ListFacts
  <2>2. /\ DOMAIN all = DOMAIN list /\ all = [i \in DOMAIN list |-> all[i]]
        /\ \A i \in DOMAIN list : all[i] = Concat(rows(i))
    OBVIOUS
  <2> HIDE DEF all
  <2> QED BY <2>1, <2>2, FunctionIsList
<1> HIDE DEF all
<1>5. /\ List(Concat(all))
      /\ Range(Concat(all)) = UNION {Range(all[i]) : i \in DOMAIN all}
  BY <1>3, <1>4, ConcatFacts
<1>6. ASSUME NEW m
      PROVE  m \in Range(Concat(all)) <=> \E i \in DOMAIN list : \E k \in DOMAIN list[i].containers :
                                             m = meta(i, k) /\ Wanted(list[i], k, flags) # {}
  <2>1. m \in Range(Concat(all)) <=> \E i \in DOMAIN list : m \in Range(Concat(rows(i)))
    BY <1>4, <1>5
  <2> QED BY <1>3, <2>1
<1> QED BY <1>1, <1>5, <1>6 DEF meta

\* m is the meta of the container k of p, and the loop over the containers has
\* met nothing wrong up to it.
Good(m, p, k) == k \in DOMAIN p.containers /\ ~StatusErr(p, k) /\ m = Meta(p, p.containers[k])

\* With container-ids or container-names the metas are those of the containers
\* asked for, none of which has or follows a bad one; with container-index one
\* container of each pod (getMatchedContainerMetaList).
LEMMA ContainerMetasFacts ==
    ASSUME NEW list, List(list), \A i \in DOMAIN list : List(list[i].containers),
           NEW flags, FlagsOK(flags)
    PROVE  LET o == containerMetas(list, flags)
           IN  /\ List(o.list)
               /\ o.resp = "ok" \/ o = Fail \/ o = Panic
               /\ o.resp = "ok" /\ (flags.ids # <<>> \/ flags.cnames # <<>>) =>
                    /\ \A m : m \in Range(o.list) <=>
                          \E p \in Range(list) : \E k \in DOMAIN p.containers :
                             m = Meta(p, p.containers[k]) /\ Wanted(p, k, flags) # {}
                    /\ \A p \in Range(list) : \A k \in DOMAIN p.containers :
                          Wanted(p, k, flags) # {} => ~StatusErr(p, k)
               /\ o.resp = "ok" /\ ~(flags.ids # <<>> \/ flags.cnames # <<>>) =>
                    \A m \in Range(o.list) : \E p \in Range(list) : Good(m, p, flags.index.val + 1)
<1> DEFINE byFlag == flags.ids # <<>> \/ flags.cnames # <<>>
           K      == {i \in DOMAIN list : list[i].containers # <<>>}
           listed == Pick(list, K)
           idx    == flags.index.val
           bad    == \E i \in DOMAIN listed : \E k \in DOMAIN listed[i].containers :
                        Wanted(listed[i], k, flags) # {} /\ StatusErr(listed[i], k)
           out    == \E i \in DOMAIN listed : \/ idx >= Len(listed[i].containers)
                                              \/ StatusErr(listed[i], Len(listed[i].containers))
           each   == [i \in DOMAIN listed |-> Meta(listed[i], listed[i].containers[idx + 1])]
           o      == containerMetas(list, flags)
<1>1. o = IF byFlag THEN IF bad THEN Fail ELSE Ok(AskedContainers(listed, flags))
          ELSE IF listed = <<>> THEN Ok(<<>>)
          ELSE IF flags.index.given = "bad" THEN Fail
          ELSE IF idx < 0 THEN Panic
          ELSE IF out THEN Fail ELSE Ok(each)
  BY DEF containerMetas
<1>2. List(<<>>) /\ Range(<<>>) = {}
  BY EmptySeq DEF List, Range
<1>3. Fail.list = <<>> /\ Panic.list = <<>> /\ Fail.resp # "ok" /\ Panic.resp # "ok"
  BY DEF Fail, Panic
<1>4. \A l : Ok(l).list = l /\ Ok(l).resp = "ok"
  BY DEF Ok
<1>5. K \in SUBSET DOMAIN list /\ \A i \in DOMAIN list : i \in K <=> list[i].containers # <<>>
  OBVIOUS
<1> HIDE DEF K
<1>6. List(listed) /\ Range(listed) = {list[i] : i \in K}
  BY <1>5, PickFacts
<1> HIDE DEF listed, o
<1>7. \A i \in DOMAIN listed : listed[i] \in Range(listed)
  BY DEF Range
<1>8. \A p \in Range(listed) : p \in Range(list) /\ List(p.containers)
  BY <1>5, <1>6 DEF Range
<1>9. ASSUME NEW p \in Range(list), NEW k \in DOMAIN p.containers PROVE \E i \in DOMAIN listed : p = listed[i]
  <2>1. PICK i \in DOMAIN list : p = list[i]
    BY DEF Range
  <2>2. p.containers # <<>>
    BY <1>9, EmptySeq
  <2>3. p \in Range(listed)
    BY <1>5, <1>6, <2>1, <2>2
  <2> QED BY <2>3 DEF Range
<1>10. CASE byFlag /\ ~bad
  <2>1. o = Ok(AskedContainers(listed, flags))
    BY <1>1, <1>10
  <2>2. \A i \in DOMAIN listed : List(listed[i].containers)
    BY <1>7, <1>8
  <2>3. /\ List(AskedContainers(listed, flags))
        /\ \A m : m \in Range(AskedContainers(listed, flags)) <=>
              \E i \in DOMAIN listed : \E k \in DOMAIN listed[i].containers :
                 m = Meta(listed[i], listed[i].containers[k]) /\ Wanted(listed[i], k, flags) # {}
    BY <1>6, <2>2, AskedFacts
  <2>4. ASSUME NEW m
        PROVE  m \in Range(AskedContainers(listed, flags)) <=>
                 \E p \in Range(list) : \E k \in DOMAIN p.containers :
                    m = Meta(p, p.containers[k]) /\ Wanted(p, k, flags) # {}
    <3>1. ASSUME NEW i \in DOMAIN listed, NEW k \in DOMAIN listed[i].containers,
                 m = Meta(listed[i], listed[i].containers[k]), Wanted(listed[i], k, flags) # {}
          PROVE  \E p \in Range(list) : \E l \in DOMAIN p.containers :
                    m = Meta(p, p.containers[l]) /\ Wanted(p, l, flags) # {}
      BY <1>7, <1>8, <3>1
    <3>2. ASSUME NEW p \in Range(list), NEW k \in DOMAIN p.containers,
                 m = Meta(p, p.containers[k]), Wanted(p, k, flags) # {}
          PROVE  \E i \in DOMAIN listed : \E l \in DOMAIN listed[i].containers :
                    m = Meta(listed[i], listed[i].containers[l]) /\ Wanted(listed[i], l, flags) # {}
      BY <1>9, <3>2
    <3> QED BY <2>3, <3>1, <3>2
  <2>5. ASSUME NEW p \in Range(list), NEW k \in DOMAIN p.containers, Wanted(p, k, flags) # {}
        PROVE  ~StatusErr(p, k)
    BY <1>9, <1>10, <2>5
  <2>6. o.list = AskedContainers(listed, flags) /\ o.resp = "ok"
    BY <1>4, <2>1
  <2> QED BY <1>10, <2>3, <2>4, <2>5, <2>6 DEF o
<1>11. CASE ~byFlag /\ o = Ok(each) /\ ~(idx < 0) /\ ~out
  <2>1. Len(listed) \in Nat /\ DOMAIN listed = 1 .. Len(listed)
    BY <1>6, ListFacts
  <2>2. idx \in Int
    BY DEF FlagsOK, NumFlag
  <2>3. /\ DOMAIN each = 1 .. Len(listed) /\ each = [i \in 1 .. Len(listed) |-> each[i]]
        /\ \A i \in 1 .. Len(listed) : each[i] = Meta(listed[i], listed[i].containers[idx + 1])
    BY <2>1
  <2>4. ASSUME NEW i \in DOMAIN listed
        PROVE  idx + 1 \in DOMAIN listed[i].containers /\ ~StatusErr(listed[i], idx + 1)
    <3>1. Len(listed[i].containers) \in Nat /\ DOMAIN listed[i].containers = 1 .. Len(listed[i].containers)
      BY <1>7, <1>8, ListFacts
    <3>2. ~(idx >= Len(listed[i].containers)) /\ ~StatusErr(listed[i], Len(listed[i].containers))
      BY <1>11
    <3>3. idx + 1 \in 1 .. Len(listed[i].containers)
      BY <1>11, <2>2, <3>1, <3>2
    <3> QED BY <3>1, <3>2, <3>3 DEF StatusErr
  <2> HIDE DEF each, byFlag
  <2>5. List(each)
    BY <2>1, <2>3, FunctionIsList
  <2>6. ASSUME NEW m \in Range(each)
        PROVE  \E p \in Range(list) : Good(m, p, idx + 1)
    <3>1. PICK i \in DOMAIN listed : m = each[i]
      BY <2>1, <2>3 DEF Range
    <3> QED BY <1>7, <1>8, <2>1, <2>3, <2>4, <3>1 DEF Good
  <2>7. o.list = each /\ o.resp = "ok"
    BY <1>4, <1>11
  <2> QED BY <1>11, <2>5, <2>6, <2>7 DEF o, byFlag
<1>12. CASE o = Fail \/ o = Panic
  BY <1>2, <1>3, <1>12 DEF o
<1>13. CASE ~byFlag /\ o = Ok(<<>>)
  BY <1>2, <1>4, <1>13 DEF o
<1> HIDE DEF bad, out, each, byFlag
<1> QED BY <1>1, <1>10, <1>11, <1>12, <1>13 DEF byFlag

-----------------------------------------------------------------------------
(***************************************************************************)
(* What a creation is handed.                                              *)
(***************************************************************************)

\* A pod as the cluster has it.
TypedPod(p) ==
    /\ p.ns \in Text /\ p.name \in Text /\ p.node \in Text
    /\ p.terminating \in BOOLEAN /\ p.ready \in BOOLEAN /\ p.rv \in Nat
    /\ p.containers \in Seq(Containers)
    /\ \A k \in DOMAIN p.containers :
         LET x == p.containers[k]
         IN  /\ x.name # Blank /\ (x.running => x.id # Blank)
             /\ \A l \in DOMAIN p.containers : p.containers[l].name = x.name => l = k
    /\ p.images \in [DOMAIN p.containers -> Nat]
    /\ p.notes \in [DOMAIN p.containers -> Nat \cup {-1}]

\* What the selection of an experiment ends in.
Sane(o) ==
    /\ o.resp \in {"ok", "fail", "panic"}
    /\ List(o.list) /\ \A m \in Range(o.list) : Sound(m)
    /\ o.resp # "ok" => o.list = <<>>

LEMMA NothingSane == Sane(Fail) /\ Sane(Panic) /\ Sane(Ok(<<>>))
<1>1. List(<<>>) /\ Range(<<>>) = {}
  BY EmptySeq DEF List, Range
<1> QED BY <1>1 DEF Sane, Fail, Panic, Ok

LEMMA ContainersListed == ASSUME NEW p, TypedPod(p) PROVE List(p.containers)
BY SeqOfRange DEF TypedPod, List

\* The meta of a running container has an identifier.
LEMMA MetaSound ==
    ASSUME NEW p, TypedPod(p), NEW m, NEW k, IsMetaOf(m, p, k)
    PROVE  Sound(m)
<1>1. k \in DOMAIN p.containers /\ p.containers[k].running /\ m = Meta(p, p.containers[k])
  BY DEF IsMetaOf
<1>2. p.containers[k] \in Containers
  <2>1. Len(p.containers) \in Nat /\ DOMAIN p.containers = 1 .. Len(p.containers)
    BY ContainersListed, ListFacts
  <2> QED BY <1>1, <2>1 DEF TypedPod
<1>3. p.containers[k].name # Blank /\ p.containers[k].id # Blank
  BY <1>1 DEF TypedPod
<1>4. m = [ns |-> p.ns, node |-> p.node, pod |-> p.name, cname |-> p.containers[k].name,
           cid |-> p.containers[k].id, runtime |-> p.containers[k].runtime]
  BY <1>1 DEF Meta
<1>5. p.ns \in Text /\ p.name \in Text /\ p.node \in Text
  BY DEF TypedPod
<1> DEFINE c == p.containers[k]
<1>6. c.name \in Text /\ c.id \in Text /\ c.runtime \in Text
  BY <1>2 DEF Containers
<1> HIDE DEF c
<1> QED BY <1>3, <1>4, <1>5, <1>6 DEF Sound, Metas, c

\* A container that is no error itself runs and has an identifier.
LEMMA GoodContainer ==
    ASSUME NEW p, TypedPod(p), NEW k \in DOMAIN p.containers, ~StatusErr(p, k)
    PROVE  p.containers[k].running /\ p.containers[k].id # Blank
<1>1. k \in 1 .. k
  BY ContainersListed, ListFacts
<1> QED BY <1>1 DEF StatusErr

LEMMA CreatePodsSane ==
    ASSUME NEW all, List(all), \A p \in Range(all) : TypedPod(p), NEW flags, FlagsOK(flags),
           NEW o \in CreatePods(all, flags)
    PROVE  Sane(o)
<1>1. PICK g \in GetMatchedPodResources(all, flags) :
         o = IF g.resp = "panic" THEN Panic ELSE IF podMetas(g.list) = <<>> THEN Fail
             ELSE Ok(podMetas(g.list))
  BY DEF CreatePods
<1>2. List(g.list) /\ \A p \in Range(g.list) : TypedPod(p)
  BY MatchedFacts
<1>3. \A p \in Range(g.list) : List(p.containers)
  BY <1>2, ContainersListed
<1>4. ASSUME NEW m \in Range(podMetas(g.list)) PROVE Sound(m)
  <2> DEFINE U == UsablePlaces(g.list)
  <2>1. /\ DOMAIN podMetas(g.list) = 1 .. Cardinality(U)
        /\ \A i \in 1 .. Cardinality(U) : /\ Nth(U, i) \in U
                                          /\ \E k : IsMetaOf(podMetas(g.list)[i], g.list[Nth(U, i)], k)
    BY <1>2, <1>3, PodMetasFacts
  <2>2. \A i \in U : g.list[i] \in Range(g.list)
    BY DEF UsablePlaces, Range
  <2> HIDE DEF U
  <2>3. PICK i \in 1 .. Cardinality(U) : m = podMetas(g.list)[i]
    BY <2>1 DEF Range
  <2>4. PICK k : IsMetaOf(m, g.list[Nth(U, i)], k)
    BY <2>1, <2>3
  <2> QED BY <1>2, <2>1, <2>2, <2>4, MetaSound
<1>5. List(podMetas(g.list))
  BY <1>2, <1>3, PodMetasFacts
<1>6. Sane(Ok(podMetas(g.list)))
  BY <1>4, <1>5 DEF Sane, Ok
<1> QED BY <1>1, <1>6, NothingSane

\* A container experiment acts on running containers of pods that are allowed.
LEMMA CreateContainersFrom ==
    ASSUME NEW all, List(all), \A p \in Range(all) : TypedPod(p), NEW flags, FlagsOK(flags),
           NEW o \in CreateContainers(all, flags)
    PROVE  \/ o = Fail \/ o = Panic
           \/ \E g \in GetMatchedPodResources(all, flags) :
                 g.resp = "ok" /\ o = containerMetas(g.list, flags) /\ o.resp = "ok"
<1>1. o = Fail \/ \E g \in GetMatchedPodResources(all, flags) :
         LET found == IF g.resp = "ok" THEN containerMetas(g.list, flags) ELSE g
         IN  o = IF found = Ok(<<>>) THEN Fail ELSE found
  BY DEF CreateContainers
<1>2. ASSUME NEW g \in GetMatchedPodResources(all, flags), g.resp = "ok"
      PROVE  LET c == containerMetas(g.list, flags) IN c.resp = "ok" \/ c = Fail \/ c = Panic
  <2>1. List(g.list) /\ \A p \in Range(g.list) : TypedPod(p)
    BY MatchedFacts
  <2>2. \A i \in DOMAIN g.list : List(g.list[i].containers)
    BY <2>1, ContainersListed DEF Range
  <2> QED BY <2>1, <2>2, ContainerMetasFacts
<1>3. \A g \in GetMatchedPodResources(all, flags) : g.resp = "ok" \/ g = Fail \/ g = Panic
  BY MatchedFacts
<1> QED BY <1>1, <1>2, <1>3

LEMMA ContainersOfMatched ==
    ASSUME NEW list, List(list), \A p \in Range(list) : TypedPod(p), NEW flags, FlagsOK(flags),
           containerMetas(list, flags).resp = "ok", NEW m \in Range(containerMetas(list, flags).list)
    PROVE  \E p \in Range(list) : \E k : IsMetaOf(m, p, k)
<1> DEFINE o == containerMetas(list, flags)
           byFlag == flags.ids # <<>> \/ flags.cnames # <<>>
<1>1. \A i \in DOMAIN list : List(list[i].containers)
  BY ContainersListed DEF Range
<1>2. CASE byFlag
  <2>1. /\ \A x : x \in Range(o.list) <=>
              \E p \in Range(list) : \E k \in DOMAIN p.containers :
                 x = Meta(p, p.containers[k]) /\ Wanted(p, k, flags) # {}
        /\ \A p \in Range(list) : \A k \in DOMAIN p.containers :
              Wanted(p, k, flags) # {} => ~StatusErr(p, k)
    BY <1>1, <1>2, ContainerMetasFacts
  <2>2. PICK p \in Range(list) : \E k \in DOMAIN p.containers :
           m = Meta(p, p.containers[k]) /\ Wanted(p, k, flags) # {}
    BY <2>1
  <2>3. PICK k \in DOMAIN p.containers : m = Meta(p, p.containers[k]) /\ Wanted(p, k, flags) # {}
    BY <2>2
  <2>4. ~StatusErr(p, k)
    BY <2>1, <2>3
  <2> QED BY <2>3, <2>4, GoodContainer DEF IsMetaOf
<1>3. CASE ~byFlag
  <2>1. \A x \in Range(o.list) : \E p \in Range(list) : Good(x, p, flags.index.val + 1)
    BY <1>1, <1>3, ContainerMetasFacts
  <2> QED BY <2>1, GoodContainer DEF IsMetaOf, Good
<1> QED BY <1>2, <1>3

LEMMA CreateContainersSane ==
    ASSUME NEW all, List(all), \A p \in Range(all) : TypedPod(p), NEW flags, FlagsOK(flags),
           NEW o \in CreateContainers(all, flags)
    PROVE  Sane(o)
<1>1. ASSUME NEW g \in GetMatchedPodResources(all, flags), g.resp = "ok",
             o = containerMetas(g.list, flags), o.resp = "ok"
      PROVE  Sane(o)
  <2>1. List(g.list) /\ \A p \in Range(g.list) : TypedPod(p)
    BY MatchedFacts
  <2>2. List(o.list)
    <3>1. \A i \in DOMAIN g.list : List(g.list[i].containers)
      BY <2>1, ContainersListed DEF Range
    <3> QED BY <1>1, <2>1, <3>1, ContainerMetasFacts
  <2>3. ASSUME NEW m \in Range(o.list) PROVE Sound(m)
    <3>1. PICK p \in Range(g.list) : \E k : IsMetaOf(m, p, k)
      BY <1>1, <2>1, <2>3, ContainersOfMatched
    <3>2. PICK k : IsMetaOf(m, p, k)
      BY <3>1
    <3> QED BY <2>1, <3>1, <3>2, MetaSound
  <2> QED BY <1>1, <2>2, <2>3 DEF Sane
<1> QED BY <1>1, CreateContainersFrom, NothingSane

\* The nodes of a selection are nodes of the cluster (getMatchedNodeResources).
LEMMA NodesFacts ==
    ASSUME NEW nodes, List(nodes), NEW flags, FlagsOK(flags)
    PROVE  LET o == getMatchedNodeResources(nodes, flags)
           IN  \/ o = Fail \/ o = Panic
               \/ \E list : o = Ok(list) /\ List(list) /\ Range(list) \subseteq Range(nodes)
<1> DEFINE named  == ByNames(nodes, Blank, flags)
           listed == ByLabels(nodes, Blank, flags)
           found  == nodeResources(nodes, flags)
           count(l) == GetResourceCount(Len(l), flags)
<1>1. List(<<>>) /\ Range(<<>>) = {}
  BY EmptySeq DEF List, Range
<1>2. List(named) /\ Range(named) \subseteq Range(nodes)
  BY ByNamesFacts DEF FlagsOK
<1>3. List(listed) /\ Range(listed) \subseteq Range(nodes)
  BY ByLabelsFacts
<1>4. found = Fail \/ found = Ok(named) \/ found = Ok(listed)
  <2> DEFINE l == IF flags.names # <<>> THEN named
                  ELSE IF flags.labels = <<>> \/ IllegalLabels(flags) THEN <<>> ELSE listed
  <2>1. found = IF l = <<>> THEN Fail ELSE Ok(l)
    BY DEF nodeResources
  <2>2. l = <<>> \/ l = named \/ l = listed
    OBVIOUS
  <2> HIDE DEF l, named, listed, found
  <2> QED BY <2>1, <2>2
<1> HIDE DEF named, listed, found
<1>5. ASSUME NEW l, List(l), Range(l) \subseteq Range(nodes)
      PROVE  LET o == filterNodes(l, flags)
             IN  \/ o = Fail \/ o = Panic
                 \/ \E list : o = Ok(list) /\ List(list) /\ Range(list) \subseteq Range(nodes)
  <2> DEFINE c == count(l)
             s == SubSeq(l, 1, c.n)
  <2>1. Len(l) \in Nat /\ DOMAIN l = 1 .. Len(l)
    BY <1>5, ListFacts
  <2>2. c.n \in Int /\ c.n <= Len(l)
    BY <2>1, CountFacts
  <2>3. \/ filterNodes(l, flags) = Ok(<<>>) \/ filterNodes(l, flags) = Fail
        \/ filterNodes(l, flags) = Panic
        \/ filterNodes(l, flags) = Ok(s) /\ ~(c.n < 0)
    BY DEF filterNodes
  <2> HIDE DEF c
  <2>4. ASSUME ~(c.n < 0) PROVE List(s) /\ Range(s) \subseteq Range(l)
    <3>1. \A i \in 1 .. c.n : l[i] \in Range(l)
      BY <2>1, <2>2 DEF Range
    <3>2. s \in Seq(Range(l))
      BY <2>2, <3>1, SubSeqProperties
    <3> HIDE DEF s
    <3>3. Len(s) \in Nat /\ DOMAIN s = 1 .. Len(s) /\ \A i \in 1 .. Len(s) : s[i] \in Range(l)
      BY <3>2, LenProperties
    <3> QED BY <3>2, <3>3, SeqOfRange DEF List, Range
  <2> HIDE DEF s
  <2> QED BY <1>1, <1>5, <2>3, <2>4
<1>6. \A l : Ok(l).list = l /\ Ok(l).resp = "ok" /\ Fail.resp # "ok"
  BY DEF Ok, Fail
<1>7. \/ getMatchedNodeResources(nodes, flags) = Fail
      \/ found.resp = "ok" /\ getMatchedNodeResources(nodes, flags) = filterNodes(found.list, flags)
  BY DEF getMatchedNodeResources, found
<1>8. found.resp = "ok" => List(found.list) /\ Range(found.list) \subseteq Range(nodes)
  BY <1>2, <1>3, <1>4, <1>6
<1> QED BY <1>5, <1>7, <1>8

LEMMA CreateNodesSane ==
    ASSUME NEW nodes, List(nodes), \A i \in DOMAIN nodes : nodes[i].name \in Text,
           NEW flags, FlagsOK(flags), NEW o \in CreateNodes(nodes, flags)
    PROVE  Sane(o)
<1> DEFINE g == getMatchedNodeResources(nodes, flags)
<1>1. g = Fail \/ g = Panic \/ \E list : g = Ok(list) /\ List(list) /\ Range(list) \subseteq Range(nodes)
  BY NodesFacts
<1>2. o = IF g.resp = "ok" THEN Ok(nodeMetas(g.list)) ELSE g
  BY DEF CreateNodes
<1> HIDE DEF g
<1>3. CASE g = Fail \/ g = Panic
  BY <1>2, <1>3, NothingSane DEF Fail, Panic
<1>4. ASSUME NEW list, g = Ok(list), List(list), Range(list) \subseteq Range(nodes) PROVE Sane(o)
  <2> DEFINE t == nodeMetas(list)
  <2>1. Len(list) \in Nat /\ DOMAIN list = 1 .. Len(list)
    BY <1>4, ListFacts
  <2>2. /\ DOMAIN t = 1 .. Len(list) /\ t = [i \in 1 .. Len(list) |-> t[i]]
        /\ \A i \in DOMAIN t : t[i] = [ns |-> Blank, node |-> list[i].name, pod |-> Blank,
                                       cname |-> Blank, cid |-> Blank, runtime |-> Blank]
    BY <2>1 DEF nodeMetas
  <2> HIDE DEF t
  <2>3. List(t)
    BY <2>1, <2>2, FunctionIsList
  <2>4. \A i \in DOMAIN t : list[i].name \in Text
    BY <1>4, <2>1, <2>2 DEF Range
  <2>5. Blank \in Text
    BY DEF Text
  <2>6. \A m \in Range(t) : Sound(m)
    BY <2>2, <2>4, <2>5 DEF Range, Sound, Metas
  <2>7. o = Ok(t)
    BY <1>2, <1>4 DEF Ok, t
  <2> QED BY <2>3, <2>6, <2>7 DEF Sane, Ok
<1> QED BY <1>1, <1>3, <1>4

PodsTyped == \A i \in DOMAIN pods : TypedPod(pods[i])

LEMMA RequestFlags == ASSUME request \in Requests, NEW e \in Exps PROVE FlagsOK(request[e].flags)
BY RequestsAssumption DEF FlagsOK, List

\* The flags as they are read ask for the same, by the same names or some of them.
LEMMA ReadingFacts ==
    ASSUME request \in Requests, NEW e \in Exps, NEW flags \in Readings(request[e].flags)
    PROVE  LET asked == request[e].flags
           IN  /\ FlagsOK(flags)
               /\ flags = [asked EXCEPT !.names = flags.names]
               /\ flags.ns = asked.ns /\ flags.labels = asked.labels /\ flags.ids = asked.ids
               /\ flags.cnames = asked.cnames /\ flags.index = asked.index
               /\ ToSet(flags.names) \subseteq ToSet(asked.names)
               /\ flags.names = <<>> <=> asked.names = <<>>
<1> DEFINE asked == request[e].flags
<1>1. FlagsOK(asked) /\ asked = [x \in FlagFields |-> asked[x]]
  BY RequestFlags, RequestsAssumption
<1>2. \/ flags = asked
      \/ \E K \in SUBSET DOMAIN asked.names :
            K # {} /\ flags = [asked EXCEPT !.names = Pick(asked.names, K)]
  <2> DEFINE Some == IF ApiFaults THEN (SUBSET DOMAIN asked.names) \ {{}} ELSE {}
             read(K) == [asked EXCEPT !.names = Pick(asked.names, K)]
  <2>1. Readings(asked) = {asked} \cup {read(K) : K \in Some}
    BY DEF Readings
  <2>2. \A K \in Some : K \in SUBSET DOMAIN asked.names /\ K # {}
    OBVIOUS
  <2> HIDE DEF Some, read
  <2>3. flags = asked \/ \E K \in Some : flags = read(K)
    BY <2>1
  <2> QED BY <2>2, <2>3 DEF read
<1> HIDE DEF asked
<1>3. CASE flags = asked
  <2>1. flags = [asked EXCEPT !.names = flags.names]
    BY <1>1, <1>3
  <2> QED BY <1>1, <1>3, <2>1 DEF asked
<1>4. ASSUME NEW K \in SUBSET DOMAIN asked.names, K # {},
             flags = [asked EXCEPT !.names = Pick(asked.names, K)]
      PROVE  /\ FlagsOK(flags)
             /\ flags = [asked EXCEPT !.names = flags.names]
             /\ flags.ns = asked.ns /\ flags.labels = asked.labels /\ flags.ids = asked.ids
             /\ flags.cnames = asked.cnames /\ flags.index = asked.index
             /\ ToSet(flags.names) \subseteq ToSet(asked.names)
             /\ flags.names = <<>> <=> asked.names = <<>>
  <2> DEFINE p == Pick(asked.names, K)
  <2>1. List(asked.names)
    BY <1>1 DEF FlagsOK
  <2>2. /\ List(p) /\ Len(p) = Cardinality(K)
        /\ Range(p) = {asked.names[k] : k \in K}
    BY <2>1, PickFacts
  <2>3. Cardinality(K) # 0 /\ asked.names # <<>>
    <3>1. IsFiniteSet(K)
      BY <2>1, PositionsFinite
    <3>2. Cardinality(K) # 0
      BY <1>4, <3>1, FS_EmptySet
    <3>3. DOMAIN asked.names # {}
      BY <1>4
    <3>4. DOMAIN <<>> = {}
      OBVIOUS
    <3> QED BY <3>2, <3>3, <3>4
  <2> HIDE DEF p
  <2>4. p # <<>>
    BY <2>2, <2>3, EmptySeq
  <2>5. ToSet(p) \subseteq ToSet(asked.names)
    BY <2>2 DEF ToSet, Range
  <2>6. flags = [asked EXCEPT !.names = p]
    BY <1>4 DEF p
  <2>7. /\ flags.names = p /\ flags.ns = asked.ns /\ flags.labels = asked.labels
        /\ flags.ids = asked.ids /\ flags.cnames = asked.cnames /\ flags.index = asked.index
        /\ flags.count = asked.count /\ flags.percent = asked.percent
        /\ flags.group = asked.group
    BY <1>1, <2>6 DEF FlagFields
  <2>8. FlagsOK(flags)
    BY <1>1, <2>2, <2>7 DEF FlagsOK
  <2> QED BY <2>3, <2>4, <2>5, <2>6, <2>7, <2>8
<1> QED BY <1>2, <1>3, <1>4 DEF asked

\* Every creation ends in metas that an identifier can be made of, or in none.
LEMMA OutcomesSane ==
    ASSUME List(pods), PodsTyped, request \in Requests, NEW e \in Exps,
           NEW flags \in Readings(request[e].flags), NEW o \in Outcomes(request[e], flags)
    PROVE  Sane(o)
<1>1. FlagsOK(flags)
  BY ReadingFacts
<1>2. \A p \in Range(pods) : TypedPod(p)
  BY DEF PodsTyped, Range
<1>3. List(Nodes) /\ \A i \in DOMAIN Nodes : Nodes[i].name \in Text
  BY NodesAssumption DEF List
<1>4. \/ o \in CreatePods(pods, flags) \/ o \in CreateNodes(Nodes, flags)
      \/ o \in CreateContainers(pods, flags) \/ o = Fail
  BY DEF Outcomes
<1> QED BY <1>1, <1>2, <1>3, <1>4, CreatePodsSane, CreateNodesSane, CreateContainersSane, NothingSane

-----------------------------------------------------------------------------
(***************************************************************************)
(* Pods stay what the cluster can have.                                    *)
(***************************************************************************)

\* The containers are those of before, running or not.
SameContainers(cs, ds) ==
    /\ DOMAIN cs = DOMAIN ds /\ cs = [k \in DOMAIN ds |-> cs[k]]
    /\ \A k \in DOMAIN ds : /\ cs[k] \in Containers /\ (cs[k].running => cs[k].id # Blank)
                            /\ cs[k].name = ds[k].name

LEMMA TypedLike ==
    ASSUME NEW p, TypedPod(p), NEW q, q.ns = p.ns, q.name = p.name, q.node = p.node,
           q.terminating \in BOOLEAN, q.ready \in BOOLEAN, q.rv \in Nat,
           SameContainers(q.containers, p.containers),
           q.images \in [DOMAIN p.containers -> Nat],
           q.notes \in [DOMAIN p.containers -> Nat \cup {-1}]
    PROVE  TypedPod(q)
<1> DEFINE n == Len(p.containers)
<1>1. n \in Nat /\ DOMAIN p.containers = 1 .. n
  BY ContainersListed, ListFacts
<1>2. /\ DOMAIN q.containers = 1 .. n /\ q.containers = [k \in 1 .. n |-> q.containers[k]]
      /\ \A k \in 1 .. n : /\ q.containers[k] \in Containers
                           /\ q.containers[k].running => q.containers[k].id # Blank
                           /\ q.containers[k].name = p.containers[k].name
  BY <1>1 DEF SameContainers
<1>3. q.containers \in Seq(Containers)
  <2> HIDE DEF n
  <2>1. q.containers \in [1 .. n -> Containers]
    BY <1>2
  <2> QED BY <1>1, <2>1
<1>4. ASSUME NEW k \in 1 .. n
      PROVE  /\ q.containers[k].name # Blank
             /\ \A l \in 1 .. n : q.containers[l].name = q.containers[k].name => l = k
  <2>1. /\ p.containers[k].name # Blank
        /\ \A l \in 1 .. n : p.containers[l].name = p.containers[k].name => l = k
    BY <1>1 DEF TypedPod
  <2> QED BY <1>2, <2>1
<1>5. q.ns \in Text /\ q.name \in Text /\ q.node \in Text
  BY DEF TypedPod
<1> QED BY <1>1, <1>2, <1>3, <1>4, <1>5 DEF TypedPod

LEMMA ContainersAsBefore == ASSUME NEW p, TypedPod(p) PROVE SameContainers(p.containers, p.containers)
<1>1. Len(p.containers) \in Nat /\ DOMAIN p.containers = 1 .. Len(p.containers)
  BY ContainersListed, ListFacts
<1>2. p.containers \in [1 .. Len(p.containers) -> Containers]
  BY <1>1 DEF TypedPod
<1> QED BY <1>1, <1>2 DEF TypedPod, SameContainers

\* A container is stopped, or started when it has an identifier.
LEMMA Restarted ==
    ASSUME NEW p, TypedPod(p), NEW b, \A k \in DOMAIN p.containers :
              b[k] \in BOOLEAN /\ (b[k] => p.containers[k].id # Blank)
    PROVE  SameContainers([k \in DOMAIN p.containers |-> [p.containers[k] EXCEPT !.running = b[k]]],
                          p.containers)
<1> DEFINE cs == [k \in DOMAIN p.containers |-> [p.containers[k] EXCEPT !.running = b[k]]]
<1>1. SameContainers(p.containers, p.containers)
  BY ContainersAsBefore
<1>2. ASSUME NEW k \in DOMAIN p.containers
      PROVE  /\ cs[k] \in Containers /\ (cs[k].running => cs[k].id # Blank)
             /\ cs[k].name = p.containers[k].name
  <2> DEFINE c == p.containers[k]
             d == [c EXCEPT !.running = b[k]]
  <2>1. c \in Containers
    BY <1>1 DEF SameContainers
  <2>2. b[k] \in BOOLEAN /\ (b[k] => c.id # Blank)
    OBVIOUS
  <2> HIDE DEF c
  <2>3. d \in Containers /\ d.name = c.name /\ d.id = c.id /\ d.running = b[k]
    BY <2>1, <2>2 DEF Containers
  <2>4. cs[k] = d
    BY DEF c
  <2> HIDE DEF cs, d
  <2> QED BY <2>2, <2>3, <2>4 DEF c
<1>3. DOMAIN cs = DOMAIN p.containers /\ cs = [k \in DOMAIN p.containers |-> cs[k]]
  OBVIOUS
<1> HIDE DEF cs
<1>4. SameContainers(cs, p.containers)
  BY <1>2, <1>3 DEF SameContainers
<1> QED BY <1>4 DEF cs

LEMMA TypedVersion ==
    ASSUME NEW p, WholePod(p), TypedPod(p), NEW v \in Nat PROVE TypedPod([p EXCEPT !.rv = v])
<1> DEFINE q == [p EXCEPT !.rv = v]
<1>1. /\ q.ns = p.ns /\ q.name = p.name /\ q.node = p.node /\ q.terminating = p.terminating
      /\ q.ready = p.ready /\ q.rv = v /\ q.containers = p.containers
      /\ q.images = p.images /\ q.notes = p.notes
  BY DEF WholePod, PodFields
<1> HIDE DEF q
<1>2. TypedPod(q)
  BY <1>1, TypedLike, ContainersAsBefore DEF TypedPod
<1> QED BY <1>2 DEF q

LEMMA TypedTerminated ==
    ASSUME NEW p, WholePod(p), TypedPod(p) PROVE TypedPod([p EXCEPT !.terminating = TRUE])
<1> DEFINE q == [p EXCEPT !.terminating = TRUE]
<1>1. /\ q.ns = p.ns /\ q.name = p.name /\ q.node = p.node /\ q.terminating = TRUE
      /\ q.ready = p.ready /\ q.rv = p.rv /\ q.containers = p.containers
      /\ q.images = p.images /\ q.notes = p.notes
  BY DEF WholePod, PodFields
<1> HIDE DEF q
<1>2. TypedPod(q)
  BY <1>1, TypedLike, ContainersAsBefore DEF TypedPod
<1> QED BY <1>2 DEF q

LEMMA TypedUnready ==
    ASSUME NEW p, WholePod(p), TypedPod(p)
    PROVE  TypedPod([p EXCEPT !.ready = FALSE,
                        !.containers = [k \in DOMAIN @ |-> [@[k] EXCEPT !.running = FALSE]]])
<1> DEFINE cs == [k \in DOMAIN p.containers |-> [p.containers[k] EXCEPT !.running = FALSE]]
           q  == [p EXCEPT !.ready = FALSE, !.containers = cs]
           b  == [k \in DOMAIN p.containers |-> FALSE]
<1>1. SameContainers(cs, p.containers)
  <2>1. \A k \in DOMAIN p.containers : b[k] = FALSE
    OBVIOUS
  <2>2. cs = [k \in DOMAIN p.containers |-> [p.containers[k] EXCEPT !.running = b[k]]]
    BY <2>1
  <2> HIDE DEF b, cs
  <2> QED BY <2>1, <2>2, Restarted
<1> HIDE DEF cs
<1>2. /\ q.ns = p.ns /\ q.name = p.name /\ q.node = p.node /\ q.terminating = p.terminating
      /\ q.ready = FALSE /\ q.rv = p.rv /\ q.containers = cs
      /\ q.images = p.images /\ q.notes = p.notes
  BY DEF WholePod, PodFields
<1> HIDE DEF q
<1>3. TypedPod(q)
  BY <1>1, <1>2, TypedLike DEF TypedPod
<1> QED BY <1>3 DEF q, cs

LEMMA TypedFailed ==
    ASSUME NEW p, WholePod(p), TypedPod(p) PROVE TypedPod(failPod(p))
<1> DEFINE q == failPod(p)
<1>1. /\ q.ns = p.ns /\ q.name = p.name /\ q.node = p.node /\ q.terminating = p.terminating
      /\ q.ready = p.ready /\ q.rv = p.rv /\ q.containers = p.containers
      /\ q.notes  = [k \in DOMAIN p.notes |-> IF p.notes[k] = -1 THEN p.images[k] ELSE p.notes[k]]
      /\ q.images = [k \in DOMAIN p.images |-> IF p.notes[k] = -1 THEN p.images[k] + 1 ELSE p.images[k]]
  BY DEF WholePod, PodFields, failPod
<1> HIDE DEF q
<1>2. q.images \in [DOMAIN p.containers -> Nat] /\ q.notes \in [DOMAIN p.containers -> Nat \cup {-1}]
  BY <1>1 DEF TypedPod
<1>3. TypedPod(q)
  BY <1>1, <1>2, TypedLike, ContainersAsBefore DEF TypedPod
<1> QED BY <1>3 DEF q

LEMMA TypedFresh ==
    ASSUME NEW p, WholePod(p), TypedPod(p) PROVE TypedPod(Fresh(p))
<1> DEFINE q  == Fresh(p)
           b  == [k \in DOMAIN p.containers |-> p.containers[k].id # Blank]
           cs == [k \in DOMAIN p.containers |-> [p.containers[k] EXCEPT !.running = p.containers[k].id # Blank]]
<1>1. /\ q.ns = p.ns /\ q.name = p.name /\ q.node = p.node /\ q.terminating = FALSE
      /\ q.ready = TRUE /\ q.rv = 0 /\ q.containers = cs
      /\ q.notes  = [k \in DOMAIN p.notes |-> -1]
      /\ q.images = [k \in DOMAIN p.images |-> 0]
  BY DEF WholePod, PodFields, Fresh
<1>2. SameContainers(cs, p.containers)
  <2>1. \A k \in DOMAIN p.containers : b[k] = (p.containers[k].id # Blank)
    BY Zenon
  <2>2. cs = [k \in DOMAIN p.containers |-> [p.containers[k] EXCEPT !.running = b[k]]]
    BY <2>1
  <2>3. \A k \in DOMAIN p.containers : b[k] \in BOOLEAN /\ (b[k] => p.containers[k].id # Blank)
    <3> HIDE DEF b
    <3> QED BY <2>1, Zenon
  <2> HIDE DEF b, cs
  <2> QED BY <2>2, <2>3, Restarted
<1> HIDE DEF cs, q
<1>3. q.images \in [DOMAIN p.containers -> Nat] /\ q.notes \in [DOMAIN p.containers -> Nat \cup {-1}]
  BY <1>1 DEF TypedPod
<1>4. TypedPod(q)
  <2>1. /\ q.ns = p.ns /\ q.name = p.name /\ q.node = p.node
        /\ q.terminating = FALSE /\ q.ready = TRUE /\ q.rv = 0
        /\ SameContainers(q.containers, p.containers)
    BY <1>1, <1>2, Zenon
  <2>2. q.terminating \in BOOLEAN /\ q.ready \in BOOLEAN
    BY <2>1, Zenon
  <2>3. q.rv \in Nat
    BY <2>1
  <2> QED BY <1>3, <2>1, <2>2, <2>3, TypedLike
<1> QED BY <1>4 DEF q

-----------------------------------------------------------------------------
(***************************************************************************)
(* The invariant: what is done and what is still to do is what was sent.   *)
(***************************************************************************)

Status == [identifier : Seq(Text), ok : BOOLEAN]

\* A resource has its status or is still to come, in the order in which the
\* creation was handed them; from its status the destroy will find it again.
Tracks(e) ==
    /\ todo[e] \in Seq(Metas) /\ sent[e] \in Seq(Metas) /\ statuses[e] \in Seq(Status)
    /\ \A k \in 1 .. Len(sent[e]) : Sound(sent[e][k])
    /\ stage[e] = "new" => statuses[e] = <<>>
    /\ stage[e] \in {"creating", "created"} =>
         /\ Len(statuses[e]) + Len(todo[e]) = Len(sent[e])
         /\ \A j \in 1 .. Len(todo[e]) : todo[e][j] = sent[e][Len(statuses[e]) + j]
         /\ \A k \in 1 .. Len(statuses[e]) :
               ParseIdentifier(statuses[e][k].identifier) = Target(e, sent[e][k])
    /\ stage[e] = "created" => todo[e] = <<>>

CopyTyped(e) == copy[e] = <<>> \/ (copy[e] = <<copy[e][1]>> /\ TypedPod(copy[e][1]))

\* With IInv, the inductive invariant of what follows.
Kept == /\ PodsTyped
        /\ request \in Requests /\ evictions \in 0 .. MaxEvictions
        /\ stage \in [Exps -> Stages]
        /\ sent = [e \in Exps |-> sent[e]]
        /\ \A e \in Exps : Tracks(e) /\ CopyTyped(e)

LEMMA SameTracks ==
    ASSUME NEW e, Tracks(e), CopyTyped(e), request' = request, stage'[e] = stage[e], todo'[e] = todo[e],
           statuses'[e] = statuses[e], sent'[e] = sent[e], copy'[e] = copy[e]
    PROVE  Tracks(e)' /\ CopyTyped(e)'
<1>1. CopyTyped(e)'
  BY DEF CopyTyped, TypedPod
<1>2. Tracks(e)'
  <2>1. /\ todo'[e] \in Seq(Metas) /\ sent'[e] \in Seq(Metas) /\ statuses'[e] \in Seq(Status)
        /\ \A k \in 1 .. Len(sent'[e]) : Sound(sent'[e][k])
        /\ stage'[e] = "new" => statuses'[e] = <<>>
        /\ stage'[e] = "created" => todo'[e] = <<>>
    BY DEF Tracks
  <2>2. ASSUME stage'[e] \in {"creating", "created"}
        PROVE  /\ Len(statuses'[e]) + Len(todo'[e]) = Len(sent'[e])
               /\ \A j \in 1 .. Len(todo'[e]) : todo'[e][j] = sent'[e][Len(statuses'[e]) + j]
               /\ \A k \in 1 .. Len(statuses'[e]) :
                     ParseIdentifier(statuses'[e][k].identifier) = Target(e, sent[e][k])
    BY <2>2 DEF Tracks
  <2>3. \A k : Target(e, sent[e][k])' = Target(e, sent[e][k])
    BY DEF Target
  <2> QED BY <2>1, <2>2, <2>3, Zenon DEF Tracks
<1> QED BY <1>1, <1>2

\* A step of one experiment.
LEMMA KeptStep ==
    ASSUME Kept, NEW e \in Exps, Only(e), PodsTyped', UNCHANGED <<request, evictions>>,
           sent' = [x \in Exps |-> sent'[x]], \A x \in Exps \ {e} : sent'[x] = sent[x],
           stage'[e] \in Stages, Tracks(e)', CopyTyped(e)'
    PROVE  Kept'
<1>1. stage' \in [Exps -> Stages]
  <2>1. \A x \in Exps : stage'[x] \in Stages
    BY DEF Only, Kept
  <2>2. stage' = [x \in Exps |-> stage'[x]]
    BY DEF Only
  <2> QED BY <2>1, <2>2
<1>2. ASSUME NEW x \in Exps \ {e} PROVE Tracks(x)' /\ CopyTyped(x)'
  <2>1. Tracks(x) /\ CopyTyped(x)
    BY DEF Kept
  <2>2. /\ stage'[x] = stage[x] /\ todo'[x] = todo[x] /\ copy'[x] = copy[x]
        /\ statuses'[x] = statuses[x] /\ sent'[x] = sent[x] /\ request' = request
    BY DEF Only
  <2> QED BY <2>1, <2>2, SameTracks
<1>3. request' \in Requests /\ evictions' \in 0 .. MaxEvictions
  BY DEF Kept
<1>4. \A x \in Exps : Tracks(x)' /\ CopyTyped(x)'
  BY <1>2
<1> QED BY <1>1, <1>3, <1>4 DEF Kept

LEMMA StoreTyped ==
    ASSUME PodsOK, PodsTyped, NEW i \in DOMAIN pods, NEW new, WholePod(new), TypedPod(new),
           Store(i, new)
    PROVE  PodsTyped'
<1>1. CASE new = pods[i]
  <2>1. pods' = pods
    BY <1>1 DEF Store
  <2> QED BY <2>1 DEF PodsTyped, TypedPod
<1>2. CASE new # pods[i]
  <2> DEFINE q == [new EXCEPT !.rv = new.rv + 1]
  <2>1. TypedPod(q)
    <3>1. new.rv + 1 \in Nat
      BY DEF TypedPod
    <3> QED BY <3>1, TypedVersion
  <2>2. pods' = [pods EXCEPT ![i] = q]
    BY <1>2 DEF Store
  <2> HIDE DEF q
  <2>3. DOMAIN pods' = DOMAIN pods /\ \A j \in DOMAIN pods : pods'[j] = pods[j] \/ pods'[j] = q
    BY <2>2
  <2>4. \A j \in DOMAIN pods' : TypedPod(pods'[j])
    BY <2>1, <2>3 DEF PodsTyped
  <2> QED BY <2>4 DEF PodsTyped, TypedPod
<1> QED BY <1>1, <1>2

LEMMA SamePodsTyped == ASSUME PodsTyped, UNCHANGED pods PROVE PodsTyped'
BY DEF PodsTyped, TypedPod

LEMMA SameCopy == ASSUME NEW e, CopyTyped(e), UNCHANGED copy PROVE CopyTyped(e)'
BY DEF CopyTyped, TypedPod

LEMMA TerminateTyped == ASSUME PodsOK, PodsTyped, NEW m, Terminate(m) PROVE PodsTyped'
<1>1. PICK i \in At(m) : Store(i, [pods[i] EXCEPT !.terminating = TRUE])
  BY DEF Terminate
<1> DEFINE new == [pods[i] EXCEPT !.terminating = TRUE]
<1>2. i \in DOMAIN pods /\ WholePod(pods[i]) /\ TypedPod(pods[i])
  BY DEF At, PodsOK, PodsTyped
<1>3. TypedPod(new) /\ WholePod(new)
  BY <1>2, TypedTerminated, Terminated DEF Resembles
<1> HIDE DEF new
<1> QED BY <1>1, <1>2, <1>3, StoreTyped DEF new

LEMMA EnvironmentTyped ==
    ASSUME PodsOK, PodsTyped, Environment
    PROVE  PodsTyped'
<1>1. PICK i \in DOMAIN pods : Kubelet(i) \/ Evict(i) \/ Gone(i)
  BY DEF Environment
<1>2. WholePod(pods[i]) /\ TypedPod(pods[i])
  BY DEF PodsOK, PodsTyped
<1>3. CASE Kubelet(i)
  <2> DEFINE cs  == [k \in DOMAIN pods[i].containers |-> [pods[i].containers[k] EXCEPT !.running = FALSE]]
             new == [pods[i] EXCEPT !.ready = FALSE, !.containers = cs]
  <2>1. Store(i, new)
    BY <1>3 DEF Kubelet
  <2>2. TypedPod(new)
    BY <1>2, TypedUnready
  <2> HIDE DEF cs
  <2>3. WholePod(new)
    BY <1>2, Unready DEF Resembles
  <2> HIDE DEF new
  <2> QED BY <2>1, <2>2, <2>3, StoreTyped
<1>4. CASE Evict(i)
  <2> DEFINE new == [pods[i] EXCEPT !.terminating = TRUE]
  <2>1. Store(i, new)
    BY <1>4 DEF Evict
  <2>2. TypedPod(new) /\ WholePod(new)
    BY <1>2, TypedTerminated, Terminated DEF Resembles
  <2> HIDE DEF new
  <2> QED BY <2>1, <2>2, StoreTyped
<1>5. CASE Gone(i) /\ pods[i].name \in Stable
  <2> DEFINE q == Fresh(pods[i])
  <2>1. pods' = [pods EXCEPT ![i] = q]
    BY <1>5 DEF Gone
  <2>2. TypedPod(q)
    BY <1>2, TypedFresh
  <2> HIDE DEF q
  <2>3. DOMAIN pods' = DOMAIN pods /\ \A j \in DOMAIN pods : pods'[j] = pods[j] \/ pods'[j] = q
    BY <2>1
  <2>4. \A j \in DOMAIN pods' : TypedPod(pods'[j])
    BY <2>2, <2>3 DEF PodsTyped
  <2> QED BY <2>4 DEF PodsTyped, TypedPod
<1>6. CASE Gone(i) /\ pods[i].name \notin Stable
  <2> DEFINE t == SubSeq(pods, 1, i - 1) \o SubSeq(pods, i + 1, Len(pods))
  <2>1. pods' = t
    BY <1>6 DEF Gone
  <2>2. /\ DOMAIN t = 1 .. Len(pods) - 1
        /\ \A j \in DOMAIN t : t[j] = pods[IF j < i THEN j ELSE j + 1]
    BY WithoutFacts DEF PodsOK
  <2>3. Len(pods) \in Nat /\ DOMAIN pods = 1 .. Len(pods)
    BY ListFacts DEF PodsOK
  <2> HIDE DEF t
  <2>4. \A j \in DOMAIN t : (IF j < i THEN j ELSE j + 1) \in DOMAIN pods
    BY <2>2, <2>3
  <2>5. \A j \in DOMAIN pods' : TypedPod(pods'[j])
    BY <2>1, <2>2, <2>4 DEF PodsTyped
  <2> QED BY <2>5 DEF PodsTyped, TypedPod
<1> QED BY <1>1, <1>3, <1>4, <1>5, <1>6

MetaFields == {"ns", "node", "pod", "cname", "cid", "runtime"}

\* The identifier of a resource, and what it is parsed back to: the delete
\* action's ends with the pod.
LEMMA TargetFacts ==
    ASSUME NEW e \in Exps, NEW m, Sound(m)
    PROVE  /\ request[e].action # "delete" =>
                 GetIdentifier(m) \in Seq(Text) /\ ParseIdentifier(GetIdentifier(m)) = Target(e, m)
           /\ request[e].action = "delete" =>
                 /\ <<m.ns, m.node, m.pod>> \in Seq(Text)
                 /\ ParseIdentifier(<<m.ns, m.node, m.pod>>) = Target(e, m)
<1>1. m.ns \in Text /\ m.node \in Text /\ m.pod \in Text
  BY DEF Sound, Metas
<1>2. ASSUME request[e].action # "delete"
      PROVE  GetIdentifier(m) \in Seq(Text) /\ ParseIdentifier(GetIdentifier(m)) = Target(e, m)
  <2>1. Target(e, m) = m
    BY <1>2 DEF Target
  <2> QED BY <2>1, RoundTrip
<1>3. ASSUME request[e].action = "delete"
      PROVE  /\ <<m.ns, m.node, m.pod>> \in Seq(Text)
             /\ ParseIdentifier(<<m.ns, m.node, m.pod>>) = Target(e, m)
  <2> DEFINE d == <<m.ns, m.node, m.pod>>
             n == [m EXCEPT !.cname = Blank, !.cid = Blank, !.runtime = Blank]
             part(i) == IF i <= Len(d) THEN d[i] ELSE Blank
  <2>1. m \in Metas
    BY DEF Sound
  <2>2. d \in Seq(Text) /\ Len(d) = 3 /\ d[1] = m.ns /\ d[2] = m.node /\ d[3] = m.pod
    BY <1>1
  <2>3. n = [ns |-> m.ns, node |-> m.node, pod |-> m.pod,
             cname |-> Blank, cid |-> Blank, runtime |-> Blank]
    <3>1. m = [f \in MetaFields |-> m[f]]
      BY <2>1 DEF Metas, MetaFields
    <3>2. /\ n = [f \in MetaFields |-> n[f]]
          /\ n.ns = m.ns /\ n.node = m.node /\ n.pod = m.pod
          /\ n.cname = Blank /\ n.cid = Blank /\ n.runtime = Blank
      BY <3>1 DEF MetaFields
    <3> HIDE DEF n
    <3> QED BY <3>2 DEF MetaFields
  <2>4. Target(e, m) = n
    BY <1>3 DEF Target
  <2> HIDE DEF d, n
  <2>5. /\ part(1) = m.ns /\ part(2) = m.node /\ part(3) = m.pod
        /\ part(4) = Blank /\ part(5) = Blank /\ part(6) = Blank
    BY <2>2
  <2>6. ParseIdentifier(d) = [ns |-> part(1), node |-> part(2), pod |-> part(3),
                              cname |-> part(4), cid |-> part(5), runtime |-> part(6)]
    BY DEF ParseIdentifier
  <2> HIDE DEF part
  <2>7. ParseIdentifier(d) = n
    BY <2>3, <2>5, <2>6
  <2> QED BY <2>2, <2>4, <2>7 DEF d
<1> QED BY <1>2, <1>3

\* A meta is taken off the list and its status kept.
LEMMA RecordTracks ==
    ASSUME Kept, NEW e \in Exps, NEW identifier \in Seq(Text), NEW ok \in BOOLEAN,
           stage[e] = "creating", todo[e] # <<>>, Record(e, identifier, ok), Only(e),
           ParseIdentifier(identifier) = Target(e, Head(todo[e])),
           UNCHANGED <<request, stage, sent>>
    PROVE  Tracks(e)' /\ CopyTyped(e)'
<1> DEFINE s == statuses[e]
           r == [identifier |-> identifier, ok |-> ok]
           n == Len(s)
           t == todo[e]
           z == sent[e]
<1>1. /\ t \in Seq(Metas) /\ z \in Seq(Metas) /\ s \in Seq(Status)
      /\ n + Len(t) = Len(z)
      /\ \A j \in 1 .. Len(t) : t[j] = z[n + j]
      /\ \A k \in 1 .. n : ParseIdentifier(s[k].identifier) = Target(e, z[k])
      /\ \A k \in 1 .. Len(z) : Sound(z[k])
  BY DEF Kept, Tracks
<1>2. statuses'[e] = Append(s, r) /\ todo'[e] = Tail(t) /\ copy'[e] = <<>>
  <2>1. /\ statuses' = [statuses EXCEPT ![e] = Append(@, r)]
        /\ todo' = [todo EXCEPT ![e] = Tail(@)] /\ copy' = [copy EXCEPT ![e] = <<>>]
    BY DEF Record
  <2>2. /\ statuses' = [x \in Exps |-> statuses'[x]] /\ todo' = [x \in Exps |-> todo'[x]]
        /\ copy' = [x \in Exps |-> copy'[x]]
    BY DEF Only
  <2>3. e \in DOMAIN statuses /\ e \in DOMAIN todo /\ e \in DOMAIN copy
    <3> HIDE DEF r
    <3> QED BY <2>1, <2>2
  <2> HIDE DEF r
  <2> QED BY <2>1, <2>3
<1>3. r \in Status /\ r.identifier = identifier
  BY DEF Status
<1> HIDE DEF r, s, t, z, n
<1>4. /\ Append(s, r) \in Seq(Status) /\ Len(Append(s, r)) = n + 1 /\ n \in Nat
      /\ \A k \in 1 .. n : Append(s, r)[k] = s[k]
      /\ Append(s, r)[n + 1] = r
  BY <1>1, <1>3, AppendProperties, LenProperties DEF n
<1>5. /\ Tail(t) \in Seq(Metas) /\ Len(t) \in Nat /\ Len(t) >= 1 /\ Len(Tail(t)) = Len(t) - 1
      /\ \A j \in 1 .. Len(Tail(t)) : Tail(t)[j] = t[j + 1]
      /\ Head(t) = t[1]
  BY <1>1, HeadTailProperties, EmptySeq, LenProperties DEF t
<1>6. \A m : Target(e, m)' = Target(e, m)
  BY DEF Target
<1>7. n + 1 + Len(Tail(t)) = Len(z)
  BY <1>1, <1>4, <1>5
<1>8. ASSUME NEW j \in 1 .. Len(Tail(t)) PROVE Tail(t)[j] = z[(n + 1) + j]
  <2>1. j + 1 \in 1 .. Len(t) /\ n + (j + 1) = (n + 1) + j
    BY <1>4, <1>5
  <2> QED BY <1>1, <1>5, <2>1
<1>9. ASSUME NEW k \in 1 .. n + 1
      PROVE  ParseIdentifier(Append(s, r)[k].identifier) = Target(e, z[k])
  <2>1. CASE k \in 1 .. n
    BY <1>1, <1>4, <2>1
  <2>2. CASE k = n + 1
    <3>1. 1 \in 1 .. Len(t) /\ Head(t) = z[n + 1]
      BY <1>1, <1>5
    <3> QED BY <1>3, <1>4, <2>2, <3>1 DEF t
  <2> QED BY <1>4, <2>1, <2>2
<1>10. CopyTyped(e)'
  BY <1>2 DEF CopyTyped
<1>11. sent'[e] = z /\ stage'[e] = "creating"
  BY DEF z
<1>12. Tracks(e)'
  BY <1>1, <1>2, <1>4, <1>5, <1>6, <1>7, <1>8, <1>9, <1>11 DEF Tracks
<1> QED BY <1>10, <1>12

\* What is next to do is what was sent.
LEMMA HeadSound ==
    ASSUME Kept, NEW e \in Exps, stage[e] = "creating", todo[e] # <<>>
    PROVE  Sound(Head(todo[e]))
<1> DEFINE t == todo[e]
           n == Len(statuses[e])
           z == sent[e]
<1>1. /\ t \in Seq(Metas) /\ z \in Seq(Metas) /\ statuses[e] \in Seq(Status)
      /\ n + Len(t) = Len(z)
      /\ \A j \in 1 .. Len(t) : t[j] = z[n + j]
      /\ \A k \in 1 .. Len(z) : Sound(z[k])
  BY DEF Kept, Tracks
<1>2. n \in Nat /\ Len(z) \in Nat
  BY <1>1, LenProperties
<1> HIDE DEF t, n, z
<1>3. Len(t) \in Nat /\ Len(t) >= 1 /\ Head(t) = t[1]
  BY <1>1, EmptySeq, LenProperties DEF t
<1>4. n + 1 \in 1 .. Len(z) /\ 1 \in 1 .. Len(t)
  BY <1>1, <1>2, <1>3
<1>5. Head(t) = z[n + 1]
  BY <1>1, <1>3, <1>4
<1> QED BY <1>1, <1>4, <1>5 DEF t

-----------------------------------------------------------------------------
(***************************************************************************)
(* The steps.                                                              *)
(***************************************************************************)

\* A step that leaves sent alone.
LEMMA SentSame ==
    ASSUME Kept, NEW e, UNCHANGED sent
    PROVE  sent' = [x \in Exps |-> sent'[x]] /\ \A x \in Exps \ {e} : sent'[x] = sent[x]
BY DEF Kept

LEMMA RecordKeeps ==
    ASSUME IInv, Kept, NEW e \in Exps, NEW identifier \in Seq(Text), NEW ok \in BOOLEAN,
           stage[e] = "creating", todo[e] # <<>>, Record(e, identifier, ok),
           ParseIdentifier(identifier) = Target(e, Head(todo[e])), PodsTyped',
           UNCHANGED <<request, stage, sent, evictions>>
    PROVE  Kept'
<1>1. Only(e)
  BY RecordFacts
<1>2. Tracks(e)' /\ CopyTyped(e)'
  BY <1>1, RecordTracks
<1>3. stage'[e] \in Stages
  BY DEF Stages
<1> QED BY <1>1, <1>2, <1>3, SentSame, KeptStep

\* The creation is handed what was selected.
LEMMA CreateKeeps == ASSUME IInv, Kept, NEW e \in Exps, Create(e) PROVE Kept'
<1>r. PICK flags \in Readings(request[e].flags) : CreateFrom(e, flags)
  BY DEF Create
<1>1. PICK o \in Outcomes(request[e], flags) :
         /\ stage' = [stage EXCEPT ![e] = CASE o.resp = "ok"   -> "creating"
                                            [] o.resp = "fail" -> "created"
                                            [] OTHER            -> "panicked"]
         /\ todo' = [todo EXCEPT ![e] = o.list]
         /\ sent' = [sent EXCEPT ![e] = o.list]
  BY <1>r DEF CreateFrom
<1>2. stage[e] = "new" /\ UNCHANGED <<pods, request, copy, statuses, hit, evictions, trouble>>
  BY <1>r DEF CreateFrom
<1>3. Sane(o)
  BY OutcomesSane DEF IInv, PodsOK, Kept
<1>4. /\ Only(e) /\ todo'[e] = o.list
      /\ \/ stage'[e] = "creating"
         \/ stage'[e] = "created" /\ o.list = <<>>
         \/ stage'[e] = "panicked" /\ o.list = <<>>
  <2>1. todo'[e] = o.list /\ Only(e)
    BY <1>1, <1>2 DEF IInv, ShapeOK, Only
  <2>2. stage'[e] = CASE o.resp = "ok"   -> "creating"
                      [] o.resp = "fail" -> "created"
                      [] OTHER            -> "panicked"
    BY <1>1 DEF Kept
  <2> QED BY <1>3, <2>1, <2>2 DEF Sane
<1>5. sent'[e] = o.list /\ sent' = [x \in Exps |-> sent'[x]] /\ \A x \in Exps \ {e} : sent'[x] = sent[x]
  BY <1>1 DEF Kept
<1> DEFINE z == o.list
<1>6. List(z) /\ \A m \in Range(z) : Sound(m)
  BY <1>3 DEF Sane
<1> HIDE DEF z
<1>7. /\ Len(z) \in Nat /\ DOMAIN z = 1 .. Len(z)
      /\ \A k \in 1 .. Len(z) : Sound(z[k])
  BY <1>6, ListFacts DEF Range
<1>8. z \in Seq(Metas)
  <2>1. z \in [1 .. Len(z) -> Metas]
    BY <1>6, <1>7, ListFacts DEF Sound
  <2> QED BY <1>7, <2>1
<1>9. statuses'[e] = <<>> /\ statuses'[e] \in Seq(Status) /\ Len(statuses'[e]) = 0
  BY <1>2, EmptySeq DEF Kept, Tracks
<1>10. todo'[e] = z /\ sent'[e] = z
  BY <1>4, <1>5 DEF z
<1>11. stage'[e] = "created" => todo'[e] = <<>>
  BY <1>4 DEF z
<1>12. \A j \in 1 .. Len(z) : 0 + j = j
  BY <1>7
<1>13. Tracks(e)'
  BY <1>4, <1>7, <1>8, <1>9, <1>10, <1>11, <1>12 DEF Tracks
<1>14. CopyTyped(e)' /\ PodsTyped'
  BY <1>2, SamePodsTyped, SameCopy DEF Kept
<1>15. stage'[e] \in Stages
  BY <1>4 DEF Stages
<1> QED BY <1>2, <1>4, <1>5, <1>13, <1>14, <1>15, KeptStep

\* A step of e that keeps its list, its statuses and its stage.
LEMMA ReadKeeps ==
    ASSUME IInv, Kept, NEW e \in Exps, NEW i \in DOMAIN pods, copy' = [copy EXCEPT ![e] = <<pods[i]>>],
           UNCHANGED <<pods, request, stage, todo, statuses, sent, evictions>>
    PROVE  Kept'
<1>1. Only(e) /\ copy'[e] = <<pods[i]>>
  BY DEF IInv, ShapeOK, Only
<1>2. PodsTyped' /\ TypedPod(pods[i])
  BY SamePodsTyped DEF Kept, PodsTyped
<1>3. CopyTyped(e)'
  <2>1. copy'[e][1] = pods[i]
    BY <1>1
  <2> QED BY <1>1, <1>2, <2>1 DEF CopyTyped, TypedPod
<1>4. Tracks(e)'
  <2>1. \A m : Target(e, m)' = Target(e, m)
    BY DEF Target
  <2> QED BY <2>1 DEF Kept, Tracks
<1>5. stage'[e] \in Stages
  BY DEF Kept
<1> QED BY <1>1, <1>2, <1>3, <1>4, <1>5, SentSame, KeptStep

LEMMA FailGetKeeps == ASSUME IInv, Kept, NEW e \in Exps, FailGet(e) PROVE Kept'
<1> DEFINE m == Head(todo[e])
<1>1. /\ Fails(e) /\ stage[e] = "creating" /\ todo[e] # <<>>
      /\ UNCHANGED <<pods, request, stage, sent, hit, evictions, trouble>>
  BY DEF FailGet
<1>2. \/ Record(e, GetIdentifier(m), FALSE)
      \/ \E i \in At(m) : copy' = [copy EXCEPT ![e] = <<pods[i]>>] /\ UNCHANGED <<todo, statuses>>
  BY DEF FailGet
<1>3. CASE Record(e, GetIdentifier(m), FALSE)
  <2>1. GetIdentifier(m) \in Seq(Text) /\ ParseIdentifier(GetIdentifier(m)) = Target(e, m)
    BY <1>1, HeadSound, TargetFacts DEF Fails
  <2>2. PodsTyped'
    BY <1>1, SamePodsTyped DEF Kept
  <2> QED BY <1>1, <1>3, <2>1, <2>2, RecordKeeps
<1>4. ASSUME NEW i \in At(m), copy' = [copy EXCEPT ![e] = <<pods[i]>>], UNCHANGED <<todo, statuses>>
      PROVE  Kept'
  BY <1>1, <1>4, ReadKeeps DEF At
<1> QED BY <1>2, <1>3, <1>4

LEMMA FailUpdateKeeps == ASSUME IInv, Kept, NEW e \in Exps, FailUpdate(e) PROVE Kept'
<1> DEFINE m == Head(todo[e])
           p == copy[e][1]
<1>1. /\ Fails(e) /\ stage[e] = "creating" /\ copy[e] # <<>> /\ todo[e] # <<>>
      /\ UNCHANGED <<request, stage, sent, evictions>>
  BY DEF FailUpdate, IInv, ShapeOK
<1>2. WholePod(p) /\ TypedPod(p)
  BY <1>1 DEF IInv, ShapeOK, Kept, CopyTyped
<1>3. GetIdentifier(m) \in Seq(Text) /\ ParseIdentifier(GetIdentifier(m)) = Target(e, m)
  BY <1>1, HeadSound, TargetFacts DEF Fails
<1>4. ASSUME NEW ok, ok = TRUE \/ ok = FALSE, Record(e, GetIdentifier(m), ok), PodsTyped' PROVE Kept'
  <2>1. ok \in BOOLEAN
    BY <1>4
  <2> QED BY <1>1, <1>3, <1>4, <2>1, RecordKeeps
<1>5. ASSUME NEW i \in At(m), Store(i, failPod(p)) PROVE PodsTyped'
  <2>1. i \in DOMAIN pods
    BY DEF At
  <2>2. WholePod(failPod(p)) /\ TypedPod(failPod(p))
    BY <1>2, FailedPod, TypedFailed
  <2> QED BY <1>5, <2>1, <2>2, StoreTyped DEF IInv, Kept
<1>6. \/ \E i \in At(m), ok \in {TRUE, ~ApiFaults} :
            Store(i, failPod(p)) /\ Record(e, GetIdentifier(m), ok)
      \/ UNCHANGED pods /\ Record(e, GetIdentifier(m), FALSE)
  BY Zenon DEF FailUpdate
<1>7. \A ok \in {TRUE, ~ApiFaults} : ok = TRUE \/ ok = FALSE
  BY PodBoundsAssumption
<1>8. CASE UNCHANGED pods /\ Record(e, GetIdentifier(m), FALSE)
  <2>1. PodsTyped'
    BY <1>8, SamePodsTyped DEF Kept
  <2> QED BY <1>4, <1>8, <2>1
<1>9. CASE \E i \in At(m), ok \in {TRUE, ~ApiFaults} :
            Store(i, failPod(p)) /\ Record(e, GetIdentifier(m), ok)
  BY <1>4, <1>5, <1>7, <1>9, Zenon
<1> QED BY <1>6, <1>8, <1>9

LEMMA OtherActionKeeps ==
    ASSUME IInv, Kept, NEW e \in Exps, DeletePod(e) \/ OtherExec(e) PROVE Kept'
<1> DEFINE m == Head(todo[e])
<1>1. /\ stage[e] = "creating" /\ todo[e] # <<>>
      /\ UNCHANGED <<request, stage, sent, evictions>>
  BY DEF DeletePod, OtherExec
<1>2. PodsTyped'
  <2>1. UNCHANGED pods \/ Terminate(m)
    BY DEF DeletePod, OtherExec
  <2> QED BY <2>1, SamePodsTyped, TerminateTyped DEF IInv, Kept
<1>3. Sound(m)
  BY <1>1, HeadSound
<1>4. ASSUME NEW identifier \in Seq(Text), NEW ok, ok = TRUE \/ ok = FALSE, Record(e, identifier, ok),
             ParseIdentifier(identifier) = Target(e, m)
      PROVE  Kept'
  <2>1. ok \in BOOLEAN
    BY <1>4
  <2> QED BY <1>1, <1>2, <1>4, <2>1, RecordKeeps
<1>5. CASE DeletePod(e)
  <2> DEFINE identifier == <<m.ns, m.node, m.pod>>
  <2>1. \/ \E ok \in {TRUE, ~ApiFaults} : Record(e, identifier, ok)
        \/ Record(e, identifier, FALSE)
    BY <1>5, Zenon DEF DeletePod
  <2>2. \A ok \in {TRUE, ~ApiFaults} : ok = TRUE \/ ok = FALSE
    BY PodBoundsAssumption
  <2>3. identifier \in Seq(Text) /\ ParseIdentifier(identifier) = Target(e, m)
    BY <1>3, <1>5, TargetFacts DEF DeletePod
  <2> HIDE DEF identifier
  <2> QED BY <1>4, <2>1, <2>2, <2>3, Zenon
<1>6. CASE OtherExec(e)
  <2>1. \E ok \in BOOLEAN : Record(e, GetIdentifier(m), ok)
    BY <1>6, Zenon DEF OtherExec
  <2>2. \A ok \in BOOLEAN : ok = TRUE \/ ok = FALSE
    OBVIOUS
  <2>3. request[e].action # "delete"
    BY <1>6 DEF OtherExec
  <2>4. GetIdentifier(m) \in Seq(Text) /\ ParseIdentifier(GetIdentifier(m)) = Target(e, m)
    BY <1>3, <2>3, TargetFacts
  <2> QED BY <1>4, <2>1, <2>2, <2>4, Zenon
<1> QED BY <1>5, <1>6

\* A step of the destroy.
LEMMA DestroyKeeps ==
    ASSUME IInv, Kept, NEW e \in Exps, Only(e), PodsTyped',
           stage'[e] \in {"destroying", "destroyed"}, todo'[e] \in Seq(Metas), CopyTyped(e)',
           UNCHANGED <<request, statuses, sent, evictions>>
    PROVE  Kept'
<1>1. /\ sent[e] \in Seq(Metas) /\ statuses[e] \in Seq(Status)
      /\ \A k \in 1 .. Len(sent[e]) : Sound(sent[e][k])
  BY DEF Kept, Tracks
<1>2. Tracks(e)'
  BY <1>1 DEF Tracks
<1>3. stage'[e] \in Stages
  BY DEF Stages
<1> QED BY <1>2, <1>3, SentSame, KeptStep

LEMMA CreateReturnsKeeps == ASSUME IInv, Kept, NEW e \in Exps, CreateReturns(e) PROVE Kept'
<1>1. /\ stage[e] = "creating" /\ stage'[e] = "created" /\ todo[e] = <<>>
      /\ UNCHANGED <<pods, request, todo, copy, statuses, sent, evictions>>
      /\ Only(e)
  BY DEF CreateReturns, IInv, ShapeOK, Only
<1>2. \A m : Target(e, m)' = Target(e, m)
  BY <1>1 DEF Target
<1>3. Tracks(e)'
  BY <1>1, <1>2 DEF Kept, Tracks
<1>4. PodsTyped' /\ CopyTyped(e)'
  BY <1>1, SamePodsTyped, SameCopy DEF Kept
<1>5. stage'[e] \in Stages
  BY <1>1 DEF Stages
<1> QED BY <1>1, <1>3, <1>4, <1>5, SentSame, KeptStep

\* What there is to destroy is what the identifiers are parsed to.
LEMMA ToDestroy ==
    ASSUME Kept, NEW e \in Exps
    PROVE  /\ DestroyMetas(statuses[e]) \in Seq(Metas)
           /\ Range(DestroyMetas(statuses[e])) = Reported(e)
<1> DEFINE s == statuses[e]
           t == DestroyMetas(s)
<1>1. s \in Seq(Status)
  BY DEF Kept, Tracks
<1>2. List(s) /\ DOMAIN s = 1 .. Len(s) /\ \A k \in DOMAIN s : s[k] \in Status
  BY <1>1, LenProperties, SeqOfRange DEF List
<1>3. List(t) /\ Range(t) = {ParseIdentifier(s[k].identifier) : k \in {j \in DOMAIN s : s[j].ok}}
  BY <1>2, DestroyMetasFacts
<1>4. \A k \in DOMAIN s : ParseIdentifier(s[k].identifier) \in Metas
  BY <1>2, ParsedIsMeta DEF Status
<1>5. Range(t) \subseteq Metas
  BY <1>3, <1>4
<1>6. t \in Seq(Metas)
  <2> HIDE DEF t
  <2>1. Len(t) \in Nat /\ t \in [1 .. Len(t) -> Range(t)]
    BY <1>3, ListFacts
  <2>2. t \in [1 .. Len(t) -> Metas]
    BY <1>5, <2>1
  <2> QED BY <2>1, <2>2
<1> QED BY <1>3, <1>6 DEF Reported

LEMMA DestroyStarts == ASSUME IInv, Kept, NEW e \in Exps, Destroy(e) PROVE Kept'
<1>1. /\ stage[e] = "created" /\ stage'[e] = "destroying" /\ todo'[e] = DestroyMetas(statuses[e])
      /\ UNCHANGED <<pods, request, copy, statuses, sent, evictions>>
      /\ Only(e)
  BY DEF Destroy, IInv, ShapeOK, Only
<1>2. PodsTyped' /\ CopyTyped(e)'
  BY <1>1, SamePodsTyped, SameCopy DEF Kept
<1> QED BY <1>1, <1>2, ToDestroy, DestroyKeeps

LEMMA SkipKeeps ==
    ASSUME IInv, Kept, NEW e \in Exps, stage[e] = "destroying", todo[e] # <<>>, Skip(e), PodsTyped',
           UNCHANGED <<request, stage, statuses, sent, evictions>>
    PROVE  Kept'
<1>1. todo'[e] = Tail(todo[e]) /\ copy'[e] = <<>> /\ Only(e)
  BY DEF Skip, IInv, ShapeOK, Only
<1>2. todo[e] \in Seq(Metas)
  BY DEF Kept, Tracks
<1>3. Tail(todo[e]) \in Seq(Metas)
  BY <1>2, HeadTailProperties
<1>4. CopyTyped(e)'
  BY <1>1 DEF CopyTyped
<1> QED BY <1>1, <1>3, <1>4, DestroyKeeps

LEMMA DestroyGetKeeps == ASSUME IInv, Kept, NEW e \in Exps, DestroyGet(e) PROVE Kept'
<1>1. /\ stage[e] = "destroying" /\ todo[e] # <<>>
      /\ UNCHANGED <<pods, request, stage, statuses, sent, evictions>>
  BY DEF DestroyGet
<1>2. \/ Skip(e)
      \/ \E i \in At(Head(todo[e])) : copy' = [copy EXCEPT ![e] = <<pods[i]>>] /\ UNCHANGED todo
  BY DEF DestroyGet
<1>3. PodsTyped'
  BY <1>1, SamePodsTyped DEF Kept
<1> QED BY <1>1, <1>2, <1>3, SkipKeeps, ReadKeeps DEF At

LEMMA DestroyDeleteKeeps == ASSUME IInv, Kept, NEW e \in Exps, DestroyDelete(e) PROVE Kept'
<1>1. /\ stage[e] = "destroying" /\ todo[e] # <<>> /\ Skip(e)
      /\ UNCHANGED <<request, stage, statuses, sent, evictions>>
  BY DEF DestroyDelete, IInv, ShapeOK
<1>2. UNCHANGED pods \/ Terminate(Head(todo[e]))
  BY DEF DestroyDelete
<1>3. PodsTyped'
  BY <1>2, SamePodsTyped, TerminateTyped DEF IInv, Kept
<1> QED BY <1>1, <1>3, SkipKeeps

LEMMA DestroyReturnsKeeps == ASSUME IInv, Kept, NEW e \in Exps, DestroyReturns(e) PROVE Kept'
<1>1. /\ stage'[e] = "destroyed" /\ todo'[e] = <<>>
      /\ UNCHANGED <<pods, request, copy, statuses, sent, evictions>>
      /\ Only(e)
  BY DEF DestroyReturns, IInv, ShapeOK, Only
<1>2. PodsTyped' /\ CopyTyped(e)'
  BY <1>1, SamePodsTyped, SameCopy DEF Kept
<1>3. <<>> \in Seq(Metas)
  BY EmptySeq
<1> QED BY <1>1, <1>2, <1>3, DestroyKeeps

\* A step of the cluster, or of nobody.
LEMMA OutsideKeeps ==
    ASSUME Kept, PodsTyped', UNCHANGED <<request, stage, todo, copy, statuses, sent>>,
           evictions' \in 0 .. MaxEvictions
    PROVE  Kept'
<1>1. \A x \in Exps : Tracks(x)' /\ CopyTyped(x)'
  BY SameTracks DEF Kept
<1> QED BY <1>1 DEF Kept

LEMMA EnvironmentKeeps == ASSUME IInv, Kept, Environment PROVE Kept'
<1>1. UNCHANGED <<request, stage, todo, copy, statuses, sent>>
  BY DEF Environment, Kubelet, Evict, Gone
<1>2. evictions' \in 0 .. MaxEvictions
  <2>1. evictions' = evictions \/ (evictions' = evictions + 1 /\ evictions < MaxEvictions)
    BY DEF Environment, Kubelet, Evict, Gone
  <2>2. MaxEvictions \in Nat /\ evictions \in 0 .. MaxEvictions
    BY PodBoundsAssumption DEF Kept
  <2> QED BY <2>1, <2>2
<1> QED BY <1>1, <1>2, EnvironmentTyped, OutsideKeeps DEF IInv, Kept

LEMMA InitKept == Init => Kept
<1> SUFFICES ASSUME Init PROVE Kept
  OBVIOUS
<1>1. ASSUME NEW i \in DOMAIN pods PROVE TypedPod(pods[i])
  <2> DEFINE p == pods[i]
  <2>1. /\ {p.ns, p.name, p.node} \subseteq Text /\ {p.terminating, p.ready} \subseteq BOOLEAN
        /\ p.rv \in Nat /\ p.containers \in Seq(Containers)
        /\ \A k \in DOMAIN p.containers :
             LET x == p.containers[k]
             IN  /\ x.name # Blank /\ (x.running => x.id # Blank)
                 /\ \A l \in DOMAIN p.containers : p.containers[l].name = x.name => l = k
        /\ p.images = [k \in DOMAIN p.containers |-> 0]
        /\ p.notes = [k \in DOMAIN p.containers |-> -1]
    BY ClustersAssumption DEF Init
  <2> HIDE DEF p
  <2>2. p.images \in [DOMAIN p.containers -> Nat] /\ p.notes \in [DOMAIN p.containers -> Nat \cup {-1}]
    BY <2>1
  <2> QED BY <2>1, <2>2 DEF TypedPod, p
<1>2. /\ stage \in [Exps -> Stages] /\ sent = [e \in Exps |-> sent[e]] /\ request \in Requests
      /\ evictions \in 0 .. MaxEvictions
  BY PodBoundsAssumption DEF Init, Stages
<1>3. \A e \in Exps : /\ statuses[e] = <<>> /\ todo[e] = <<>> /\ sent[e] = <<>>
                      /\ stage[e] = "new" /\ copy[e] = <<>>
  BY DEF Init
<1>4. <<>> \in Seq(Metas) /\ <<>> \in Seq(Status) /\ Len(<<>>) = 0
  BY EmptySeq
<1>5. ASSUME NEW e \in Exps PROVE Tracks(e) /\ CopyTyped(e)
  <2>1. /\ statuses[e] = <<>> /\ todo[e] = <<>> /\ sent[e] = <<>>
        /\ stage[e] = "new" /\ copy[e] = <<>>
    BY <1>3
  <2>2. 1 .. Len(sent[e]) = {}
    BY <1>4, <2>1
  <2>3. todo[e] \in Seq(Metas) /\ sent[e] \in Seq(Metas) /\ statuses[e] \in Seq(Status)
    BY <1>4, <2>1
  <2>4. ~(stage[e] \in {"creating", "created"}) /\ stage[e] # "created"
    BY <2>1
  <2>5. Tracks(e)
    BY <2>1, <2>2, <2>3, <2>4, Zenon DEF Tracks
  <2> QED BY <2>1, <2>5 DEF CopyTyped
<1> QED BY <1>1, <1>2, <1>5 DEF Kept, PodsTyped

\* At every moment the statuses of an experiment and what it has still to do are,
\* in order, what its creation was handed, and the pods are well-formed.
THEOREM EverythingKept == Spec => []Kept
<1>1. IInv /\ Kept /\ [Next]_vars => Kept'
  <2> SUFFICES ASSUME IInv, Kept, [Next]_vars PROVE Kept'
    OBVIOUS
  <2>1. CASE Environment
    BY <2>1, EnvironmentKeeps
  <2>2. ASSUME NEW e \in Exps, Experiment(e) PROVE Kept'
    BY <2>2, CreateKeeps, FailGetKeeps, FailUpdateKeeps, OtherActionKeeps, CreateReturnsKeeps,
       DestroyStarts, DestroyGetKeeps, DestroyDeleteKeeps, DestroyReturnsKeeps DEF Experiment
  <2>3. CASE UNCHANGED vars
    BY <2>3, SamePodsTyped, OutsideKeeps DEF vars, Kept
  <2> QED BY <2>1, <2>2, <2>3 DEF Next
<1> QED BY <1>1, InitKept, Invariance, PTL DEF Spec

-----------------------------------------------------------------------------
(***************************************************************************)
(* What follows from it.                                                   *)
(***************************************************************************)

\* Whatever the cluster and the experiments are, the pods stay pods with one
\* image and one annotation for each container, an executor holds at most one
\* pod that it has read, and only metas are handed to it.
THEOREM TypesOK == Spec => []TypeOK
<1>1. IInv /\ Kept => TypeOK
  <2> SUFFICES ASSUME IInv, Kept PROVE TypeOK
    OBVIOUS
  <2>1. ASSUME NEW i \in DOMAIN pods
        PROVE  /\ {pods[i].terminating, pods[i].ready} \subseteq BOOLEAN
               /\ pods[i].gen \in Nat /\ pods[i].rv \in Nat
               /\ pods[i].images \in Seq(Nat) /\ pods[i].notes \in Seq(Nat \cup {-1})
               /\ Len(pods[i].images) = Len(pods[i].containers)
    <3> DEFINE p == pods[i]
               n == Len(p.containers)
    <3>1. TypedPod(p) /\ p.gen \in Nat
      BY DEF Kept, PodsTyped, IInv, PodsOK, WholePod
    <3>2. n \in Nat /\ DOMAIN p.containers = 1 .. n
      BY <3>1, ContainersListed, ListFacts
    <3> HIDE DEF n
    <3>3. p.images \in [1 .. n -> Nat] /\ p.notes \in [1 .. n -> Nat \cup {-1}]
      BY <3>1, <3>2 DEF TypedPod
    <3> HIDE DEF p
    <3>4. p.images \in Seq(Nat) /\ p.notes \in Seq(Nat \cup {-1})
      BY <3>2, <3>3
    <3>5. Len(p.images) = n
      BY <3>2, <3>3, <3>4, LenProperties
    <3>6. p.terminating \in BOOLEAN /\ p.ready \in BOOLEAN /\ p.rv \in Nat
      BY <3>1 DEF TypedPod
    <3> QED BY <3>1, <3>4, <3>5, <3>6 DEF p, n
  <2>2. DOMAIN request = Exps
    BY RequestsAssumption DEF Kept
  <2>3. ASSUME NEW e \in Exps
        PROVE  /\ todo[e] \in Seq(Metas) /\ sent[e] \in Seq(Metas)
               /\ Len(copy[e]) <= 1
               /\ statuses[e] \in Seq([identifier : Seq(Text), ok : BOOLEAN])
    <3>1. Tracks(e) /\ CopyTyped(e)
      BY DEF Kept
    <3>2. Len(copy[e]) <= 1
      <4>1. CASE copy[e] = <<>>
        BY <4>1, EmptySeq
      <4>2. CASE copy[e] = <<copy[e][1]>>
        <5>1. PICK x : copy[e] = <<x>>
          BY <4>2
        <5>2. Len(<<x>>) = 1
          OBVIOUS
        <5> QED BY <5>1, <5>2
      <4> QED BY <3>1, <4>1, <4>2 DEF CopyTyped
    <3> QED BY <3>1, <3>2 DEF Tracks, Status
  <2>4. stage \in [Exps -> Stages] /\ evictions \in 0 .. MaxEvictions /\ trouble \in BOOLEAN
    BY DEF Kept, IInv, ShapeOK
  <2> QED BY <2>1, <2>2, <2>3, <2>4, Zenon DEF TypeOK
<1> QED BY <1>1, Invariance, EverythingKept, PTL

\* What a destroy works on is what the creation was handed, as far as it was
\* successful: all of it, and nothing else (ExpController.Destroy, GetIdentifier,
\* ParseIdentifier).
THEOREM TargetsFoundAgain == Spec => DestroyFindsTargets
<1> DEFINE Found ==
      \A e \in Exps : stage[e] = "created" /\ stage'[e] = "destroying"
          => LET good == {i \in DOMAIN statuses[e] : statuses[e][i].ok}
             IN  ToSet(todo'[e]) = {Target(e, sent[e][i]) : i \in good}
<1>1. IInv /\ Kept /\ [Next]_vars => Found
  <2> SUFFICES ASSUME IInv, Kept, [Next]_vars, NEW e \in Exps,
                      stage[e] = "created", stage'[e] = "destroying"
               PROVE  ToSet(todo'[e]) =
                        {Target(e, sent[e][i]) : i \in {k \in DOMAIN statuses[e] : statuses[e][k].ok}}
    OBVIOUS
  <2> DEFINE good == {k \in DOMAIN statuses[e] : statuses[e][k].ok}
  <2>1. todo'[e] = DestroyMetas(statuses[e])
    <3>1. ~UNCHANGED stage
      OBVIOUS
    <3>2. PICK x \in Exps : Experiment(x)
      BY <3>1 DEF Next, vars, Environment, Kubelet, Evict, Gone
    <3>3. Create(x) \/ CreateReturns(x) \/ Destroy(x) \/ DestroyReturns(x)
      BY <3>1, <3>2 DEF Experiment, FailGet, FailUpdate, DeletePod, OtherExec, DestroyGet, DestroyDelete
    <3>4. \E st : stage' = [stage EXCEPT ![x] = st]
      BY <3>3 DEF Create, CreateFrom, CreateReturns, Destroy, DestroyReturns
    <3>5. x = e
      BY <3>4 DEF Kept
    <3>6. Destroy(e)
      BY <3>3, <3>5 DEF Create, CreateFrom, CreateReturns, Destroy, DestroyReturns
    <3> QED BY <3>6 DEF Destroy, IInv, ShapeOK
  <2>2. ToSet(todo'[e]) = Reported(e)
    BY <2>1, ToDestroy DEF ToSet, Range
  <2>3. \A k \in good : ParseIdentifier(statuses[e][k].identifier) = Target(e, sent[e][k])
    <3>1. Tracks(e) /\ DOMAIN statuses[e] = 1 .. Len(statuses[e])
      BY LenProperties DEF Kept, Tracks
    <3> QED BY <3>1 DEF Tracks
  <2>4. Reported(e) = {ParseIdentifier(statuses[e][k].identifier) : k \in good}
    BY DEF Reported
  <2> HIDE DEF good
  <2> QED BY <2>2, <2>3, <2>4 DEF good
<1>2. [][Found]_vars <=> DestroyFindsTargets
  BY PTL DEF DestroyFindsTargets
<1> QED BY <1>1, <1>2, Invariance, EverythingKept, PTL DEF Spec

-----------------------------------------------------------------------------
(***************************************************************************)
(* A creation acts only on what was asked for.                             *)
(***************************************************************************)

LEMMA PodsAsked ==
    ASSUME NEW all, List(all), \A p \in Range(all) : TypedPod(p), NEW flags, FlagsOK(flags),
           NEW o \in CreatePods(all, flags), o.resp = "ok", NEW m \in Range(o.list)
    PROVE  \E p \in Range(all) : Allowed(p, flags) /\ \E k : IsMetaOf(m, p, k)
<1>1. PICK g \in GetMatchedPodResources(all, flags) :
         o = IF g.resp = "panic" THEN Panic ELSE IF podMetas(g.list) = <<>> THEN Fail
             ELSE Ok(podMetas(g.list))
  BY DEF CreatePods
<1>2. o.list = podMetas(g.list)
  <2>1. Fail.resp # "ok" /\ Panic.resp # "ok" /\ \A l : Ok(l).list = l
    BY DEF Fail, Panic, Ok
  <2> QED BY <1>1, <2>1
<1>3. List(g.list) /\ \A p \in Range(g.list) : p \in Range(all) /\ Allowed(p, flags)
  BY MatchedFacts
<1>4. \A p \in Range(g.list) : List(p.containers)
  BY <1>3, ContainersListed
<1> DEFINE U == UsablePlaces(g.list)
<1>5. \A i \in U : g.list[i] \in Range(g.list)
  BY DEF UsablePlaces, Range
<1>6. /\ DOMAIN podMetas(g.list) = 1 .. Cardinality(U)
      /\ \A i \in 1 .. Cardinality(U) : /\ Nth(U, i) \in U
                                        /\ \E k : IsMetaOf(podMetas(g.list)[i], g.list[Nth(U, i)], k)
  BY <1>3, <1>4, PodMetasFacts
<1> HIDE DEF U
<1>7. PICK i \in 1 .. Cardinality(U) : m = podMetas(g.list)[i]
  BY <1>2, <1>6 DEF Range
<1> QED BY <1>3, <1>5, <1>6, <1>7

\* A container that container-ids or container-names asks for, by ids if any.
Asked(c, flags) ==
    IF flags.ids # <<>> THEN c.id \in ToSet(flags.ids)
    ELSE IF flags.cnames # <<>> THEN c.name \in ToSet(flags.cnames)
    ELSE TRUE

\* Of the pod p the metas have all the containers asked for and no others, or
\* none but the one at the index.
AsAsked(p, metas, flags) ==
    \A k \in DOMAIN p.containers :
        LET c == p.containers[k]
        IN  IF flags.ids = <<>> /\ flags.cnames = <<>>
            THEN Meta(p, c) \in metas => k = flags.index.val + 1
            ELSE Meta(p, c) \in metas <=> Asked(c, flags)

\* Two containers with the same meta are one, in pods of different names.
LEMMA MetaTells ==
    ASSUME NEW p, TypedPod(p), NEW q, SameName(p, q) => p = q,
           NEW k \in DOMAIN p.containers, NEW l \in DOMAIN q.containers,
           Meta(p, p.containers[k]) = Meta(q, q.containers[l])
    PROVE  p = q /\ k = l
<1>1. /\ Meta(p, p.containers[k]).ns = p.ns /\ Meta(p, p.containers[k]).pod = p.name
      /\ Meta(p, p.containers[k]).cname = p.containers[k].name
      /\ Meta(q, q.containers[l]).ns = q.ns /\ Meta(q, q.containers[l]).pod = q.name
      /\ Meta(q, q.containers[l]).cname = q.containers[l].name
  BY DEF Meta
<1>2. p = q
  BY <1>1 DEF SameName
<1> QED BY <1>1, <1>2 DEF TypedPod

LEMMA WantedIsAsked ==
    ASSUME NEW p, NEW k \in DOMAIN p.containers, NEW flags, flags.ids # <<>> \/ flags.cnames # <<>>,
           Wanted(p, k, flags) # {} => p.containers[k].id # Blank
    PROVE  Wanted(p, k, flags) # {} <=> Asked(p.containers[k], flags)
<1> DEFINE c == p.containers[k]
<1>1. CASE flags.ids # <<>>
  <2>1. Wanted(p, k, flags) = {x \in DOMAIN flags.ids : c.id \in {Blank, flags.ids[x]}}
    BY <1>1 DEF Wanted
  <2>2. Asked(c, flags) <=> \E x \in DOMAIN flags.ids : c.id = flags.ids[x]
    BY <1>1 DEF Asked, ToSet
  <2> HIDE DEF c
  <2> QED BY <2>1, <2>2 DEF c
<1>2. CASE flags.ids = <<>>
  <2>1. Wanted(p, k, flags) = {x \in DOMAIN flags.cnames : flags.cnames[x] = c.name}
    BY <1>2 DEF Wanted
  <2>2. Asked(c, flags) <=> \E x \in DOMAIN flags.cnames : c.name = flags.cnames[x]
    BY <1>2 DEF Asked, ToSet
  <2> HIDE DEF c
  <2> QED BY <2>1, <2>2 DEF c
<1> QED BY <1>1, <1>2

LEMMA ContainersAsked ==
    ASSUME NEW all, List(all), \A p \in Range(all) : TypedPod(p),
           \A p, q \in Range(all) : SameName(p, q) => p = q, NEW flags, FlagsOK(flags),
           NEW o \in CreateContainers(all, flags), o.resp = "ok", NEW m \in Range(o.list)
    PROVE  \E p \in Range(all) : /\ Allowed(p, flags) /\ \E k : IsMetaOf(m, p, k)
                                 /\ AsAsked(p, Range(o.list), flags)
<1> DEFINE byFlag == flags.ids # <<>> \/ flags.cnames # <<>>
<1>1. PICK g \in GetMatchedPodResources(all, flags) :
         g.resp = "ok" /\ o = containerMetas(g.list, flags)
  BY CreateContainersFrom DEF Fail, Panic
<1> DEFINE list == g.list
<1>2. List(list) /\ \A p \in Range(list) : p \in Range(all) /\ Allowed(p, flags) /\ TypedPod(p)
  BY MatchedFacts
<1> HIDE DEF list
<1>3. \A i \in DOMAIN list : List(list[i].containers)
  BY <1>2, ContainersListed DEF Range
<1>4. o = containerMetas(list, flags)
  BY <1>1 DEF list
<1>5. PICK p \in Range(list) : \E k : IsMetaOf(m, p, k)
  BY <1>2, <1>4, ContainersOfMatched
<1>6. ASSUME NEW k \in DOMAIN p.containers, NEW q \in Range(list), NEW l \in DOMAIN q.containers,
             Meta(p, p.containers[k]) = Meta(q, q.containers[l])
      PROVE  p = q /\ k = l
  BY <1>2, <1>6, MetaTells
<1>7. CASE byFlag
  <2>1. /\ \A x : x \in Range(o.list) <=>
              \E q \in Range(list) : \E l \in DOMAIN q.containers :
                 x = Meta(q, q.containers[l]) /\ Wanted(q, l, flags) # {}
        /\ \A q \in Range(list) : \A l \in DOMAIN q.containers :
              Wanted(q, l, flags) # {} => ~StatusErr(q, l)
    <3> DEFINE c == containerMetas(list, flags)
    <3>1. c.resp = "ok" => 
            /\ \A x : x \in Range(c.list) <=>
                  \E q \in Range(list) : \E l \in DOMAIN q.containers :
                     x = Meta(q, q.containers[l]) /\ Wanted(q, l, flags) # {}
            /\ \A q \in Range(list) : \A l \in DOMAIN q.containers :
                  Wanted(q, l, flags) # {} => ~StatusErr(q, l)
      BY <1>2, <1>3, <1>7, ContainerMetasFacts
    <3>2. c = o
      BY <1>4
    <3> HIDE DEF c
    <3> QED BY <3>1, <3>2
  <2>2. ASSUME NEW k \in DOMAIN p.containers
        PROVE  Meta(p, p.containers[k]) \in Range(o.list) <=> Asked(p.containers[k], flags)
    <3>1. Meta(p, p.containers[k]) \in Range(o.list) <=> Wanted(p, k, flags) # {}
      BY <1>6, <2>1
    <3>2. Wanted(p, k, flags) # {} => p.containers[k].id # Blank
      BY <1>2, <2>1, GoodContainer
    <3> QED BY <1>7, <3>1, <3>2, WantedIsAsked
  <2>3. AsAsked(p, Range(o.list), flags)
    <3>1. ~(flags.ids = <<>> /\ flags.cnames = <<>>)
      BY <1>7
    <3> QED BY <2>2, <3>1, Zenon DEF AsAsked
  <2> QED BY <1>2, <1>5, <2>3
<1>8. CASE ~byFlag
  <2>1. \A x \in Range(o.list) : \E q \in Range(list) : Good(x, q, flags.index.val + 1)
    BY <1>2, <1>3, <1>4, <1>8, ContainerMetasFacts
  <2>2. ASSUME NEW k \in DOMAIN p.containers, Meta(p, p.containers[k]) \in Range(o.list)
        PROVE  k = flags.index.val + 1
    BY <1>6, <2>1, <2>2 DEF Good
  <2>3. AsAsked(p, Range(o.list), flags)
    BY <1>8, <2>2 DEF AsAsked
  <2> QED BY <1>2, <1>5, <2>3
<1> QED BY <1>7, <1>8

\* An experiment starts to create with the metas that the selection came to.
LEMMA CreationStarts ==
    ASSUME Kept, NEW e \in Exps, NEW flags, CreateFrom(e, flags), stage'[e] = "creating"
    PROVE  \E o \in Outcomes(request[e], flags) : o.resp = "ok" /\ sent'[e] = o.list
<1>1. PICK o \in Outcomes(request[e], flags) :
         /\ stage' = [stage EXCEPT ![e] = CASE o.resp = "ok"   -> "creating"
                                            [] o.resp = "fail" -> "created"
                                            [] OTHER            -> "panicked"]
         /\ sent' = [sent EXCEPT ![e] = o.list]
  BY DEF CreateFrom
<1>2. sent'[e] = o.list
  BY <1>1 DEF Kept
<1>3. stage'[e] = CASE o.resp = "ok"   -> "creating"
                    [] o.resp = "fail" -> "created"
                    [] OTHER            -> "panicked"
  BY <1>1 DEF Kept
<1>4. o.resp = "ok"
  BY <1>3
<1> QED BY <1>2, <1>4

\* A step that starts the creation of e is that creation (Create).
LEMMA CreationIs ==
    ASSUME Kept, [Next]_vars, NEW e \in Exps, stage[e] = "new", stage'[e] = "creating"
    PROVE  \E flags \in Readings(request[e].flags) : CreateFrom(e, flags)
<1>1. ~UNCHANGED stage
  OBVIOUS
<1>2. PICK x \in Exps : Experiment(x)
  BY <1>1 DEF Next, vars, Environment, Kubelet, Evict, Gone
<1>3. Create(x) \/ CreateReturns(x) \/ Destroy(x) \/ DestroyReturns(x)
  BY <1>1, <1>2 DEF Experiment, FailGet, FailUpdate, DeletePod, OtherExec, DestroyGet, DestroyDelete
<1>4. \E st : stage' = [stage EXCEPT ![x] = st]
  BY <1>3 DEF Create, CreateFrom, CreateReturns, Destroy, DestroyReturns
<1>5. x = e
  BY <1>4 DEF Kept
<1>6. Create(e)
  BY <1>3, <1>5 DEF CreateReturns, Destroy, DestroyReturns
<1> QED BY <1>6 DEF Create

\* A creation acts on running containers of pods that the flags ask for; in scope
\* container, on exactly those asked for in each pod it acts on
\* (GetMatchedPodResources, getMatchedContainerMetaList).
THEOREM OnlyTheAsked == Spec => OnlyWhatWasAsked
<1> DEFINE flags(e) == request[e].flags
           needs(e) == ParseLabels(flags(e).labels)
           asked(e, c) == IF flags(e).ids # <<>> THEN c.id \in ToSet(flags(e).ids)
                          ELSE IF flags(e).cnames # <<>> THEN c.name \in ToSet(flags(e).cnames)
                          ELSE TRUE
           hits(e, p, c) == Meta(p, c) \in ToSet(sent'[e])
           chosen(e, m, i) ==
              /\ pods[i].ns = Namespace(flags(e))
              /\ \/ /\ pods[i].name \in ToSet(flags(e).names)
                    /\ DOMAIN needs(e) = {} \/ MapContains(pods[i].labels, needs(e))
                 \/ flags(e).names = <<>> /\ ~pods[i].terminating /\ Selects(needs(e), pods[i].labels)
              /\ \E k \in DOMAIN pods[i].containers :
                   /\ pods[i].containers[k].running /\ m = Meta(pods[i], pods[i].containers[k])
              /\ request[e].scope = "container" =>
                   \A k \in DOMAIN pods[i].containers :
                     IF flags(e).ids = <<>> /\ flags(e).cnames = <<>>
                     THEN hits(e, pods[i], pods[i].containers[k]) => k = flags(e).index.val + 1
                     ELSE hits(e, pods[i], pods[i].containers[k])
                             <=> asked(e, pods[i].containers[k])
           AskedOnly == \A e \in Exps : stage[e] = "new" /\ stage'[e] = "creating" /\ request[e].scope # "node"
              => \A m \in ToSet(sent'[e]) : \E i \in At(m) : chosen(e, m, i)
<1>1. IInv /\ Kept /\ [Next]_vars => AskedOnly
  <2> SUFFICES ASSUME IInv, Kept, [Next]_vars, NEW e \in Exps,
                      stage[e] = "new", stage'[e] = "creating", request[e].scope # "node",
                      NEW m \in ToSet(sent'[e])
               PROVE  \E i \in At(m) : chosen(e, m, i)
    OBVIOUS
  <2>r. PICK read \in Readings(flags(e)) : CreateFrom(e, read)
    BY CreationIs
  <2>1. PICK o \in Outcomes(request[e], read) : o.resp = "ok" /\ sent'[e] = o.list
    BY <2>r, CreationStarts
  <2>2. List(pods) /\ \A p \in Range(pods) : TypedPod(p)
    BY DEF IInv, PodsOK, Kept, PodsTyped, Range
  <2>3. \A p, q \in Range(pods) : SameName(p, q) => p = q
    BY DEF IInv, PodsOK, Range
  <2>4. /\ FlagsOK(read) /\ read.ns = flags(e).ns /\ read.labels = flags(e).labels
        /\ read.ids = flags(e).ids /\ read.cnames = flags(e).cnames /\ read.index = flags(e).index
        /\ ToSet(read.names) \subseteq ToSet(flags(e).names)
        /\ read.names = <<>> <=> flags(e).names = <<>>
    BY <2>r, ReadingFacts DEF Kept
  <2>5. m \in Range(o.list)
    BY <2>1 DEF ToSet, Range
  <2>6. \/ request[e].scope = "pod" /\ o \in CreatePods(pods, read)
        \/ request[e].scope = "container" /\ o \in CreateContainers(pods, read)
    <3>1. Fail.resp # "ok"
      BY DEF Fail
    <3> QED BY <2>1, <3>1 DEF Outcomes
  <2>7. \E p \in Range(pods) : /\ Allowed(p, read) /\ \E k : IsMetaOf(m, p, k)
                               /\ request[e].scope = "container" => AsAsked(p, Range(o.list), read)
    <3> HIDE DEF flags
    <3> QED BY <2>1, <2>2, <2>3, <2>4, <2>5, <2>6, PodsAsked, ContainersAsked
  <2>8. PICK i \in DOMAIN pods :
           /\ Allowed(pods[i], read) /\ \E k : IsMetaOf(m, pods[i], k)
           /\ request[e].scope = "container" => AsAsked(pods[i], Range(o.list), read)
    BY <2>7 DEF Range
  <2>9. i \in At(m)
    BY <2>8, MetaPoints DEF IsMetaOf, At, Points
  <2>10. /\ pods[i].ns = Namespace(flags(e))
         /\ \/ /\ pods[i].name \in ToSet(flags(e).names)
               /\ DOMAIN needs(e) = {} \/ MapContains(pods[i].labels, needs(e))
            \/ flags(e).names = <<>> /\ ~pods[i].terminating /\ Selects(needs(e), pods[i].labels)
    <3> HIDE DEF flags
    <3> QED BY <2>4, <2>8 DEF Allowed, Meets, Namespace
  <2>11. \E k \in DOMAIN pods[i].containers :
            /\ pods[i].containers[k].running /\ m = Meta(pods[i], pods[i].containers[k])
    BY <2>8 DEF IsMetaOf
  <2>12. ASSUME request[e].scope = "container", NEW k \in DOMAIN pods[i].containers
         PROVE  IF flags(e).ids = <<>> /\ flags(e).cnames = <<>>
                THEN hits(e, pods[i], pods[i].containers[k]) => k = flags(e).index.val + 1
                ELSE hits(e, pods[i], pods[i].containers[k])
                        <=> asked(e, pods[i].containers[k])
    <3>1. \A p, c : hits(e, p, c) <=> Meta(p, c) \in Range(o.list)
      BY <2>1 DEF ToSet, Range
    <3>2. \A c : asked(e, c) <=> Asked(c, flags(e))
      BY DEF Asked
    <3>3. AsAsked(pods[i], Range(o.list), flags(e))
      BY <2>4, <2>8, <2>12 DEF AsAsked, Asked
    <3> HIDE DEF flags, hits, asked
    <3> QED BY <3>1, <3>2, <3>3 DEF AsAsked
  <2> HIDE DEF flags, needs, hits, asked
  <2> QED BY <2>9, <2>10, <2>11, <2>12
<1>2. [][AskedOnly]_vars <=> OnlyWhatWasAsked
  BY PTL DEF OnlyWhatWasAsked
<1> QED BY <1>1, <1>2, Invariance, EverythingKept, PTL DEF Spec

-----------------------------------------------------------------------------
(***************************************************************************)
(* A creation keeps within the limits.                                     *)
(***************************************************************************)

\* The group of a pod under at most one key.
GroupOf(p, flags) ==
    IF flags.group = <<>> THEN Blank
    ELSE IF flags.group[1] \in DOMAIN p.labels THEN p.labels[flags.group[1]] ELSE Blank

\* With at most one key the entries are the pods themselves.
LEMMA OneKey ==
    ASSUME NEW list, List(list), NEW flags, FlagsOK(flags), Len(flags.group) <= 1
    PROVE  /\ DOMAIN Grouped(list, flags) = DOMAIN list
           /\ \A k \in DOMAIN list : Grouped(list, flags)[k].group = GroupOf(list[k], flags)
           /\ Resources(Grouped(list, flags)) = list
<1> DEFINE t == Grouped(list, flags)
<1>1. Len(list) \in Nat /\ DOMAIN list = 1 .. Len(list) /\ list = [k \in DOMAIN list |-> list[k]]
  BY ListFacts
<1>2. /\ DOMAIN t = DOMAIN list
      /\ \A k \in DOMAIN list : t[k].res = list[k] /\ t[k].group = GroupOf(list[k], flags)
  <2>1. CASE flags.group = <<>>
    <3> DEFINE s == [k \in DOMAIN list |-> [res |-> list[k], group |-> Blank]]
    <3>1. t = s
      BY <2>1 DEF Grouped
    <3>2. DOMAIN s = DOMAIN list /\ \A k \in DOMAIN list : s[k].res = list[k] /\ s[k].group = Blank
      OBVIOUS
    <3> HIDE DEF s, t
    <3> QED BY <2>1, <3>1, <3>2 DEF GroupOf
  <2>2. CASE flags.group # <<>>
    <3> DEFINE keys == flags.group
               pod(k) == list[((k - 1) \div Len(keys)) + 1]
               key(k) == keys[((k - 1) % Len(keys)) + 1]
               group(k) == IF key(k) \in DOMAIN pod(k).labels THEN pod(k).labels[key(k)] ELSE Blank
               s == [k \in 1 .. (Len(list) * Len(keys)) |-> [res |-> pod(k), group |-> group(k)]]
    <3>1. t = s
      BY <2>2 DEF Grouped, Entries
    <3>2. Len(keys) = 1
      <4>1. List(keys) /\ keys # <<>> /\ Len(keys) <= 1
        BY <2>2 DEF FlagsOK
      <4> HIDE DEF keys
      <4>2. keys \in Seq(Range(keys)) /\ Len(keys) \in Nat
        BY <4>1, ListFacts DEF List
      <4>3. Len(keys) # 0
        BY <4>1, <4>2, EmptySeq
      <4>4. Len(keys) \in Nat /\ Len(keys) # 0 /\ Len(keys) <= 1
        BY <4>1, <4>2, <4>3
      <4>5. \A n \in Nat : n # 0 /\ n <= 1 => n = 1
        OBVIOUS
      <4> QED BY <4>4, <4>5, Zenon
    <3>3. ASSUME NEW k \in 1 .. Len(list)
          PROVE  ((k - 1) \div Len(keys)) + 1 = k /\ ((k - 1) % Len(keys)) + 1 = 1
      <4> HIDE DEF keys
      <4>1. k - 1 \in Int
        BY <1>1
      <4>2. \A x \in Int : x \div 1 = x /\ x % 1 = 0
        OBVIOUS
      <4> QED BY <1>1, <3>2, <4>1, <4>2
    <3>4. \A k \in 1 .. Len(list) : pod(k) = list[k] /\ key(k) = keys[1]
      BY <3>3
    <3>5. \A k \in 1 .. Len(list) : group(k) = GroupOf(list[k], flags)
      <4> HIDE DEF pod, key
      <4> QED BY <2>2, <3>4 DEF GroupOf
    <3>6. Len(list) * Len(keys) = Len(list)
      <4> HIDE DEF keys
      <4>1. \A x \in Nat : x * 1 = x
        OBVIOUS
      <4> QED BY <1>1, <3>2, <4>1
    <3> HIDE DEF keys, pod, key, group
    <3>7. DOMAIN s = 1 .. Len(list)
          /\ \A k \in 1 .. Len(list) : s[k].res = pod(k) /\ s[k].group = group(k)
      BY <3>6
    <3> HIDE DEF s, t
    <3> QED BY <1>1, <3>1, <3>4, <3>5, <3>7
  <2> QED BY <2>1, <2>2
<1> HIDE DEF t
<1>3. Resources(t) = list
  BY <1>1, <1>2 DEF Resources
<1> QED BY <1>2, <1>3 DEF t

\* The metas come from different places K of the list, of which the pods that
\* cannot be used are left out.
LEMMA MetasFrom ==
    ASSUME NEW list, List(list), \A p \in Range(list) : List(p.containers),
           NEW K \in SUBSET DOMAIN list
    PROVE  LET metas == podMetas(Pick(list, K))
           IN  /\ List(metas)
               /\ \E f \in Injection(DOMAIN metas, K) :
                    /\ \A j \in DOMAIN metas : Points(metas[j], list[f[j]])
                    /\ \A k \in K : Usable(list[k]) => \E j \in DOMAIN metas : f[j] = k
<1> DEFINE L == Pick(list, K)
           U == UsablePlaces(L)
           metas == podMetas(L)
           f == [j \in DOMAIN metas |-> Nth(K, Nth(U, j))]
<1>1. /\ List(L) /\ DOMAIN L = 1 .. Cardinality(K)
      /\ \A i \in 1 .. Cardinality(K) : Nth(K, i) \in K /\ L[i] = list[Nth(K, i)]
      /\ \A k \in K : \E i \in 1 .. Cardinality(K) : Nth(K, i) = k
      /\ \A i, j \in 1 .. Cardinality(K) : Nth(K, i) = Nth(K, j) => i = j
  BY PickFacts
<1> HIDE DEF L
<1>2. \A p \in Range(L) : List(p.containers)
  BY <1>1 DEF Range
<1>3. /\ List(metas) /\ DOMAIN metas = 1 .. Cardinality(U)
      /\ \A i \in 1 .. Cardinality(U) : /\ Nth(U, i) \in U
                                        /\ \E k : IsMetaOf(metas[i], L[Nth(U, i)], k)
  BY <1>1, <1>2, PodMetasFacts
<1>4. U \in SUBSET DOMAIN L /\ \A i \in DOMAIN L : Usable(L[i]) => i \in U
  BY DEF UsablePlaces, Usable, Running
<1> HIDE DEF U, metas
<1>5. /\ \A i \in U : \E j \in 1 .. Cardinality(U) : Nth(U, j) = i
      /\ \A i, j \in 1 .. Cardinality(U) : Nth(U, i) = Nth(U, j) => i = j
  BY <1>1, <1>4, PickFacts
<1>6. \A j \in DOMAIN metas : f[j] = Nth(K, Nth(U, j)) /\ f[j] \in K
  BY <1>1, <1>3, <1>4
<1>7. f \in Injection(DOMAIN metas, K)
  <2>1. \A i, j \in DOMAIN metas : f[i] = f[j] => i = j
    BY <1>1, <1>3, <1>4, <1>5, <1>6
  <2>2. f \in [DOMAIN metas -> K]
    BY <1>6
  <2> HIDE DEF f
  <2> QED BY <2>1, <2>2 DEF Injection, IsInjective
<1>8. ASSUME NEW j \in DOMAIN metas PROVE Points(metas[j], list[f[j]])
  <2>1. PICK k : IsMetaOf(metas[j], L[Nth(U, j)], k)
    BY <1>3
  <2>2. L[Nth(U, j)] = list[f[j]]
    BY <1>1, <1>3, <1>4, <1>6
  <2> HIDE DEF f
  <2> QED BY <2>1, <2>2, MetaPoints DEF IsMetaOf
<1>9. ASSUME NEW k \in K, Usable(list[k]) PROVE \E j \in DOMAIN metas : f[j] = k
  <2>1. PICK i \in 1 .. Cardinality(K) : Nth(K, i) = k
    BY <1>1
  <2>2. i \in U
    BY <1>1, <1>4, <1>9, <2>1
  <2>3. PICK j \in 1 .. Cardinality(U) : Nth(U, j) = i
    BY <1>5, <2>2
  <2> QED BY <1>3, <1>6, <2>1, <2>3
<1> HIDE DEF f
<1> QED BY <1>3, <1>7, <1>8, <1>9 DEF metas, L

\* The metas that name one of the pods at C, among metas that come from different
\* places K.
TakenOf(metas, list, C) ==
    {k \in DOMAIN metas : \E i \in C : list[i].name = metas[k].pod /\ list[i].ns = metas[k].ns}

LEMMA TakenFacts ==
    ASSUME NEW list, List(list), NEW metas, NEW K \in SUBSET DOMAIN list,
           NEW f \in Injection(DOMAIN metas, K),
           \A j \in DOMAIN metas : Points(metas[j], list[f[j]]),
           NEW C \in SUBSET DOMAIN list,
           \A i \in C, j \in DOMAIN list : SameName(list[i], list[j]) => j \in C
    PROVE  /\ Cardinality(TakenOf(metas, list, C)) \in Nat
           /\ Cardinality(TakenOf(metas, list, C)) <= Cardinality(K \cap C)
           /\ (\A k \in K \cap C : \E j \in DOMAIN metas : f[j] = k)
                => Cardinality(TakenOf(metas, list, C)) = Cardinality(K \cap C)
<1> DEFINE T == TakenOf(metas, list, C)
           D == K \cap C
           h == [j \in T |-> f[j]]
<1>1. \A j \in DOMAIN metas : f[j] \in K /\ f[j] \in DOMAIN list
  BY DEF Injection
<1>2. \A i, j \in DOMAIN metas : f[i] = f[j] => i = j
  BY DEF Injection, IsInjective
<1>3. ASSUME NEW j \in DOMAIN metas PROVE j \in T <=> f[j] \in C
  BY <1>1 DEF TakenOf, Points, SameName
<1>4. T \in SUBSET DOMAIN metas
  BY DEF TakenOf
<1>5. IsFiniteSet(D)
  <2>1. D \in SUBSET DOMAIN list
    OBVIOUS
  <2> HIDE DEF D
  <2> QED BY <2>1, PositionsFinite
<1> HIDE DEF T, D
<1>6. /\ \A j \in T : h[j] = f[j] /\ h[j] \in D
      /\ DOMAIN h = T /\ h = [j \in T |-> h[j]]
  BY <1>1, <1>3, <1>4 DEF D
<1> HIDE DEF h
<1>7. h \in Injection(T, D)
  <2>1. h \in [T -> D]
    BY <1>6
  <2>2. \A i, j \in T : h[i] = h[j] => i = j
    BY <1>2, <1>4, <1>6
  <2> QED BY <2>1, <2>2 DEF Injection, IsInjective
<1>8. /\ IsFiniteSet(T) /\ Cardinality(T) <= Cardinality(D)
      /\ Cardinality(T) = Cardinality(D) <=> h \in Surjection(T, D)
  BY <1>5, <1>7, FS_Injection
<1>9. ASSUME \A k \in D : \E j \in DOMAIN metas : f[j] = k PROVE h \in Surjection(T, D)
  <2>1. ASSUME NEW k \in D PROVE \E j \in T : h[j] = k
    <3>1. PICK j \in DOMAIN metas : f[j] = k
      BY <1>9
    <3>2. j \in T
      BY <1>3, <3>1 DEF D
    <3> QED BY <1>6, <3>1, <3>2
  <2>2. h \in [T -> D]
    BY <1>6
  <2> QED BY <2>1, <2>2 DEF Surjection
<1>10. Cardinality(T) \in Nat
  BY <1>8, FS_CardinalityType
<1> QED BY <1>8, <1>9, <1>10 DEF T, D

\* A number up to the count is within the limits, and the count has reached one.
LEMMA LimitFacts ==
    ASSUME NEW n \in Nat, n # 0, NEW flags, FlagsOK(flags), NEW got \in Nat,
           GetResourceCount(n, flags).ok, ~(GetResourceCount(n, flags).n < 0),
           got <= GetResourceCount(n, flags).n
    PROVE  /\ Within(got, n, flags) /\ Within(0, n, flags)
           /\ got = GetResourceCount(n, flags).n => Full(got, n, flags)
<1> DEFINE c == GetResourceCount(n, flags).n
<1>1. c \in Int /\ (c >= 0 => (\A m \in Nat : m <= c => Within(m, n, flags)) /\ Full(c, n, flags))
  BY CountFacts
<1>2. got <= c /\ ~(c < 0)
  OBVIOUS
<1> HIDE DEF c
<1>3. c >= 0 /\ 0 <= c /\ 0 \in Nat
  BY <1>1, <1>2
<1> QED BY <1>1, <1>2, <1>3 DEF c

\* What a creation in scope pod comes from: a choice K of the pods that were found
\* (filterByOtherFlags).
LEMMA PodsChosen ==
    ASSUME NEW all, List(all), \A p \in Range(all) : TypedPod(p), NEW flags, FlagsOK(flags),
           Len(flags.group) <= 1, NEW o \in CreatePods(all, flags), o.resp = "ok"
    PROVE  LET list    == podResources(all, flags).list
               entries == Grouped(list, flags)
           IN  /\ o.list # <<>>
               /\ \E K \in SUBSET DOMAIN list :
                    /\ o.list = podMetas(Pick(list, K)) /\ Chosen(entries, K, flags)
                    /\ \A g \in Groups(entries) : CountOf(entries, g, flags).ok
                                                  /\ ~(CountOf(entries, g, flags).n < 0)
<1> DEFINE list    == podResources(all, flags).list
           entries == Grouped(list, flags)
<1>1. PICK g \in GetMatchedPodResources(all, flags) :
         o = IF g.resp = "panic" THEN Panic ELSE IF podMetas(g.list) = <<>> THEN Fail
             ELSE Ok(podMetas(g.list))
  BY DEF CreatePods
<1>2. o.list = podMetas(g.list) /\ podMetas(g.list) # <<>>
  <2>1. Fail.resp # "ok" /\ Panic.resp # "ok" /\ \A l : Ok(l).list = l
    BY DEF Fail, Panic, Ok
  <2> QED BY <1>1, <2>1
<1>3. g # Fail /\ g # Panic
  <2>1. SUFFICES ASSUME g = Fail \/ g = Panic PROVE FALSE
    OBVIOUS
  <2>2. g.list = <<>>
    BY <2>1 DEF Fail, Panic
  <2>3. List(<<>>) /\ Range(<<>>) = {} /\ DOMAIN <<>> = {}
    BY EmptySeq DEF List, Range
  <2>4. List(podMetas(<<>>)) /\ DOMAIN podMetas(<<>>) = 1 .. Cardinality(UsablePlaces(<<>>))
    BY <2>3, PodMetasFacts
  <2>5. UsablePlaces(<<>>) = {}
    BY <2>3 DEF UsablePlaces
  <2>6. DOMAIN podMetas(<<>>) = {}
    <3>1. Cardinality(UsablePlaces(<<>>)) = 0
      BY <2>5, FS_EmptySet
    <3>2. 1 .. 0 = {}
      OBVIOUS
    <3> QED BY <2>4, <3>1, <3>2
  <2>7. Len(podMetas(<<>>)) = 0
    BY <2>4, <2>6, ListFacts
  <2> QED BY <1>2, <2>2, <2>4, <2>7, EmptySeq DEF List
<1>4. g \in filterPods(list, flags)
  BY <1>3 DEF GetMatchedPodResources
<1>5. List(list)
  BY PodResourcesFacts
<1> HIDE DEF list
<1>6. PICK K \in SUBSET DOMAIN entries :
         /\ g = Ok(Pick(Resources(entries), K))
         /\ Chosen(entries, K, flags)
         /\ \A x \in Groups(entries) : CountOf(entries, x, flags).ok
                                       /\ ~(CountOf(entries, x, flags).n < 0)
  BY <1>3, <1>4, <1>5, FilterFacts
<1>7. DOMAIN entries = DOMAIN list /\ Resources(entries) = list
  BY <1>5, OneKey
<1>8. g.list = Pick(list, K)
  BY <1>6, <1>7 DEF Ok
<1> HIDE DEF entries
<1> QED BY <1>2, <1>6, <1>7, <1>8 DEF list, entries

\* The positions of the pods of a group.
PlacesOf(list, flags, g) == {k \in DOMAIN list : GroupOf(list[k], flags) = g}

LEMMA PodsWithin ==
    ASSUME NEW all, List(all), \A p \in Range(all) : TypedPod(p),
           \A p, q \in Range(all) : SameName(p, q) => p = q, NEW flags, FlagsOK(flags),
           Len(flags.group) <= 1, NEW o \in CreatePods(all, flags), o.resp = "ok", NEW g
    PROVE  LET list == podResources(all, flags).list
               C    == PlacesOf(list, flags, g)
               n    == Cardinality(C)
               got  == Cardinality(TakenOf(o.list, list, C))
           IN  /\ Within(got, n, flags)
               /\ (\A i \in C : Usable(list[i])) => Full(got, n, flags)
<1> DEFINE list    == podResources(all, flags).list
           entries == Grouped(list, flags)
           C       == PlacesOf(list, flags, g)
           n       == Cardinality(C)
           metas   == o.list
           got     == Cardinality(TakenOf(metas, list, C))
           count(x) == CountOf(entries, x, flags)
<1>1. List(list) /\ \A p \in Range(list) : p \in Range(all)
  BY PodResourcesFacts
<1>2. metas # <<>>
  BY PodsChosen
<1>3. PICK K \in SUBSET DOMAIN list :
         /\ metas = podMetas(Pick(list, K)) /\ Chosen(entries, K, flags)
         /\ \A x \in Groups(entries) : count(x).ok /\ ~(count(x).n < 0)
  BY PodsChosen
<1> HIDE DEF list, metas
<1>4. \A p \in Range(list) : List(p.containers)
  BY <1>1, ContainersListed
<1>5. /\ List(metas)
      /\ \E f \in Injection(DOMAIN metas, K) :
           /\ \A j \in DOMAIN metas : Points(metas[j], list[f[j]])
           /\ \A k \in K : Usable(list[k]) => \E j \in DOMAIN metas : f[j] = k
  BY <1>1, <1>3, <1>4, MetasFrom
<1>6. PICK f \in Injection(DOMAIN metas, K) :
         /\ \A j \in DOMAIN metas : Points(metas[j], list[f[j]])
         /\ \A k \in K : Usable(list[k]) => \E j \in DOMAIN metas : f[j] = k
  BY <1>5
<1>7. C \in SUBSET DOMAIN list /\ \A k \in DOMAIN list : k \in C <=> GroupOf(list[k], flags) = g
  BY DEF PlacesOf
<1>8. ASSUME NEW i \in C, NEW j \in DOMAIN list, SameName(list[i], list[j]) PROVE j \in C
  <2>1. list[i] \in Range(all) /\ list[j] \in Range(all)
    BY <1>1, <1>7 DEF Range
  <2>2. list[i] = list[j]
    BY <1>8, <2>1
  <2> QED BY <1>7, <2>2
<1> HIDE DEF C
<1>9. /\ got \in Nat /\ got <= Cardinality(K \cap C)
      /\ (\A k \in K \cap C : \E j \in DOMAIN metas : f[j] = k) => got = Cardinality(K \cap C)
  BY <1>1, <1>6, <1>7, <1>8, TakenFacts
<1>10. (\A i \in C : Usable(list[i])) => got = Cardinality(K \cap C)
  BY <1>6, <1>9
<1>11. /\ DOMAIN entries = DOMAIN list
       /\ \A k \in DOMAIN list : entries[k].group = GroupOf(list[k], flags)
  BY <1>1, OneKey
<1> HIDE DEF entries, got
<1>12. \A x : Members(entries, x) \in SUBSET DOMAIN list
  BY <1>11 DEF Members
<1>13. Members(entries, g) = C
  BY <1>7, <1>11 DEF Members
<1>14. ASSUME NEW x \in Groups(entries), NEW m \in Nat, m <= count(x).n
       PROVE  /\ Within(m, Cardinality(Members(entries, x)), flags)
              /\ Within(0, Cardinality(Members(entries, x)), flags)
              /\ m = count(x).n => Full(m, Cardinality(Members(entries, x)), flags)
  <2> DEFINE M == Members(entries, x)
  <2>1. M \in SUBSET DOMAIN list /\ M # {}
    BY <1>12 DEF Groups, Members
  <2> HIDE DEF M
  <2>2. Cardinality(M) \in Nat /\ IsFiniteSet(M)
    BY <1>1, <2>1, PositionsFinite
  <2>3. Cardinality(M) # 0
    BY <2>1, <2>2, FS_EmptySet
  <2>4. count(x) = GetResourceCount(Cardinality(M), flags)
    BY DEF CountOf, M
  <2>5. count(x).ok /\ ~(count(x).n < 0)
    BY <1>3
  <2> DEFINE c == GetResourceCount(Cardinality(M), flags)
  <2>6. c.ok /\ ~(c.n < 0) /\ m <= c.n
    BY <1>14, <2>4, <2>5
  <2>7. /\ Within(m, Cardinality(M), flags) /\ Within(0, Cardinality(M), flags)
        /\ m = c.n => Full(m, Cardinality(M), flags)
    BY <2>2, <2>3, <2>6, LimitFacts
  <2> HIDE DEF count, c
  <2> QED BY <2>4, <2>7 DEF M, c
<1>15. CASE C # {}
  <2>1. g \in Groups(entries)
    BY <1>13, <1>15 DEF Groups, Members
  <2>2. Cardinality(K \cap C) = count(g).n
    BY <1>3, <1>13, <2>1 DEF Chosen, Groups, CountOf
  <2> HIDE DEF count
  <2>3. /\ Within(got, n, flags)
        /\ got = count(g).n => Full(got, n, flags)
    BY <1>9, <1>13, <1>14, <2>1, <2>2
  <2> QED BY <1>10, <2>2, <2>3 DEF list, metas, C, got
<1>16. CASE C = {}
  <2>1. n = 0 /\ Cardinality(K \cap C) = 0
    BY <1>16, FS_EmptySet
  <2>2. got = 0
    BY <1>9, <2>1
  <2>3. PICK k : k \in K
    <3>1. DOMAIN metas # {}
      <4>1. Len(metas) \in Nat /\ DOMAIN metas = 1 .. Len(metas)
        BY <1>5, ListFacts
      <4>2. Len(metas) # 0
        BY <1>2, <1>5, EmptySeq DEF List
      <4> QED BY <4>1, <4>2
    <3> QED BY <1>6, <3>1 DEF Injection
  <2>4. entries[k].group \in Groups(entries)
    BY <1>11, <2>3 DEF Groups
  <2>5. PICK x \in Groups(entries) : TRUE
    BY <2>4
  <2>6. 0 \in Nat /\ 0 <= count(x).n
    <3>1. count(x).n \in Int
      <4>1. Cardinality(Members(entries, x)) \in Nat
        BY <1>1, <1>12, PositionsFinite
      <4> QED BY <4>1, CountFacts DEF CountOf
    <3>2. ~(count(x).n < 0)
      BY <1>3
    <3> HIDE DEF count
    <3> QED BY <3>1, <3>2
  <2>7. Within(0, Cardinality(Members(entries, x)), flags)
    <3> HIDE DEF count
    <3> QED BY <1>14, <2>6
  <2>8. Within(0, 0, flags)
    <3>1. flags.percent.val \in Int
      BY DEF FlagsOK, NumFlag
    <3>2. \A v \in Int : 200 * 0 <= 2 * v * 0 + 100
      OBVIOUS
    <3> QED BY <2>7, <3>1, <3>2 DEF Within
  <2>9. Full(0, 0, flags)
    BY DEF Full
  <2> QED BY <2>1, <2>2, <2>8, <2>9 DEF list, metas, C, got
<1> QED BY <1>15, <1>16

\* evict-count and evict-percent are respected in every group, and of pods that
\* can all be used no fewer are taken than they allow (filterByOtherFlags,
\* GetResourceCount), whatever the floating-point product makes of a half,
\* however the pods are chosen and whichever of the named ones could be read.
THEOREM LimitsRespected == Spec => EvictLimits
<1> DEFINE list(f) == podResources(pods, f).list
           within(f, m, n) == /\ f.count.given = "int" => m <= f.count.val
                              /\ f.percent.given = "int"
                                   => 200 * m <= 2 * f.percent.val * n + 100
           full(f, m, n) == \/ m = n
                            \/ f.count.given = "int" /\ m = f.count.val
                            \/ /\ f.percent.given = "int"
                               /\ 200 * m >= 2 * f.percent.val * n - 100
           taken(e, f, cand) == {k \in DOMAIN sent'[e] : \E i \in cand :
                                   list(f)[i].name = sent'[e][k].pod /\ list(f)[i].ns = sent'[e][k].ns}
           limited(e, f, g) == LET cand == Candidates(f, g)
                                   n    == Cardinality(cand)
                                   got  == Cardinality(taken(e, f, cand))
                               IN  /\ within(f, got, n)
                                   /\ (\A i \in cand : Usable(list(f)[i])) => full(f, got, n)
           Limited == \A e \in Exps :
              stage[e] = "new" /\ stage'[e] = "creating" /\ request[e].scope = "pod" =>
                 \A flags \in Readings(request[e].flags) :
                    CreateFrom(e, flags) /\ Len(flags.group) <= 1 => LimitsKept(e, flags)
<1>1. IInv /\ Kept /\ [Next]_vars => Limited
  <2> SUFFICES ASSUME IInv, Kept, NEW e \in Exps, stage'[e] = "creating", request[e].scope = "pod",
                      NEW f \in Readings(request[e].flags), CreateFrom(e, f), Len(f.group) <= 1
               PROVE  LimitsKept(e, f)
    OBVIOUS
  <2> SUFFICES ASSUME NEW g \in IF f.group = <<>> THEN {Blank} ELSE LabelValues
               PROVE  limited(e, f, g)
    BY DEF LimitsKept
  <2> DEFINE C == PlacesOf(list(f), f, g)
  <2>1. PICK o \in CreatePods(pods, f) : o.resp = "ok" /\ sent'[e] = o.list
    <3>1. Fail.resp # "ok"
      BY DEF Fail
    <3> QED BY <3>1, CreationStarts DEF Outcomes
  <2>2. List(pods) /\ \A p \in Range(pods) : TypedPod(p)
    BY DEF IInv, PodsOK, Kept, PodsTyped, Range
  <2>3. \A p, q \in Range(pods) : SameName(p, q) => p = q
    BY DEF IInv, PodsOK, Range
  <2>4. FlagsOK(f)
    BY ReadingFacts DEF Kept
  <2>5. /\ Within(Cardinality(TakenOf(o.list, list(f), C)), Cardinality(C), f)
        /\ (\A i \in C : Usable(list(f)[i]))
             => Full(Cardinality(TakenOf(o.list, list(f), C)), Cardinality(C), f)
    BY <2>1, <2>2, <2>3, <2>4, PodsWithin
  <2>6. Candidates(f, g) = C
    <3>1. g = Blank \/ f.group # <<>>
      OBVIOUS
    <3>2. \A p : GroupOf(p, f) =
             IF f.group = <<>> THEN Blank
             ELSE IF f.group[1] \in DOMAIN p.labels THEN p.labels[f.group[1]] ELSE Blank
      BY DEF GroupOf
    <3> QED BY <3>1, <3>2 DEF Candidates, PlacesOf
  <2>7. taken(e, f, C) = TakenOf(o.list, list(f), C)
    BY <2>1 DEF TakenOf
  <2>8. \A m, n : (within(f, m, n) <=> Within(m, n, f)) /\ (full(f, m, n) <=> Full(m, n, f))
    BY DEF Within, Full
  <2> HIDE DEF within, full, taken, list, C
  <2> QED BY <2>5, <2>6, <2>7, <2>8
<1>2. [][Limited]_vars <=> EvictLimits
  BY PTL DEF EvictLimits
<1> QED BY <1>1, <1>2, Invariance, EverythingKept, PTL DEF Spec

=============================================================================
