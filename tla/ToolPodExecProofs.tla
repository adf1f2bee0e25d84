------------------------- MODULE ToolPodExecProofs --------------------------
(***************************************************************************)
(* Theorems about ToolPodExec, for any resources, nodes, experiments and   *)
(* number of goroutines.                                                   *)
(***************************************************************************)
EXTENDS ToolPodExec, FiniteSetTheorems, SequenceTheorems, TLAPS

(***************************************************************************)
(* The inductive invariant.  Every identifier is in one place: still in the *)
(* channel, in the hands of one goroutine, or in one status.               *)
(***************************************************************************)

\* The channel gives the identifiers in their order: those up to Taken have
\* left it (toExec in ParallelizeExec).
Taken == Len(identifiers) - Len(toExec)

\* What has not begun has left no trace, and a refused call never begins.
NotBegun ==
    /\ toExec = <<>> /\ lock = 0 /\ missing = {} /\ success = TRUE
    /\ statuses = <<>> /\ ran = {} /\ watcher = "none"
    /\ \A w \in Workers : pc[w] = "new" /\ item[w] = 0
    /\ returned => step = "refused"

\* The making of the identifiers.  Only docker's network destroy leaves a
\* resource out; otherwise the i-th identifier is that of the i-th resource.
MakingOK ==
    /\ next <= total + 1
    /\ step \in {"list", "assign", "result"} => next <= total
    /\ step = "made" => next = total + 1
    /\ kind = "copy" => step \in {"lookup", "made"}
    /\ Len(identifiers) < next
    /\ kind # "network" => /\ Len(identifiers) + 1 = next
                           /\ \A i \in DOMAIN identifiers : identifiers[i].resource = i
    /\ \A n \in Nodes : ~up[n] => generation[n] < MaxGenerations
    /\ step # "made" => NotBegun

QueueOK ==
    /\ Len(toExec) <= Len(identifiers)
    /\ \A j \in 1 .. Len(toExec) : toExec[j] = Taken + j
    /\ \A w \in Workers : step = "made" /\ pc[w] = "exit" /\ w <= Len(identifiers) => toExec = <<>>

HeldOK ==
    \A w \in Workers :
      /\ item[w] # 0 <=> pc[w] \in {"check", "run", "lock", "update"}
      /\ item[w] <= Taken
      /\ \A v \in Workers : item[v] = item[w] /\ item[w] # 0 => v = w

ReportedOK ==
    \A k \in DOMAIN statuses :
      /\ statuses[k].item <= Taken
      /\ \A w \in Workers : item[w] # statuses[k].item
      /\ \A l \in DOMAIN statuses : statuses[l].item = statuses[k].item => l = k

NoneLost ==
    step = "made" => \A i \in 1 .. Taken : \/ \E w \in Workers : item[w] = i
                                           \/ \E k \in DOMAIN statuses : statuses[k].item = i

\* The result of a command is on its way to the statuses, or among them; and a
\* good result is that of a command.
RanOK ==
    /\ \A r \in ran : \/ \E k \in DOMAIN statuses : statuses[k] = r
                      \/ \E w \in Workers : /\ pc[w] \in {"lock", "update"}
                                            /\ item[w] = r.item /\ execOk[w] = r.ok
    /\ \A k \in DOMAIN statuses : statuses[k].ok => statuses[k] \in ran
    /\ \A w \in Workers : pc[w] \in {"lock", "update"} /\ execOk[w]
                            => [item |-> item[w], ok |-> TRUE] \in ran

\* What a flag may be, given the statuses collected so far.
Honest(flag) ==
    \/ flag = \A k \in DOMAIN statuses : statuses[k].ok
    \/ flag /\ missing # {}

\* One goroutine at most collects its result; what it has read of the statuses
\* is still so, and of the flag too unless a missing pod has set it since.
LockOK ==
    /\ \A w \in Workers : pc[w] = "update" <=> lock = w
    /\ \A w \in Workers : pc[w] = "update" => /\ seen[w].statuses = statuses
                                              /\ Honest(seen[w].success)
    /\ Honest(success)

\* After the return nothing moves but the watcher.
AfterOK ==
    /\ Done => \A w \in Workers : pc[w] = "exit"
    /\ watcher # "none" => Done
    /\ WatcherMissesNone

PoolOK == QueueOK /\ HeldOK /\ ReportedOK /\ NoneLost /\ RanOK /\ LockOK /\ AfterOK

IInv == TypeOK /\ MakingOK /\ PoolOK

-----------------------------------------------------------------------------
(***************************************************************************)
(* Type correctness.                                                       *)
(***************************************************************************)

LEMMA ConstantsType == Count \in Nat /\ MaxGenerations \in Nat /\ Items \subseteq Nat /\ Workers \subseteq Nat \ {0}
<1>1. Count \in Nat /\ maxWorkers \in Nat /\ MaxGenerations \in Nat
  BY CountAssumption, GenerationsAssumption
<1> QED BY <1>1 DEF Items, Workers

\* Every experiment Exec is called for has a way to make its identifiers.
LEMMA KindType ==
    ASSUME NEW m \in ExpModels, NEW d \in BOOLEAN
    PROVE  KindOf(m, d) \in {"node", "cri", "network", "copy"}
<1>1. m.executor \in {"common", "inPod"} /\ m.scope \in {"node", "pod", "container"}
  BY ModelsAssumption
<1>2. CASE m.scope = "node"
  BY <1>2 DEF KindOf
<1>3. CASE m.scope # "node" /\ m.executor = "common"
  BY <1>3 DEF KindOf
<1>4. CASE m.scope # "node" /\ m.executor = "inPod"
  BY <1>4 DEF KindOf
<1> QED BY <1>1, <1>2, <1>3, <1>4

\* A new identifier, or none (AddIdentifier and Use).
LEMMA IdentifierType ==
    ASSUME identifiers \in Seq(Identifier), next \in Items,
           NEW g \in 0 .. MaxGenerations, NEW broken \in BOOLEAN,
           AddIdentifier(g, broken)
    PROVE  /\ identifiers' \in Seq(Identifier) /\ Len(identifiers') = Len(identifiers) + 1
           /\ next' = next + 1
           /\ \A i \in DOMAIN identifiers : identifiers'[i] = identifiers[i]
           /\ identifiers'[Len(identifiers) + 1].resource = next
           /\ DOMAIN identifiers' = DOMAIN identifiers \cup {Len(identifiers) + 1}
<1> DEFINE e == [resource |-> next, tool |-> g, broken |-> broken]
<1>1. e \in Identifier /\ e.resource = next
  BY DEF Identifier
<1>2. identifiers' = Append(identifiers, e) /\ next' = next + 1
  BY DEF AddIdentifier
<1> HIDE DEF e
<1> QED BY <1>1, <1>2

LEMMA TypeInit == Init => TypeOK
<1> SUFFICES ASSUME Init PROVE TypeOK
  OBVIOUS
<1> USE ConstantsType DEF Init
<1>1. PoolTypeOK
  <2>1. <<>> \in Seq(Items) /\ <<>> \in Seq(ResStatus)
    OBVIOUS
  <2>2. [success |-> TRUE, statuses |-> <<>>] \in [success : BOOLEAN, statuses : Seq(ResStatus)]
    BY <2>1
  <2>3. seen \in [Workers -> [success : BOOLEAN, statuses : Seq(ResStatus)]]
    BY <2>2 DEF PoolInit
  <2> QED BY <2>1, <2>3 DEF PoolInit, PoolTypeOK
<1>2. kind \in {"node", "cri", "network", "copy"}
  BY KindType
<1>3. generation \in Names /\ names \in Names /\ listed \in Names
  BY GenerationsAssumption DEF Names, Nameless
<1> QED BY <1>1, <1>2, <1>3 DEF TypeOK

\* The goroutines keep the types of what they share (execCommandInPod).
LEMMA GoroutineType ==
    ASSUME TypeOK, HeldOK, NEW w \in Workers, Goroutine(w)
    PROVE  TypeOK'
<1> USE ConstantsType
<1>1. PoolTypeOK /\ pc[w] \in {"new", "take", "check", "run", "lock", "update", "exit"}
  BY DEF TypeOK, PoolTypeOK
<1>2. ASSUME pc[w] \in {"check", "run", "update"}
      PROVE  item[w] \in Items
  BY <1>1, <1>2 DEF HeldOK, PoolTypeOK
<1>3. ASSUME NEW ok \in BOOLEAN, NEW i \in Items
      PROVE  [item |-> i, ok |-> ok] \in ResStatus
  BY DEF ResStatus
<1>4. ASSUME Take(w) PROVE PoolTypeOK'
  <2>1. CASE toExec = <<>>
    BY <1>1, <1>4, <2>1 DEF Take, PoolTypeOK
  <2>2. CASE toExec # <<>>
    <3>1. Head(toExec) \in Items /\ Tail(toExec) \in Seq(Items)
      BY <1>1, <2>2 DEF PoolTypeOK
    <3>2. /\ toExec' = Tail(toExec)
          /\ item' = [item EXCEPT ![w] = Head(toExec)]
          /\ execOk' = [execOk EXCEPT ![w] = TRUE]
          /\ pc' = [pc EXCEPT ![w] = "check"]
          /\ UNCHANGED <<seen, lock, missing, success, statuses, ran, returned>>
      BY <1>4, <2>2 DEF Take
    <3> QED BY <1>1, <3>1, <3>2 DEF PoolTypeOK
  <2> QED BY <2>1, <2>2
<1>5. CASE Lock(w)
  <2>1. [success |-> success, statuses |-> statuses] \in [success : BOOLEAN, statuses : Seq(ResStatus)]
    BY <1>1 DEF PoolTypeOK
  <2>2. seen' \in [Workers -> [success : BOOLEAN, statuses : Seq(ResStatus)]]
    BY <1>1, <1>5, <2>1 DEF PoolTypeOK, Lock
  <2>3. PoolTypeOK'
    BY <1>1, <1>5, <2>2 DEF PoolTypeOK, Lock
  <2> QED BY <2>3 DEF Goroutine, call, daemonset, own, after, TypeOK
<1>6. CASE Update(w)
  <2>1. seen[w].statuses \in Seq(ResStatus) /\ execOk[w] \in BOOLEAN /\ item[w] \in Items
    BY <1>1, <1>2, <1>6 DEF PoolTypeOK, Update
  <2>2. statuses' \in Seq(ResStatus)
    <3> DEFINE r == [item |-> item[w], ok |-> execOk[w]]
    <3>1. r \in ResStatus
      BY <1>3, <2>1
    <3>2. statuses' = Append(seen[w].statuses, r)
      BY <1>6 DEF Update
    <3> HIDE DEF r
    <3> QED BY <2>1, <3>1, <3>2
  <2>3. success' \in BOOLEAN
    BY <1>6 DEF Update
  <2>4. Unseen \in [success : BOOLEAN, statuses : Seq(ResStatus)]
    BY DEF Unseen
  <2>5. seen' \in [Workers -> [success : BOOLEAN, statuses : Seq(ResStatus)]]
    BY <1>1, <1>6, <2>4 DEF PoolTypeOK, Update
  <2>6. PoolTypeOK'
    BY <1>1, <1>6, <2>2, <2>3, <2>5 DEF PoolTypeOK, Update
  <2> QED BY <2>6 DEF Goroutine, call, daemonset, own, after, TypeOK
<1>7. ASSUME NEW broken, NEW podless, Check(w, broken, podless)
      PROVE  PoolTypeOK'
  <2>1. pc' \in [Workers -> {"new", "take", "check", "run", "lock", "update", "exit"}]
    BY <1>1, <1>7 DEF PoolTypeOK, Check, GoesOn, Fails, Vanished
  <2>2. execOk' \in [Workers -> BOOLEAN]
    BY <1>1, <1>7 DEF PoolTypeOK, Check, GoesOn, Fails, Vanished
  <2>3. missing' \subseteq Items
    BY <1>1, <1>2, <1>7 DEF PoolTypeOK, Check, GoesOn, Fails, Vanished
  <2>4. success' \in BOOLEAN
    BY <1>1, <1>7 DEF PoolTypeOK, Check, GoesOn, Fails, Vanished
  <2> QED BY <1>1, <1>7, <2>1, <2>2, <2>3, <2>4 DEF PoolTypeOK, Check
<1>8. ASSUME NEW there, item[w] # 0, Run(w, there)
      PROVE  PoolTypeOK'
  <2>1. PICK ok \in BOOLEAN : /\ execOk' = [execOk EXCEPT ![w] = ok]
                              /\ ran' = ran \cup {[item |-> item[w], ok |-> ok]}
    BY <1>8 DEF Run
  <2>2. item[w] \in Items
    BY <1>2, <1>8 DEF Run
  <2>3. ran' \in SUBSET ResStatus
    BY <1>1, <1>3, <2>1, <2>2 DEF PoolTypeOK
  <2> QED BY <1>1, <1>8, <2>1, <2>3 DEF PoolTypeOK, Run
<1>9. CASE PoolTypeOK'
  BY <1>9 DEF Goroutine, call, daemonset, own, after, TypeOK
<1> QED BY <1>4, <1>5, <1>6, <1>7, <1>8, <1>9 DEF Goroutine

-----------------------------------------------------------------------------
(***************************************************************************)
(* The making of the identifiers.                                          *)
(***************************************************************************)

\* A resource gets its identifier, or is left out of a network destroy.
LEMMA UseStep ==
    ASSUME TypeOK, MakingOK, next <= total,
           NEW g \in 0 .. MaxGenerations, Use(g), UNCHANGED <<kind, total>>
    PROVE  /\ identifiers' \in Seq(Identifier) /\ next' \in 1 .. Count + 1 /\ next' <= total' + 1
           /\ Len(identifiers') < next' /\ step' = "lookup"
           /\ kind' # "network" => /\ Len(identifiers') + 1 = next'
                                   /\ \A i \in DOMAIN identifiers' : identifiers'[i].resource = i
<1> USE ConstantsType
<1>1. /\ identifiers \in Seq(Identifier) /\ next \in Nat /\ next >= 1 /\ total <= Count /\ total \in Nat
      /\ next \in Items
  BY DEF TypeOK, Items
<1>2. CASE AddIdentifier(g, FALSE)
  <2>1. /\ identifiers' \in Seq(Identifier) /\ Len(identifiers') = Len(identifiers) + 1
        /\ next' = next + 1
        /\ \A i \in DOMAIN identifiers : identifiers'[i] = identifiers[i]
        /\ identifiers'[Len(identifiers) + 1].resource = next
        /\ DOMAIN identifiers' = DOMAIN identifiers \cup {Len(identifiers) + 1}
    BY <1>1, <1>2, IdentifierType
  <2>2. ASSUME kind' # "network"
        PROVE  \A i \in DOMAIN identifiers' : identifiers'[i].resource = i
    BY <1>1, <2>1, <2>2 DEF MakingOK
  <2> QED BY <1>1, <2>1, <2>2 DEF MakingOK, Use
<1>3. CASE kind = "network" /\ next' = next + 1 /\ UNCHANGED identifiers
  BY <1>1, <1>3 DEF MakingOK, Use
<1> QED BY <1>2, <1>3 DEF Use

\* The list of the daemonset pods (refreshChaosBladeDaemonsetPodNames).
LEMMA ListType ==
    ASSUME TypeOK
    PROVE  [n \in Nodes |-> IF up[n] THEN generation[n] ELSE 0] \in Names
<1> SUFFICES ASSUME NEW n \in Nodes
             PROVE  (IF up[n] THEN generation[n] ELSE 0) \in 0 .. MaxGenerations
  BY DEF Names
<1> QED BY ConstantsType DEF TypeOK, Names

\* Every step of the making keeps the types and what is known of the
\* identifiers (CommonExecutor.Exec, getExecIdentifiers).
LEMMA MakeStep ==
    ASSUME TypeOK, MakingOK, Make \/ OtherLists \/ OtherAssigns
    PROVE  TypeOK' /\ MakingOK'
<1> USE ConstantsType
<1>n. Nameless \in Names /\ (next <= total => Node \in Nodes) /\ (next <= total => next \in Items)
  BY NodesAssumption DEF Nameless, Names, Node, TypeOK, Items
<1>1. ASSUME next <= total, step \in {"lookup", "result"}, NEW g \in 0 .. MaxGenerations, Use(g),
             UNCHANGED <<pool, call, daemonset, names, others, listed, after>>
      PROVE  TypeOK' /\ MakingOK'
  <2>1. UNCHANGED <<kind, total>>
    BY <1>1 DEF call
  <2>2. /\ identifiers' \in Seq(Identifier) /\ next' \in 1 .. Count + 1 /\ next' <= total' + 1
        /\ Len(identifiers') < next' /\ step' = "lookup"
        /\ kind' # "network" => /\ Len(identifiers') + 1 = next'
                                /\ \A i \in DOMAIN identifiers' : identifiers'[i].resource = i
    BY <1>1, <2>1, UseStep
  <2>3. TypeOK'
    BY <1>1, <2>2 DEF TypeOK, PoolTypeOK, pool, call, daemonset, after
  <2>4. NotBegun'
    BY <1>1, <2>2 DEF MakingOK, NotBegun, pool, after
  <2> QED BY <1>1, <2>1, <2>2, <2>3, <2>4 DEF MakingOK, daemonset
<1>2. CASE Deployed
  <2>1. kind = "copy" /\ next <= total /\ step = "lookup"
    BY <1>2 DEF Deployed, MakingOK, TypeOK
  <2>2. PICK broken \in BOOLEAN : AddIdentifier(0, broken)
    BY <1>2 DEF Deployed
  <2>3. /\ identifiers' \in Seq(Identifier) /\ Len(identifiers') = Len(identifiers) + 1
        /\ next' = next + 1
        /\ \A i \in DOMAIN identifiers : identifiers'[i] = identifiers[i]
        /\ identifiers'[Len(identifiers) + 1].resource = next
        /\ DOMAIN identifiers' = DOMAIN identifiers \cup {Len(identifiers) + 1}
    <3>1. 0 \in 0 .. MaxGenerations /\ next \in Items /\ identifiers \in Seq(Identifier)
      BY <2>1, <1>n DEF TypeOK
    <3> QED BY <2>2, <3>1, IdentifierType
  <2>4. TypeOK'
    <3>1. next' \in 1 .. Count + 1
      BY <2>1, <2>3 DEF TypeOK, Items
    <3> QED BY <1>2, <2>3, <3>1 DEF Deployed, TypeOK, PoolTypeOK, pool, call, daemonset, after
  <2>5. NotBegun'
    BY <1>2, <2>1 DEF Deployed, MakingOK, NotBegun, pool, after
  <2>6. \A i \in DOMAIN identifiers' : identifiers'[i].resource = i
    BY <2>1, <2>3 DEF MakingOK, TypeOK
  <2>7. Len(identifiers) \in Nat /\ next \in Nat /\ total \in Nat
    BY DEF TypeOK
  <2> QED BY <1>2, <2>1, <2>3, <2>4, <2>5, <2>6, <2>7 DEF Deployed, MakingOK, call, daemonset
<1>3. CASE Lookup
  <2>1. next <= total /\ step = "lookup"
    BY <1>3 DEF Lookup
  <2>2. CASE Exists(Node, names[Node]) /\ Use(names[Node])
    <3>1. names[Node] \in 0 .. MaxGenerations
      BY <1>n, <2>1 DEF TypeOK, Names
    <3> QED BY <1>1, <1>3, <2>1, <2>2, <3>1 DEF Lookup
  <2>3. CASE step' \in {"refused", "list"} /\ UNCHANGED <<identifiers, next>>
    <3>1. TypeOK'
      BY <1>3, <2>3 DEF Lookup, TypeOK, PoolTypeOK, pool, call, daemonset, after
    <3>2. NotBegun'
      BY <1>3, <2>1, <2>3 DEF Lookup, MakingOK, NotBegun, pool, after
    <3> QED BY <1>3, <2>1, <2>3, <3>1, <3>2 DEF Lookup, MakingOK, call, daemonset
  <2> QED BY <1>3, <2>2, <2>3 DEF Lookup
<1>4. CASE List
  <2>1. listed' \in Names
    BY <1>4, ListType DEF List, TypeOK
  <2>2. TypeOK'
    BY <1>4, <2>1 DEF List, TypeOK, PoolTypeOK, pool, call, daemonset, after
  <2>3. NotBegun'
    BY <1>4 DEF List, MakingOK, NotBegun, pool, after
  <2> QED BY <1>4, <2>2, <2>3 DEF List, MakingOK, call, daemonset
<1>5. CASE Assign
  <2>1. TypeOK'
    BY <1>5, <1>n DEF Assign, TypeOK, PoolTypeOK, pool, call, daemonset, after
  <2>2. NotBegun'
    BY <1>5 DEF Assign, MakingOK, NotBegun, pool, after
  <2> QED BY <1>5, <2>1, <2>2 DEF Assign, MakingOK, call, daemonset
<1>6. CASE Result
  <2>1. next <= total /\ step = "result"
    BY <1>6 DEF Result, MakingOK
  <2>2. names[Node] \in 0 .. MaxGenerations
    BY <1>n, <2>1 DEF TypeOK, Names
  <2> QED BY <1>1, <1>6, <2>1, <2>2 DEF Result
<1>7. CASE Made
  <2>1. Len(identifiers) \in Nat /\ Len(identifiers) <= Count /\ next = total + 1
    BY <1>7 DEF Made, TypeOK, MakingOK
  <2>2. toExec' \in Seq(Items)
    BY <1>7, <2>1 DEF Made, ParallelizeExec, Items
  <2>3. PoolTypeOK'
    BY <1>7, <2>2 DEF Made, ParallelizeExec, TypeOK, PoolTypeOK
  <2>4. TypeOK'
    BY <1>7, <1>n, <2>3 DEF Made, TypeOK, call, daemonset, after
  <2> QED BY <1>7, <2>1, <2>4 DEF Made, MakingOK, call, daemonset
<1>8. CASE Refuse
  <2>1. TypeOK'
    BY <1>8 DEF Refuse, TypeOK, PoolTypeOK, call, daemonset, own, after
  <2>2. NotBegun'
    BY <1>8 DEF Refuse, MakingOK, NotBegun, own, after
  <2> QED BY <1>8, <2>1, <2>2 DEF Refuse, MakingOK, call, daemonset, own
<1>9. CASE OtherLists \/ OtherAssigns
  <2>1. others' \subseteq Names /\ names' \in Names
    BY <1>9, ListType DEF OtherLists, OtherAssigns, TypeOK
  <2>2. UNCHANGED <<pool, call, daemonset, own, after>>
    BY <1>9 DEF OtherLists, OtherAssigns
  <2>3. TypeOK'
    BY <2>1, <2>2 DEF TypeOK, PoolTypeOK, pool, call, daemonset, own, after
  <2>4. step # "made" => NotBegun'
    BY <2>2 DEF MakingOK, NotBegun, pool, own, after
  <2> QED BY <2>2, <2>3, <2>4 DEF MakingOK, call, daemonset, own
<1> QED BY <1>2, <1>3, <1>4, <1>5, <1>6, <1>7, <1>8, <1>9 DEF Make

-----------------------------------------------------------------------------
(***************************************************************************)
(* The goroutines.                                                         *)
(***************************************************************************)

LEMMA StatusType ==
    ASSUME TypeOK
    PROVE  /\ DOMAIN statuses = 1 .. Len(statuses) /\ Len(statuses) \in Nat
           /\ \A k \in DOMAIN statuses : /\ statuses[k] \in ResStatus
                                         /\ statuses[k].item \in Items
                                         /\ statuses[k].item \in Nat
                                         /\ statuses[k].ok \in BOOLEAN
<1>1. statuses \in Seq(ResStatus)
  BY DEF TypeOK, PoolTypeOK
<1>2. \A k \in 1 .. Len(statuses) : statuses[k] \in ResStatus
  BY <1>1
<1>3. \A r \in ResStatus : r.item \in Items /\ r.item \in Nat /\ r.ok \in BOOLEAN
  BY ConstantsType DEF ResStatus
<1>4. DOMAIN statuses = 1 .. Len(statuses) /\ Len(statuses) \in Nat
  BY <1>1
<1> QED BY <1>2, <1>3, <1>4

LEMMA ItemType == TypeOK => \A w \in Workers : item[w] \in Items \cup {0} /\ item[w] \in Nat
<1> SUFFICES ASSUME TypeOK, NEW w \in Workers PROVE item[w] \in Items \cup {0} /\ item[w] \in Nat
  OBVIOUS
<1>1. item[w] \in Items \cup {0}
  BY DEF TypeOK, PoolTypeOK
<1>2. \A i \in Items : i \in Nat
  BY DEF Items
<1>3. CASE item[w] = 0
  BY <1>3
<1>4. CASE item[w] \in Items
  BY <1>2, <1>4
<1> QED BY <1>1, <1>3, <1>4

\* Before the goroutines start there is nothing that could be wrong.
LEMMA FreshPool == TypeOK /\ step # "made" /\ NotBegun => PoolOK
<1> SUFFICES ASSUME TypeOK, step # "made", NotBegun PROVE PoolOK
  OBVIOUS
<1> USE ConstantsType DEF NotBegun
<1>1. Len(toExec) = 0 /\ Len(identifiers) \in Nat /\ DOMAIN statuses = {}
  BY DEF TypeOK
<1>2. QueueOK
  BY <1>1 DEF QueueOK
<1>3. HeldOK
  BY <1>1 DEF HeldOK, Taken
<1>4. Honest(TRUE)
  BY <1>1 DEF Honest
<1> QED BY <1>1, <1>2, <1>3, <1>4
        DEF PoolOK, ReportedOK, NoneLost, RanOK, LockOK, AfterOK, Done, WatcherMissesNone

\* A goroutine that moves finds the identifiers made and the call unfinished.
LEMMA Moving ==
    ASSUME IInv, NEW w \in Workers, pc[w] \notin {"new", "exit"},
           UNCHANGED <<call, own, after, returned>>
    PROVE  /\ step = "made" /\ ~returned /\ watcher = "none"
           /\ UNCHANGED <<identifiers, step>>
           /\ AfterOK'
<1>1. step = "made"
  BY DEF IInv, MakingOK, NotBegun
<1>2. ~returned /\ watcher = "none"
  BY <1>1 DEF IInv, PoolOK, AfterOK, Done, TypeOK
<1> QED BY <1>1, <1>2 DEF own, after, AfterOK, Done, WatcherMissesNone

\* The next identifier leaves the channel (for workID := range toExec).
LEMMA TakeStep ==
    ASSUME IInv, NEW w \in Workers, Take(w), UNCHANGED <<identifiers, step>>
    PROVE  QueueOK' /\ HeldOK' /\ ReportedOK' /\ NoneLost' /\ RanOK' /\ LockOK'
<1> USE ConstantsType
<1>t. /\ toExec \in Seq(Items) /\ Len(identifiers) \in Nat /\ Len(toExec) \in Nat /\ Taken \in Nat
      /\ pc \in [Workers -> {"new", "take", "check", "run", "lock", "update", "exit"}]
      /\ item \in [Workers -> Items \cup {0}]
      /\ execOk \in [Workers -> BOOLEAN]
      /\ statuses \in Seq(ResStatus)
  BY DEF IInv, TypeOK, PoolTypeOK, PoolOK, QueueOK, Taken
<1>s. \A k \in DOMAIN statuses : statuses[k].item \in Nat
  BY StatusType DEF IInv
<1>i. QueueOK /\ HeldOK /\ ReportedOK /\ NoneLost /\ RanOK /\ LockOK
  BY DEF IInv, PoolOK
<1>1. CASE toExec = <<>>
  <2>1. pc' = [pc EXCEPT ![w] = "exit"] /\ UNCHANGED <<toExec, item, execOk, seen, lock, missing, success, statuses, ran>>
    BY <1>1 DEF Take
  <2>2. pc[w] = "take" /\ Taken' = Taken
    BY <2>1 DEF Take, Taken
  <2>3. QueueOK'
    BY <1>i, <1>t, <1>1, <2>1, <2>2 DEF QueueOK
  <2>4. HeldOK' /\ ReportedOK' /\ NoneLost'
    BY <1>i, <1>t, <2>1, <2>2 DEF HeldOK, ReportedOK, NoneLost
  <2>5. RanOK'
    BY <1>i, <1>t, <2>1, <2>2 DEF RanOK
  <2>6. LockOK'
    BY <1>i, <1>t, <2>1, <2>2 DEF LockOK, Honest
  <2> QED BY <2>3, <2>4, <2>5, <2>6
<1>2. CASE toExec # <<>>
  <2>1. /\ toExec' = Tail(toExec)
        /\ item' = [item EXCEPT ![w] = Head(toExec)]
        /\ execOk' = [execOk EXCEPT ![w] = TRUE]
        /\ pc' = [pc EXCEPT ![w] = "check"]
        /\ UNCHANGED <<seen, lock, missing, success, statuses, ran>>
    BY <1>2 DEF Take
  <2>2. pc[w] = "take" /\ item[w] = 0
    BY <1>i DEF Take, HeldOK
  <2>3. /\ Len(toExec) >= 1 /\ Len(toExec') = Len(toExec) - 1
        /\ \A j \in 1 .. Len(toExec') : toExec'[j] = toExec[j + 1]
        /\ Head(toExec) = toExec[1]
    BY <1>t, <1>2, <2>1
  <2>4. Taken' = Taken + 1
    BY <1>t, <2>3 DEF Taken
  <2>5. Head(toExec) = Taken + 1
    BY <1>i, <1>t, <2>3 DEF QueueOK
  <2>6. QueueOK'
    BY <1>i, <1>t, <1>2, <2>1, <2>3, <2>4 DEF QueueOK
  <2>7. HeldOK'
    <3>1. item'[w] = Taken + 1 /\ pc'[w] = "check" /\ Taken + 1 # 0
      BY <1>t, <2>1, <2>5
    <3>2. ASSUME NEW v \in Workers, v # w
          PROVE  item'[v] = item[v] /\ pc'[v] = pc[v] /\ item[v] \in Nat /\ item[v] <= Taken
      <4>1. item[v] \in Nat
        BY ItemType DEF IInv
      <4>2. item[v] <= Taken
        BY <1>i DEF HeldOK
      <4> QED BY <1>t, <2>1, <3>2, <4>1, <4>2
    <3> QED BY <1>i, <1>t, <2>4, <3>1, <3>2 DEF HeldOK
  <2>8. ReportedOK'
    BY <1>i, <1>t, <1>s, <2>1, <2>2, <2>4, <2>5 DEF ReportedOK
  <2>9. NoneLost'
    <3>1. item'[w] = Taken' /\ \A v \in Workers \ {w} : item'[v] = item[v]
      BY <1>t, <2>1, <2>4, <2>5
    <3>2. SUFFICES ASSUME step = "made", NEW i \in 1 .. Taken'
                   PROVE  \/ \E v \in Workers : item'[v] = i
                          \/ \E k \in DOMAIN statuses : statuses[k].item = i
      BY <1>t, <2>1 DEF NoneLost
    <3>3. Taken \in Int /\ i \in Int /\ (i = Taken' \/ i \in 1 .. Taken)
      BY <1>t, <2>4 DEF Taken
    <3>4. CASE i = Taken'
      BY <3>1, <3>4
    <3>5. CASE i \in 1 .. Taken
      <4>1. CASE \E v \in Workers : item[v] = i
        <5>1. PICK v \in Workers : item[v] = i
          BY <4>1
        <5>2. v # w
          BY <2>2, <3>5, <5>1
        <5> QED BY <3>1, <5>1, <5>2
      <4>2. CASE \E k \in DOMAIN statuses : statuses[k].item = i
        BY <4>2
      <4> QED BY <1>i, <3>2, <3>5, <4>1, <4>2 DEF NoneLost
    <3> QED BY <3>3, <3>4, <3>5
  <2>10. RanOK'
    BY <1>i, <1>t, <2>1, <2>2 DEF RanOK
  <2>11. LockOK'
    BY <1>i, <1>t, <2>1, <2>2 DEF LockOK, Honest
  <2> QED BY <2>6, <2>7, <2>8, <2>9, <2>10, <2>11
<1> QED BY <1>1, <1>2

\* The identifier carries an error, or its pod is looked up; a missing pod sets
\* the shared flag (the head of execCommandInPod).
LEMMA CheckStep ==
    ASSUME IInv, NEW w \in Workers, NEW broken, NEW podless, Check(w, broken, podless),
           UNCHANGED <<identifiers, step>>
    PROVE  QueueOK' /\ HeldOK' /\ ReportedOK' /\ NoneLost' /\ RanOK' /\ LockOK'
<1>t. /\ pc \in [Workers -> {"new", "take", "check", "run", "lock", "update", "exit"}]
      /\ execOk \in [Workers -> BOOLEAN]
  BY DEF IInv, TypeOK, PoolTypeOK
<1>i. QueueOK /\ HeldOK /\ ReportedOK /\ NoneLost /\ RanOK /\ LockOK
  BY DEF IInv, PoolOK
<1>1. /\ pc[w] = "check"
      /\ UNCHANGED <<toExec, item, seen, lock, statuses, ran>>
  BY DEF Check
<1>2. \/ /\ pc' = [pc EXCEPT ![w] = "run"] /\ UNCHANGED execOk
      \/ /\ pc' = [pc EXCEPT ![w] = "lock"] /\ execOk' = [execOk EXCEPT ![w] = FALSE]
  BY DEF Check, GoesOn, Fails, Vanished
<1>3. UNCHANGED <<missing, success>> \/ (missing' = missing \cup {item[w]} /\ success' = TRUE)
  BY DEF Check, GoesOn, Fails, Vanished
<1>4. Taken' = Taken
  BY <1>1 DEF Taken
<1>5. QueueOK'
  BY <1>i, <1>t, <1>1, <1>2, <1>4 DEF QueueOK
<1>6. HeldOK'
  BY <1>i, <1>t, <1>1, <1>2, <1>4 DEF HeldOK
<1>7. ReportedOK' /\ NoneLost'
  BY <1>i, <1>1, <1>4 DEF ReportedOK, NoneLost
<1>8. RanOK'
  <2>1. ASSUME NEW v \in Workers, pc[v] \in {"lock", "update"}
        PROVE  v # w /\ pc'[v] = pc[v] /\ execOk'[v] = execOk[v]
    BY <1>t, <1>1, <1>2, <2>1
  <2>2. ASSUME NEW v \in Workers, pc'[v] \in {"lock", "update"}, execOk'[v]
        PROVE  pc[v] \in {"lock", "update"} /\ execOk[v]
    BY <1>t, <1>1, <1>2, <2>2
  <2>3. UNCHANGED <<item, statuses, ran>>
    BY <1>1
  <2> QED BY <1>i, <2>1, <2>2, <2>3 DEF RanOK
<1>9. LockOK'
  <2>1. ASSUME NEW flag, Honest(flag)
        PROVE  Honest(flag)'
    BY <1>1, <1>3, <2>1 DEF Honest
  <2>2. \A v \in Workers : pc[v] = "update" <=> pc'[v] = "update"
    BY <1>t, <1>1, <1>2
  <2>3. ASSUME NEW v \in Workers, pc'[v] = "update"
        PROVE  seen'[v].statuses = statuses' /\ Honest(seen[v].success)'
    BY <1>i, <1>1, <1>3, <2>2, <2>3 DEF LockOK, Honest
  <2>4. Honest(success)'
    BY <1>i, <1>1, <1>3 DEF LockOK, Honest
  <2> QED BY <1>i, <1>1, <2>2, <2>3, <2>4 DEF LockOK
<1> QED BY <1>5, <1>6, <1>7, <1>8, <1>9

\* The command is run (execCommands).
LEMMA RunStep ==
    ASSUME IInv, NEW w \in Workers, NEW there, item[w] # 0, Run(w, there),
           UNCHANGED <<identifiers, step>>
    PROVE  QueueOK' /\ HeldOK' /\ ReportedOK' /\ NoneLost' /\ RanOK' /\ LockOK'
<1>t. /\ pc \in [Workers -> {"new", "take", "check", "run", "lock", "update", "exit"}]
      /\ execOk \in [Workers -> BOOLEAN]
  BY DEF IInv, TypeOK, PoolTypeOK
<1>i. QueueOK /\ HeldOK /\ ReportedOK /\ NoneLost /\ RanOK /\ LockOK
  BY DEF IInv, PoolOK
<1>1. /\ pc[w] = "run" /\ pc' = [pc EXCEPT ![w] = "lock"]
      /\ UNCHANGED <<toExec, item, seen, lock, missing, success, statuses>>
  BY DEF Run
<1>2. PICK ok \in BOOLEAN : /\ execOk' = [execOk EXCEPT ![w] = ok]
                            /\ ran' = ran \cup {[item |-> item[w], ok |-> ok]}
  BY DEF Run
<1>3. Taken' = Taken
  BY <1>1 DEF Taken
<1>4. QueueOK'
  BY <1>i, <1>t, <1>1, <1>3 DEF QueueOK
<1>5. HeldOK'
  BY <1>i, <1>t, <1>1, <1>3 DEF HeldOK
<1>6. ReportedOK' /\ NoneLost'
  BY <1>i, <1>1, <1>3 DEF ReportedOK, NoneLost
<1>7. RanOK'
  <2>1. ASSUME NEW v \in Workers, v # w
        PROVE  pc'[v] = pc[v] /\ execOk'[v] = execOk[v]
    BY <1>t, <1>1, <1>2, <2>1
  <2>2. pc'[w] = "lock" /\ execOk'[w] = ok /\ pc[w] = "run"
    BY <1>t, <1>1, <1>2
  <2>3. ASSUME NEW r \in ran'
        PROVE  \/ \E k \in DOMAIN statuses' : statuses'[k] = r
               \/ \E v \in Workers : /\ pc'[v] \in {"lock", "update"}
                                     /\ item'[v] = r.item /\ execOk'[v] = r.ok
    <3>1. CASE r \in ran
      <4>1. CASE \E k \in DOMAIN statuses : statuses[k] = r
        BY <1>1, <4>1
      <4>2. CASE \E v \in Workers : pc[v] \in {"lock", "update"} /\ item[v] = r.item /\ execOk[v] = r.ok
        <5> PICK v \in Workers : pc[v] \in {"lock", "update"} /\ item[v] = r.item /\ execOk[v] = r.ok
          BY <4>2
        <5>1. v # w
          BY <2>2
        <5> QED BY <1>1, <2>1, <5>1
      <4> QED BY <1>i, <3>1, <4>1, <4>2 DEF RanOK
    <3>2. CASE r = [item |-> item[w], ok |-> ok]
      <4>1. r.item = item[w] /\ r.ok = ok
        BY <3>2
      <4> QED BY <1>1, <2>2, <4>1
    <3> QED BY <1>2, <2>3, <3>1, <3>2
  <2>4. \A k \in DOMAIN statuses' : statuses'[k].ok => statuses'[k] \in ran'
    BY <1>i, <1>1, <1>2 DEF RanOK
  <2>5. ASSUME NEW v \in Workers, pc'[v] \in {"lock", "update"}, execOk'[v]
        PROVE  [item |-> item'[v], ok |-> TRUE] \in ran'
    <3>1. CASE v = w
      <4>1. ok = TRUE
        BY <2>2, <2>5, <3>1
      <4> QED BY <1>1, <1>2, <3>1, <4>1
    <3>2. CASE v # w
      BY <1>i, <1>1, <1>2, <2>1, <2>5, <3>2 DEF RanOK
    <3> QED BY <3>1, <3>2
  <2> QED BY <2>3, <2>4, <2>5 DEF RanOK
<1>8. LockOK'
  <2>1. \A v \in Workers : pc[v] = "update" <=> pc'[v] = "update"
    BY <1>t, <1>1
  <2> QED BY <1>i, <1>1, <2>1 DEF LockOK, Honest
<1> QED BY <1>4, <1>5, <1>6, <1>7, <1>8

\* The lock is taken and the shared variables are read (updateResultLock.Lock).
LEMMA LockStep ==
    ASSUME IInv, NEW w \in Workers, Lock(w), UNCHANGED <<identifiers, step>>
    PROVE  QueueOK' /\ HeldOK' /\ ReportedOK' /\ NoneLost' /\ RanOK' /\ LockOK'
<1>t. /\ pc \in [Workers -> {"new", "take", "check", "run", "lock", "update", "exit"}]
      /\ seen \in [Workers -> [success : BOOLEAN, statuses : Seq(ResStatus)]]
      /\ lock \in Workers \cup {0} /\ 0 \notin Workers
  BY ConstantsType DEF IInv, TypeOK, PoolTypeOK
<1>i. QueueOK /\ HeldOK /\ ReportedOK /\ NoneLost /\ RanOK /\ LockOK
  BY DEF IInv, PoolOK
<1>1. /\ pc[w] = "lock" /\ pc' = [pc EXCEPT ![w] = "update"]
      /\ lock = 0 /\ lock' = w
      /\ seen' = [seen EXCEPT ![w] = [success |-> success, statuses |-> statuses]]
      /\ UNCHANGED <<toExec, item, execOk, missing, success, statuses, ran>>
  BY DEF Lock
<1>2. Taken' = Taken
  BY <1>1 DEF Taken
<1>3. ASSUME NEW v \in Workers
      PROVE  /\ pc'[v] \in {"lock", "update"} <=> pc[v] \in {"lock", "update"}
             /\ pc'[v] = "update" <=> v = w
  BY <1>i, <1>t, <1>1 DEF LockOK
<1>4. QueueOK'
  BY <1>i, <1>t, <1>1, <1>2 DEF QueueOK
<1>5. HeldOK'
  BY <1>i, <1>t, <1>1, <1>2 DEF HeldOK
<1>6. ReportedOK' /\ NoneLost'
  BY <1>i, <1>1, <1>2 DEF ReportedOK, NoneLost
<1>7. RanOK'
  BY <1>i, <1>1, <1>3 DEF RanOK
<1>8. LockOK'
  <2>1. seen'[w].statuses = statuses' /\ seen'[w].success = success'
    BY <1>t, <1>1
  <2>2. Honest(success)'
    BY <1>i, <1>1 DEF LockOK, Honest
  <2>3. \A v \in Workers : pc'[v] = "update" => seen'[v].statuses = statuses' /\ Honest(seen[v].success)'
    BY <1>3, <2>1, <2>2
  <2> QED BY <1>1, <1>3, <2>2, <2>3 DEF LockOK
<1> QED BY <1>4, <1>5, <1>6, <1>7, <1>8

\* The result joins those collected before, none of which is lost, and the lock
\* is released (the end of execCommandInPod).
LEMMA UpdateStep ==
    ASSUME IInv, NEW w \in Workers, Update(w), UNCHANGED <<identifiers, step>>
    PROVE  QueueOK' /\ HeldOK' /\ ReportedOK' /\ NoneLost' /\ RanOK' /\ LockOK'
<1> DEFINE r == [item |-> item[w], ok |-> execOk[w]]
           n == Len(statuses)
<1>t. /\ pc \in [Workers -> {"new", "take", "check", "run", "lock", "update", "exit"}]
      /\ item \in [Workers -> Items \cup {0}] /\ execOk \in [Workers -> BOOLEAN]
      /\ seen \in [Workers -> [success : BOOLEAN, statuses : Seq(ResStatus)]]
      /\ statuses \in Seq(ResStatus) /\ 0 \notin Workers
  BY ConstantsType DEF IInv, TypeOK, PoolTypeOK
<1>i. QueueOK /\ HeldOK /\ ReportedOK /\ NoneLost /\ RanOK /\ LockOK
  BY DEF IInv, PoolOK
<1>1. /\ pc[w] = "update" /\ pc' = [pc EXCEPT ![w] = "take"]
      /\ lock' = 0 /\ item' = [item EXCEPT ![w] = 0] /\ execOk' = [execOk EXCEPT ![w] = TRUE]
      /\ success' = (seen[w].success /\ execOk[w])
      /\ UNCHANGED <<toExec, missing, ran>>
  BY DEF Update
<1>2. lock = w /\ seen[w].statuses = statuses /\ Honest(seen[w].success)
  BY <1>i, <1>1 DEF LockOK
<1>r. r.item = item[w] /\ r.ok = execOk[w]
  OBVIOUS
<1>3. statuses' = Append(statuses, r)
  BY <1>2 DEF Update
<1>4. r \in ResStatus /\ item[w] \in Items /\ item[w] \in Nat /\ item[w] # 0
  <2>1. item[w] # 0
    BY <1>i, <1>1 DEF HeldOK
  <2>2. item[w] \in Items /\ item[w] \in Nat
    BY <2>1, ItemType DEF IInv
  <2>3. execOk[w] \in BOOLEAN
    BY <1>t
  <2> QED BY <2>1, <2>2, <2>3 DEF ResStatus
<1> HIDE DEF r
<1>5. /\ n \in Nat /\ DOMAIN statuses = 1 .. n /\ DOMAIN statuses' = 1 .. n + 1
      /\ \A k \in 1 .. n : statuses'[k] = statuses[k]
      /\ statuses'[n + 1] = r
  BY <1>t, <1>3, <1>4
<1> HIDE DEF n
<1>6. Taken' = Taken
  BY <1>1 DEF Taken
<1>7. ASSUME NEW v \in Workers, v # w
      PROVE  /\ pc'[v] = pc[v] /\ item'[v] = item[v] /\ execOk'[v] = execOk[v]
             /\ pc[v] # "update"
  BY <1>i, <1>t, <1>1, <1>2, <1>7 DEF LockOK
<1>8. pc'[w] = "take" /\ item'[w] = 0
  BY <1>t, <1>1
<1>9. QueueOK'
  BY <1>i, <1>t, <1>1, <1>6 DEF QueueOK
<1>10. HeldOK'
  <2>1. Taken \in Nat
    BY DEF IInv, TypeOK, PoolTypeOK, PoolOK, QueueOK, Taken
  <2> QED BY <1>i, <1>6, <1>7, <1>8, <2>1 DEF HeldOK
<1>11. ReportedOK'
  <2>1. ASSUME NEW k \in 1 .. n
        PROVE  /\ statuses[k].item <= Taken /\ statuses[k].item # item[w] /\ statuses[k].item # 0
               /\ \A v \in Workers : item[v] # statuses[k].item
               /\ \A l \in 1 .. n : statuses[l].item = statuses[k].item => l = k
    <3>1. statuses[k].item # 0
      BY <1>5, StatusType DEF IInv, Items
    <3> QED BY <1>i, <1>5, <3>1 DEF ReportedOK
  <2>2. item[w] <= Taken /\ \A v \in Workers : v # w => item[v] # item[w]
    BY <1>i, <1>4 DEF HeldOK
  <2>3. ASSUME NEW k \in 1 .. n
        PROVE  /\ statuses'[k].item <= Taken'
               /\ \A v \in Workers : item'[v] # statuses'[k].item
               /\ \A l \in 1 .. n + 1 : statuses'[l].item = statuses'[k].item => l = k
    BY <1>5, <1>6, <1>7, <1>8, <1>r, <2>1
  <2>4. /\ statuses'[n + 1].item <= Taken'
        /\ \A v \in Workers : item'[v] # statuses'[n + 1].item
        /\ \A l \in 1 .. n + 1 : statuses'[l].item = statuses'[n + 1].item => l = n + 1
    BY <1>4, <1>5, <1>6, <1>7, <1>8, <1>r, <2>1, <2>2
  <2> QED BY <1>5, <2>3, <2>4 DEF ReportedOK
<1>12. NoneLost'
  <2>1. SUFFICES ASSUME step = "made", NEW i \in 1 .. Taken
                 PROVE  \/ \E v \in Workers : item'[v] = i
                        \/ \E k \in 1 .. n + 1 : statuses'[k].item = i
    BY <1>5, <1>6 DEF NoneLost
  <2>2. CASE i = item[w]
    BY <1>5, <1>r, <2>2
  <2>3. CASE i # item[w]
    BY <1>i, <1>5, <1>7, <2>1, <2>3 DEF NoneLost
  <2> QED BY <2>2, <2>3
<1>13. RanOK'
  <2>1. ASSUME NEW q \in ran
        PROVE  \/ \E k \in 1 .. n + 1 : statuses'[k] = q
               \/ \E v \in Workers : pc'[v] \in {"lock", "update"} /\ item'[v] = q.item /\ execOk'[v] = q.ok
    <3>1. CASE \E k \in 1 .. n : statuses[k] = q
      BY <1>5, <3>1
    <3>2. CASE \E v \in Workers : pc[v] \in {"lock", "update"} /\ item[v] = q.item /\ execOk[v] = q.ok
      <4> PICK v \in Workers : pc[v] \in {"lock", "update"} /\ item[v] = q.item /\ execOk[v] = q.ok
        BY <3>2
      <4>1. CASE v = w
        <5>1. q \in ResStatus
          BY DEF IInv, TypeOK, PoolTypeOK
        <5>2. q = r
          BY <1>4, <1>r, <4>1, <5>1 DEF ResStatus
        <5> QED BY <1>5, <5>2
      <4>2. CASE v # w
        BY <1>7, <4>2
      <4> QED BY <4>1, <4>2
    <3> QED BY <1>i, <1>5, <3>1, <3>2 DEF RanOK
  <2>2. ASSUME NEW k \in 1 .. n + 1, statuses'[k].ok
        PROVE  statuses'[k] \in ran
    <3>1. CASE k = n + 1
      <4>1. r.ok = TRUE /\ execOk[w]
        BY <1>t, <1>5, <1>r, <2>2, <3>1
      <4>2. [item |-> item[w], ok |-> TRUE] \in ran
        BY <1>i, <1>1, <4>1 DEF RanOK
      <4>3. r = [item |-> item[w], ok |-> TRUE]
        BY <1>t, <4>1 DEF r
      <4> QED BY <1>5, <3>1, <4>2, <4>3
    <3>2. CASE k \in 1 .. n
      BY <1>i, <1>5, <2>2, <3>2 DEF RanOK
    <3> QED BY <1>5, <3>1, <3>2
  <2>3. ASSUME NEW v \in Workers, pc'[v] \in {"lock", "update"}, execOk'[v]
        PROVE  [item |-> item'[v], ok |-> TRUE] \in ran
    BY <1>i, <1>7, <1>8, <2>3 DEF RanOK
  <2> QED BY <1>1, <1>5, <2>1, <2>2, <2>3 DEF RanOK
<1>14. LockOK'
  <2>1. Honest(success)'
    <3>1. (\A k \in 1 .. n + 1 : statuses'[k].ok) <=> (\A k \in 1 .. n : statuses[k].ok) /\ execOk[w]
      BY <1>5, <1>r
    <3>2. \/ seen[w].success = \A k \in 1 .. n : statuses[k].ok
          \/ seen[w].success /\ missing # {}
      BY <1>2, <1>5 DEF Honest
    <3>3. \/ success' = \A k \in 1 .. n + 1 : statuses'[k].ok
          \/ success' /\ missing' # {}
      BY <1>1, <3>1, <3>2
    <3> QED BY <1>5, <3>3 DEF Honest
  <2>2. \A v \in Workers : pc'[v] # "update" /\ lock' # v
    BY <1>1, <1>t, <1>7, <1>8
  <2> QED BY <2>1, <2>2 DEF LockOK
<1> QED BY <1>9, <1>10, <1>11, <1>12, <1>13, <1>14

\* The channel holds the identifiers in their order when the goroutines start.
LEMMA MadeStep ==
    ASSUME IInv, Made
    PROVE  PoolOK'
<1>1. /\ NotBegun /\ Len(identifiers) \in Nat /\ step' = "made"
      /\ \A w \in Workers : w \in Nat
  BY ConstantsType DEF IInv, TypeOK, MakingOK, Made
<1>2. /\ toExec' = [i \in 1 .. Len(identifiers) |-> i]
      /\ pc' = [w \in Workers |-> IF w <= Len(identifiers) THEN "take" ELSE "exit"]
      /\ UNCHANGED <<identifiers, item, execOk, seen, lock, missing, success, statuses, ran, returned, watcher>>
  BY DEF Made, ParallelizeExec, after
<1>3. Len(toExec') = Len(identifiers') /\ Taken' = 0
  BY <1>1, <1>2 DEF Taken
<1>4. statuses' = <<>> /\ ran' = {} /\ success' = TRUE /\ lock' = 0 /\ watcher' = "none" /\ ~returned'
  BY <1>1, <1>2 DEF NotBegun, Made, IInv, TypeOK, PoolTypeOK
<1>5. \A w \in Workers : item'[w] = 0 /\ pc'[w] \in {"take", "exit"} /\ (w <= Len(identifiers) => pc'[w] = "take")
  BY <1>1, <1>2 DEF NotBegun
<1>6. QueueOK'
  BY <1>1, <1>2, <1>3, <1>5 DEF QueueOK
<1>7. HeldOK'
  BY <1>3, <1>5 DEF HeldOK
<1>8. ReportedOK' /\ NoneLost' /\ RanOK'
  BY <1>3, <1>4, <1>5 DEF ReportedOK, NoneLost, RanOK
<1>9. LockOK'
  <2>1. DOMAIN statuses' = {}
    BY <1>4
  <2>2. Honest(success)'
    BY <1>4, <2>1 DEF Honest
  <2>3. 0 \notin Workers
    BY ConstantsType
  <2> QED BY <1>4, <1>5, <2>2, <2>3 DEF LockOK
<1>10. AfterOK'
  BY <1>4 DEF AfterOK, Done, WatcherMissesNone
<1> QED BY <1>6, <1>7, <1>8, <1>9, <1>10 DEF PoolOK

\* When all goroutines have ended, the channel is empty and every identifier is
\* in one status (wg.Wait in ParallelizeExec).
LEMMA AtTheEnd ==
    ASSUME IInv, Done
    PROVE  /\ DOMAIN identifiers = 1 .. Len(identifiers) /\ Len(identifiers) \in Nat
           /\ DOMAIN statuses = 1 .. Len(statuses) /\ Len(statuses) \in Nat
           /\ \A k \in DOMAIN statuses : /\ statuses[k].item \in 1 .. Len(identifiers)
                                         /\ statuses[k] \in ResStatus
           /\ \A i \in DOMAIN identifiers : \E k \in DOMAIN statuses : statuses[k].item = i
           /\ \A k, l \in DOMAIN statuses : statuses[k].item = statuses[l].item => k = l
           /\ \A r \in ran : \E k \in DOMAIN statuses : statuses[k] = r
<1>1. /\ TypeOK /\ step = "made" /\ Len(identifiers) \in Nat /\ DOMAIN identifiers = 1 .. Len(identifiers)
      /\ DOMAIN statuses = 1 .. Len(statuses) /\ Len(statuses) \in Nat
      /\ \A k \in DOMAIN statuses : statuses[k].item \in Items /\ statuses[k] \in ResStatus
  BY StatusType DEF IInv, TypeOK, Done
<1>2. \A w \in Workers : pc[w] = "exit" /\ item[w] = 0
  BY DEF IInv, PoolOK, AfterOK, HeldOK
<1>3. toExec = <<>>
  <2>1. CASE Len(identifiers) = 0
    <3>1. Len(toExec) = 0 /\ toExec \in Seq(Items)
      BY <2>1 DEF IInv, TypeOK, PoolTypeOK, PoolOK, QueueOK
    <3> QED BY <3>1
  <2>2. CASE Len(identifiers) # 0
    <3>1. 1 <= Len(identifiers) /\ 1 <= Count
      BY <1>1, <2>2, ConstantsType DEF IInv, MakingOK, TypeOK
    <3>2. 1 \in Workers
      BY <3>1, CountAssumption DEF Workers
    <3> QED BY <1>1, <1>2, <3>1, <3>2 DEF IInv, PoolOK, QueueOK
  <2> QED BY <2>1, <2>2
<1>4. Taken = Len(identifiers)
  BY <1>1, <1>3 DEF Taken
<1>5. \A i \in DOMAIN identifiers : \E k \in DOMAIN statuses : statuses[k].item = i
  BY <1>1, <1>2, <1>4 DEF IInv, PoolOK, NoneLost
<1>6. \A k, l \in DOMAIN statuses : statuses[k].item = statuses[l].item => k = l
  BY DEF IInv, PoolOK, ReportedOK
<1>7. \A k \in DOMAIN statuses : statuses[k].item \in 1 .. Len(identifiers)
  BY <1>1, <1>4 DEF IInv, PoolOK, ReportedOK, Items
<1>8. \A r \in ran : \E k \in DOMAIN statuses : statuses[k] = r
  BY <1>2 DEF IInv, PoolOK, RanOK
<1> QED BY <1>1, <1>5, <1>6, <1>7, <1>8

\* The return, the watcher and the daemonset pods leave the pool alone.
LEMMA OutsideStep ==
    ASSUME IInv,
           \/ ExecReturns \/ (\E i \in Items : Expire(i)) \/ Concludes \/ GivesUp
           \/ (\E n \in Nodes : ToolPodGoes(n) \/ ToolPodComes(n)) \/ UNCHANGED vars
    PROVE  IInv'
<1>t. TypeOK /\ MakingOK /\ PoolOK
  BY DEF IInv
<1>1. UNCHANGED <<toExec, pc, item, execOk, seen, lock, missing, success, statuses, ran, call, names, others, own>>
  BY DEF ExecReturns, Return, Expire, Concludes, GivesUp, ToolPodGoes, ToolPodComes, vars, pool
<1>2. /\ QueueOK' = QueueOK /\ HeldOK' = HeldOK /\ ReportedOK' = ReportedOK /\ NoneLost' = NoneLost
      /\ RanOK' = RanOK /\ LockOK' = LockOK
  BY <1>1 DEF QueueOK, HeldOK, ReportedOK, NoneLost, RanOK, LockOK, Honest, Taken, own
<1>3. CASE ExecReturns
  <2>1. step = "made" /\ returned' = TRUE /\ (\A w \in Workers : pc[w] = "exit") /\ watcher' \in {"none", "ticking"}
        /\ UNCHANGED <<daemonset, expired>>
    BY <1>3 DEF ExecReturns, Return
  <2>2. TypeOK'
    BY <1>t, <1>1, <2>1 DEF TypeOK, PoolTypeOK, call, daemonset, own
  <2>3. MakingOK'
    BY <1>t, <1>1, <2>1 DEF MakingOK, call, daemonset, own
  <2>4. AfterOK'
    BY <1>1, <2>1 DEF AfterOK, Done, WatcherMissesNone, own
  <2> QED BY <1>t, <1>2, <2>2, <2>3, <2>4 DEF IInv, PoolOK
<1>4. CASE (\E i \in Items : Expire(i)) \/ Concludes \/ GivesUp
  <2>1. /\ watcher = "ticking" /\ UNCHANGED <<daemonset, returned>>
        /\ watcher' \in {"ticking", "destroyed", "over"} /\ expired' \subseteq expired \cup Items /\ expired \subseteq expired'
    BY <1>4 DEF Expire, Concludes, GivesUp, pool
  <2>2. TypeOK'
    BY <1>t, <1>1, <2>1 DEF TypeOK, PoolTypeOK, call, daemonset, own
  <2>3. Done
    BY <1>t, <2>1 DEF PoolOK, AfterOK
  <2>4. MakingOK'
    BY <1>t, <1>1, <2>1, <2>3 DEF MakingOK, Done, call, daemonset, own
  <2>5. WatcherMissesNone'
    <3>1. CASE Concludes
      <4>1. ASSUME NEW r \in ran, r.ok PROVE r.item \in expired
        <5>1. PICK k \in DOMAIN statuses : statuses[k] = r
          BY <1>t, <2>3, AtTheEnd DEF IInv
        <5>2. Answer(k) = "Destroyed"
          BY <3>1, <4>1, <5>1 DEF Concludes
        <5>3. OnRecord(AskedAt(k), r.item) = "Destroyed"
          BY <5>1, <5>2 DEF Answer
        <5> QED BY <5>3 DEF OnRecord
      <4> QED BY <1>1, <3>1, <4>1 DEF Concludes, WatcherMissesNone
    <3>2. CASE (\E i \in Items : Expire(i)) \/ GivesUp
      BY <3>2, <1>1, <2>1 DEF Expire, GivesUp, WatcherMissesNone
    <3> QED BY <1>4, <3>1, <3>2
  <2>6. AfterOK'
    BY <1>t, <1>1, <2>1, <2>3, <2>5 DEF PoolOK, AfterOK, Done, own
  <2> QED BY <1>t, <1>2, <2>2, <2>4, <2>6 DEF IInv, PoolOK
<1>5. CASE \E n \in Nodes : ToolPodGoes(n) \/ ToolPodComes(n)
  <2>1. UNCHANGED <<returned, after>>
    BY <1>5 DEF ToolPodGoes, ToolPodComes, pool
  <2>2. /\ up' \in [Nodes -> BOOLEAN] /\ generation' \in Names
        /\ \A n \in Nodes : ~up'[n] => generation'[n] < MaxGenerations
    <3> PICK n \in Nodes : ToolPodGoes(n) \/ ToolPodComes(n)
      BY <1>5
    <3>t. up \in [Nodes -> BOOLEAN] /\ generation \in [Nodes -> 0 .. MaxGenerations] /\ MaxGenerations \in Nat
      BY <1>t, ConstantsType DEF TypeOK, Names
    <3>1. CASE ToolPodGoes(n)
      BY <3>t, <3>1 DEF ToolPodGoes, Names
    <3>2. CASE ToolPodComes(n)
      <4>1. generation[n] < MaxGenerations /\ generation[n] + 1 \in 0 .. MaxGenerations
        BY <1>t, <3>t, <3>2 DEF ToolPodComes, MakingOK
      <4> QED BY <1>t, <3>t, <3>2, <4>1 DEF ToolPodComes, MakingOK, Names
    <3> QED BY <3>1, <3>2
  <2>3. TypeOK'
    BY <1>t, <1>1, <2>1, <2>2 DEF TypeOK, PoolTypeOK, call, own, after
  <2>4. MakingOK'
    BY <1>t, <1>1, <2>1, <2>2 DEF MakingOK, NotBegun, call, own, after
  <2>5. AfterOK'
    BY <1>t, <1>1, <2>1 DEF PoolOK, AfterOK, Done, WatcherMissesNone, own, after
  <2> QED BY <1>t, <1>2, <2>3, <2>4, <2>5 DEF IInv, PoolOK
<1>6. CASE UNCHANGED vars
  <2>1. UNCHANGED <<returned, after, daemonset>>
    BY <1>6 DEF vars, pool
  <2>2. TypeOK' /\ MakingOK'
    BY <1>t, <1>1, <2>1 DEF TypeOK, PoolTypeOK, MakingOK, NotBegun, call, own, after, daemonset
  <2>3. AfterOK'
    BY <1>t, <1>1, <2>1 DEF PoolOK, AfterOK, Done, WatcherMissesNone, own, after
  <2> QED BY <1>t, <1>2, <2>2, <2>3 DEF IInv, PoolOK
<1> QED BY <1>3, <1>4, <1>5, <1>6

\* Every step of Exec, of another call and of the cluster keeps the invariant.
LEMMA InductiveStep == IInv /\ [Next]_vars => IInv'
<1> SUFFICES ASSUME IInv, [Next]_vars PROVE IInv'
  OBVIOUS
<1>t. TypeOK /\ MakingOK /\ PoolOK
  BY DEF IInv
<1>1. CASE Made
  BY <1>t, <1>1, MakeStep, MadeStep DEF IInv, Make
<1>2. CASE Deployed \/ Lookup \/ List \/ Assign \/ Result \/ Refuse
  <2>1. TypeOK' /\ MakingOK'
    BY <1>t, <1>2, MakeStep DEF Make
  <2>2. step' # "made"
    <3>1. CASE Deployed
      BY <1>t, <3>1 DEF Deployed, TypeOK, MakingOK
    <3>2. CASE Lookup \/ List \/ Assign \/ Result \/ Refuse
      BY <3>2 DEF Lookup, List, Assign, Result, Refuse, Use, own
    <3> QED BY <1>2, <3>1, <3>2
  <2>3. (TypeOK /\ step # "made" /\ NotBegun => PoolOK)'
    BY FreshPool, PTL
  <2> QED BY <2>1, <2>2, <2>3 DEF IInv, MakingOK
<1>3. CASE OtherLists \/ OtherAssigns
  <2>1. TypeOK' /\ MakingOK'
    BY <1>t, <1>3, MakeStep
  <2>2. UNCHANGED <<pool, own, after>>
    BY <1>3 DEF OtherLists, OtherAssigns
  <2>3. PoolOK'
    <3>1. QueueOK' /\ HeldOK' /\ ReportedOK' /\ NoneLost'
      BY <1>t, <2>2 DEF PoolOK, QueueOK, HeldOK, ReportedOK, NoneLost, Taken, pool, own
    <3>2. RanOK' /\ LockOK'
      BY <1>t, <2>2 DEF PoolOK, RanOK, LockOK, Honest, pool
    <3>3. AfterOK'
      BY <1>t, <2>2 DEF PoolOK, AfterOK, Done, WatcherMissesNone, pool, own, after
    <3> QED BY <3>1, <3>2, <3>3 DEF PoolOK
  <2> QED BY <2>1, <2>3 DEF IInv
<1>4. ASSUME NEW w \in Workers, Goroutine(w)
      PROVE  IInv'
  <2>1. UNCHANGED <<call, daemonset, names, others, own, after>>
    BY <1>4 DEF Goroutine
  <2>2. UNCHANGED returned
    BY <1>4 DEF Goroutine, Take, Lock, Update, Check, Run
  <2>3. pc[w] \notin {"new", "exit"}
    BY <1>4 DEF Goroutine, Take, Lock, Update, Check, Run
  <2>4. /\ step = "made" /\ UNCHANGED <<identifiers, step>>
        /\ AfterOK'
    BY <2>1, <2>2, <2>3, Moving
  <2>5. TypeOK'
    BY <1>t, <1>4, GoroutineType DEF PoolOK
  <2>6. MakingOK'
    BY <1>t, <2>1, <2>4 DEF MakingOK, call, daemonset, own
  <2>7. QueueOK' /\ HeldOK' /\ ReportedOK' /\ NoneLost' /\ RanOK' /\ LockOK'
    <3>1. CASE Take(w)
      BY <2>4, <3>1, TakeStep
    <3>2. CASE Lock(w)
      BY <2>4, <3>2, LockStep
    <3>3. CASE Update(w)
      BY <2>4, <3>3, UpdateStep
    <3>4. ASSUME NEW broken, NEW podless, Check(w, broken, podless)
          PROVE  QueueOK' /\ HeldOK' /\ ReportedOK' /\ NoneLost' /\ RanOK' /\ LockOK'
      BY <2>4, <3>4, CheckStep
    <3>5. ASSUME NEW there, item[w] # 0, Run(w, there)
          PROVE  QueueOK' /\ HeldOK' /\ ReportedOK' /\ NoneLost' /\ RanOK' /\ LockOK'
      BY <2>4, <3>5, RunStep
    <3> QED BY <1>4, <3>1, <3>2, <3>3, <3>4, <3>5 DEF Goroutine
  <2> QED BY <2>4, <2>5, <2>6, <2>7 DEF IInv, PoolOK
<1>5. CASE \/ ExecReturns \/ (\E i \in Items : Expire(i)) \/ Concludes \/ GivesUp
           \/ (\E n \in Nodes : ToolPodGoes(n) \/ ToolPodComes(n)) \/ UNCHANGED vars
  BY <1>5, OutsideStep
<1> QED BY <1>1, <1>2, <1>3, <1>4, <1>5 DEF Next, Make

LEMMA InitialState == Init => IInv
<1> SUFFICES ASSUME Init PROVE IInv
  OBVIOUS
<1>1. TypeOK
  BY TypeInit
<1>2. NotBegun /\ step = "lookup"
  BY DEF Init, PoolInit, NotBegun
<1>3. MakingOK
  <2>1. identifiers = <<>> /\ next = 1 /\ total \in Nat /\ \A n \in Nodes : up[n]
    BY DEF Init
  <2>2. Len(identifiers) = 0 /\ DOMAIN identifiers = {}
    BY <2>1
  <2> QED BY <1>2, <2>1, <2>2 DEF MakingOK
<1>4. PoolOK
  BY <1>1, <1>2, FreshPool
<1> QED BY <1>1, <1>3, <1>4 DEF IInv

LEMMA Invariance == Spec => []IInv
  BY InitialState, InductiveStep, PTL DEF Spec

-----------------------------------------------------------------------------
(***************************************************************************)
(* The theorems.                                                           *)
(***************************************************************************)

\* Type correctness: the shared statuses, the channel and the identifiers hold
\* what their readers take them to hold (CommonExecutor.Exec).
THEOREM TypeCorrect == Spec => []TypeOK
<1>1. IInv => TypeOK
  BY DEF IInv
<1> QED BY <1>1, Invariance, PTL

\* When Exec returns, every identifier has exactly one status, that of its
\* command, whatever the order the goroutines finished in (execCommandInPod).
THEOREM EveryIdentifierReportedOnce == Spec => []OneStatusEach
<1>1. ASSUME IInv, Done
      PROVE  /\ Len(statuses) = Len(identifiers)
             /\ \A i \in DOMAIN identifiers : Cardinality({k \in DOMAIN statuses : statuses[k].item = i}) = 1
             /\ \A r \in ran : \E k \in DOMAIN statuses : statuses[k] = r
  <2>1. Len(statuses) = Len(identifiers)
    <3> DEFINE m == Len(statuses)
               n == Len(identifiers)
               f == [k \in 1 .. m |-> statuses[k].item]
    <3>1. f \in [1 .. m -> 1 .. n]
      BY <1>1, AtTheEnd
    <3>2. \A k, l \in 1 .. m : f[k] = f[l] => k = l
      BY <1>1, AtTheEnd
    <3>3. \A i \in 1 .. n : \E k \in 1 .. m : f[k] = i
      BY <1>1, AtTheEnd
    <3>4. m \in Nat /\ n \in Nat
      BY <1>1, AtTheEnd
    <3> HIDE DEF f, m, n
    <3>5. ExistsBijection(1 .. m, 1 .. n)
      BY <3>1, <3>2, <3>3 DEF ExistsBijection, Bijection, Injection, Surjection, IsInjective
    <3>6. IsFiniteSet(1 .. m) /\ Cardinality(1 .. m) = m /\ Cardinality(1 .. n) = n
      BY <3>4, FS_Interval
    <3>7. Cardinality(1 .. n) = Cardinality(1 .. m)
      BY <3>5, <3>6, FS_Bijection
    <3> QED BY <3>6, <3>7 DEF m, n
  <2>2. ASSUME NEW i \in DOMAIN identifiers
        PROVE  Cardinality({k \in DOMAIN statuses : statuses[k].item = i}) = 1
    <3> PICK k \in DOMAIN statuses : statuses[k].item = i
      BY <1>1, AtTheEnd
    <3>1. {l \in DOMAIN statuses : statuses[l].item = i} = {k}
      BY <1>1, AtTheEnd
    <3> QED BY <3>1, FS_Singleton
  <2> QED BY <1>1, <2>1, <2>2, AtTheEnd
<1>2. IInv => OneStatusEach
  BY <1>1 DEF OneStatusEach
<1> QED BY <1>2, Invariance, PTL

\* The experiment is reported successful exactly when each of its statuses is,
\* but for a failure that a missing pod has made forgotten (execCommandInPod).
THEOREM FailuresAreKept == Spec => []AnyFailureFails
<1>1. IInv => AnyFailureFails
  BY DEF IInv, PoolOK, LockOK, Honest, AnyFailureFails
<1> QED BY <1>1, Invariance, PTL

\* An experiment reported successful was run with success on every resource
\* selected, although the map of the names of the tool's pods is shared with the
\* other calls (GetChaosBladeDaemonsetPodName, execCommandInPod).
THEOREM SuccessMeansAll == Spec => []SuccessCoversAll
<1>1. ASSUME IInv, Done, success, missing = {}, kind # "network", NEW r \in 1 .. total
      PROVE  \E i \in DOMAIN identifiers : /\ identifiers[i].resource = r
                                           /\ [item |-> i, ok |-> TRUE] \in ran
  <2>1. total \in Nat /\ next = total + 1 /\ Len(identifiers) + 1 = next
    BY <1>1 DEF IInv, MakingOK, Done, TypeOK
  <2>2. r \in DOMAIN identifiers
    BY <1>1, <2>1, AtTheEnd
  <2>3. identifiers[r].resource = r
    BY <1>1, <2>2 DEF IInv, MakingOK
  <2> PICK k \in DOMAIN statuses : statuses[k].item = r
    BY <1>1, <2>2, AtTheEnd
  <2>4. statuses[k].ok
    BY <1>1 DEF IInv, PoolOK, LockOK, Honest
  <2>5. statuses[k] \in ran /\ statuses[k] \in ResStatus
    BY <1>1, <2>4, AtTheEnd DEF IInv, PoolOK, RanOK
  <2>6. statuses[k] = [item |-> r, ok |-> TRUE]
    BY <2>4, <2>5 DEF ResStatus
  <2> QED BY <2>2, <2>3, <2>5, <2>6
<1>2. IInv => SuccessCoversAll
  BY <1>1 DEF SuccessCoversAll
<1> QED BY <1>2, Invariance, PTL

\* No command is started twice: a command already run is in a status or in the
\* hands of a goroutine that has run it (the closed channel of ParallelizeExec).
THEOREM CommandsRunOnce == Spec => NoSecondRun
<1>1. IInv /\ [Next]_vars => [\A r \in ran : \A s \in ran' \ ran : s.item # r.item]_vars
  <2> SUFFICES ASSUME IInv, Next, NEW r \in ran, NEW s \in ran' \ ran PROVE s.item # r.item
    OBVIOUS
  <2>1. PICK w \in Workers : Goroutine(w)
    BY DEF Next, Make, Deployed, Lookup, List, Assign, Result, Made, ParallelizeExec, Refuse,
           OtherLists, OtherAssigns, ExecReturns, Return, Expire, Concludes, GivesUp,
           ToolPodGoes, ToolPodComes, pool
  <2>2. PICK there : item[w] # 0 /\ Run(w, there)
    BY <2>1 DEF Goroutine, Take, Lock, Update, Check
  <2>3. pc[w] = "run" /\ s.item = item[w]
    BY <2>2 DEF Run
  <2>4. ASSUME NEW k \in DOMAIN statuses, statuses[k] = r
        PROVE  r.item # item[w]
    BY <2>4 DEF IInv, PoolOK, ReportedOK
  <2>5. ASSUME NEW v \in Workers, pc[v] \in {"lock", "update"}, item[v] = r.item
        PROVE  r.item # item[w]
    BY <2>2, <2>3, <2>5 DEF IInv, PoolOK, HeldOK
  <2> QED BY <2>3, <2>4, <2>5 DEF IInv, PoolOK, RanOK
<1> QED BY <1>1, Invariance, PTL DEF Spec, NoSecondRun

\* The watcher never takes an experiment for destroyed while a fault that one of
\* its commands has injected goes on: no result is lost on its way to the statuses
\* (execCommandInPod), and an answer from the wrong pod does not say Destroyed
\* (checkExperimentStatus).
THEOREM WatcherConcludesRightly == Spec => []WatcherMissesNone
<1>1. IInv => WatcherMissesNone
  BY DEF IInv, PoolOK, AfterOK
<1> QED BY <1>1, Invariance, PTL

=============================================================================
