--------------------------- MODULE ResourceSelect ---------------------------
(***************************************************************************)
(* How an experiment finds the pods, nodes and containers it acts on: the  *)
(* flags of the specification (matchers) are checked, the resources listed *)
(* by name or by label, cut to a count or a percentage, and turned into    *)
(* the container metas that the executors work on; and how the destroy     *)
(* finds them again from the identifiers kept in the resource statuses.    *)
(*                                                                         *)
(* Sources: exec/model/controller.go, filter.go, filter_pod.go,            *)
(* context.go; exec/node/filter.go; the controllers of exec/pod, exec/node *)
(* and exec/container.                                                     *)
(*                                                                         *)
(* A pod or node is a record with its ns, name, node, labels (a function), *)
(* terminating and containers (a sequence of [name, id, running, runtime], *)
(* the container statuses).  A flag of several values is the sequence of   *)
(* them, empty when the flag is not given; a numeric flag is not given, no *)
(* number, or an int.  Of labels, an item is a pair, an illegal pair or a  *)
(* word without "=".                                                       *)
(***************************************************************************)
EXTENDS Integers, SequencesExt

CONSTANT FallsShort  \* pairs <<percent, n>> whose floating-point product has
                     \* lost the half that percent / 100 * n ends with

\* The empty string, and texts: strings (the provers know of no literal that it
\* is one).
Blank == ""
Text  == STRING \cup {Blank}

NumFlag == [given : {"no", "bad", "int"}, val : Int]

\* A selection ends with resources, with a failure, or in a panic.
Ok(list) == [resp |-> "ok", list |-> list]
Fail     == [resp |-> "fail", list |-> <<>>]
Panic    == [resp |-> "panic", list |-> <<>>]

\* The i-th of the positions K.
Nth(K, i) == CHOOSE k \in K : Cardinality({j \in K : j <= k}) = i

\* The elements of a list at the positions K, in their order.
Pick(list, K) == [i \in 1 .. Cardinality(K) |-> list[Nth(K, i)]]

\* Lists one after the other: the element of a list comes after those of the
\* lists before, and after the elements before it in its own list.
Places(lists) == UNION {{<<i, k>> : k \in DOMAIN lists[i]} : i \in DOMAIN lists}
UpTo(lists, t) == {s \in Places(lists) : s[1] < t[1] \/ (s[1] = t[1] /\ s[2] <= t[2])}
NthPlace(lists, n) == CHOOSE t \in Places(lists) : Cardinality(UpTo(lists, t)) = n
Concat(lists) ==
    [n \in 1 .. Cardinality(Places(lists)) |-> lists[NthPlace(lists, n)[1]][NthPlace(lists, n)[2]]]

-----------------------------------------------------------------------------
(***************************************************************************)
(* Flags.                                                                  *)
(***************************************************************************)

\* At least one of evict-count, evict-percent, labels and names is needed.
CheckFlags(flags) ==
    \/ flags.count.given # "no" \/ flags.percent.given # "no"
    \/ flags.labels # <<>> \/ flags.names # <<>>

\* At most one namespace; "default" when there is none.
CheckPodFlags(flags) == Len(flags.ns) <= 1 /\ CheckFlags(flags)

Namespace(flags) == IF flags.ns = <<>> THEN "default" ELSE flags.ns[1]

\* Per key the values asked for.  Words are skipped; a value that is illegal
\* takes the requirement of its key with it.
ParseLabels(labels) ==
    LET pairs   == {x \in ToSet(labels) : x.form # "word"}
        illegal == {x.key : x \in {y \in pairs : y.form = "illegal"}}
    IN  [k \in {x.key : x \in pairs} \ illegal |->
            {x.value : x \in {y \in pairs : y.key = k}}]

Matches(labels, requirements, k) ==
    k \in DOMAIN labels /\ labels[k] \in requirements[k]

\* One requirement is enough for a resource that is given by name.
MapContains(labels, requirements) ==
    \E k \in DOMAIN requirements : Matches(labels, requirements, k)

\* The selector of a List call: all requirements.
Selects(requirements, labels) ==
    \A k \in DOMAIN requirements : Matches(labels, requirements, k)

\* math.Round(float64(percent) / 100.0 * float64(n)): halves are rounded away from
\* zero, but for those that the floating-point numbers fall short of.
Share(percent, n) ==
    LET half == IF <<percent, n>> \in FallsShort THEN 99 ELSE 100
    IN  IF percent >= 0 THEN (2 * percent * n + half) \div 200
                        ELSE -((half - 2 * percent * n) \div 200)

\* Mutant: the percentage is cut off instead of rounded.
ResourceCountFloor(n, flags) ==
    LET illegal(flag) == flag.given = "bad" \/ (flag.given = "int" /\ flag.val = 0)
        want  == IF flags.count.given = "int" THEN flags.count.val ELSE n
        share == IF flags.percent.given = "int" THEN (flags.percent.val * n) \div 100 ELSE n
    IN  IF n = 0 THEN [ok |-> TRUE, n |-> 0]
        ELSE IF illegal(flags.count) \/ illegal(flags.percent) THEN [ok |-> FALSE, n |-> 0]
        ELSE [ok |-> TRUE, n |-> Min({want, share, n})]

\* How many of n resources evict-count and evict-percent leave.  Zero is an
\* illegal value, a negative one is not noticed.
GetResourceCount(n, flags) ==
    LET illegal(flag) == flag.given = "bad" \/ (flag.given = "int" /\ flag.val = 0)
        want  == IF flags.count.given = "int" THEN flags.count.val ELSE n
        share == Share(IF flags.percent.given = "int" THEN flags.percent.val ELSE 100, n)
    IN  IF n = 0 THEN [ok |-> TRUE, n |-> 0]
        ELSE IF illegal(flags.count) \/ illegal(flags.percent) THEN [ok |-> FALSE, n |-> 0]
        ELSE [ok |-> TRUE, n |-> Min({want, share, n})]

-----------------------------------------------------------------------------
(***************************************************************************)
(* Pods and nodes.                                                         *)
(***************************************************************************)

\* Get by name: what is not there is skipped, what is named twice comes twice.
\* So is a name whose Get fails: flags then has the names that could be read.
ByNames(all, ns, flags) ==
    LET requirements == ParseLabels(flags.labels)
        meets(r) == DOMAIN requirements = {} \/ MapContains(r.labels, requirements)
    IN  Concat([i \in DOMAIN flags.names |->
            Pick(all, {k \in DOMAIN all :
                          all[k].ns = ns /\ all[k].name = flags.names[i] /\ meets(all[k])})])

ByLabels(all, ns, flags) ==
    LET requirements == ParseLabels(flags.labels)
    IN  Pick(all, {k \in DOMAIN all : all[k].ns = ns /\ Selects(requirements, all[k].labels)})

IllegalLabels(flags) == flags.labels # <<>> /\ DOMAIN ParseLabels(flags.labels) = {}

\* Pods by name, else by label and not being deleted; neither gives none.
podResources(pods, flags) ==
    LET ns     == Namespace(flags)
        named  == ByNames(pods, ns, flags)
        listed == ByLabels(pods, ns, flags)
    IN  IF flags.names # <<>> THEN IF named = <<>> THEN Fail ELSE Ok(named)
        ELSE IF IllegalLabels(flags) THEN Fail
        ELSE IF flags.labels = <<>> THEN Ok(<<>>)
        ELSE IF listed = <<>> THEN Fail
        ELSE Ok(Pick(listed, {k \in DOMAIN listed : ~listed[k].terminating}))

nodeResources(nodes, flags) ==
    LET named  == ByNames(nodes, Blank, flags)
        listed == ByLabels(nodes, Blank, flags)
        found  == IF flags.names # <<>> THEN named
                  ELSE IF flags.labels = <<>> \/ IllegalLabels(flags) THEN <<>>
                  ELSE listed
    IN  IF found = <<>> THEN Fail ELSE Ok(found)

\* The list of resources as the groups of evict-group see it: a resource once
\* for every key, in the group of its value of that key ("" when it has none).
Entries(list, keys) ==
    [k \in 1 .. (Len(list) * Len(keys)) |->
        LET r   == list[((k - 1) \div Len(keys)) + 1]
            key == keys[((k - 1) % Len(keys)) + 1]
        IN  [res   |-> r,
             group |-> IF key \in DOMAIN r.labels THEN r.labels[key] ELSE Blank]]

Members(entries, g) == {k \in DOMAIN entries : entries[k].group = g}

\* What the limits leave of a group.
CountOf(entries, g, flags) == GetResourceCount(Cardinality(Members(entries, g)), flags)

\* Of every group the first ones, as many as the limits leave.
FirstOnes(entries, flags) ==
    {k \in DOMAIN entries :
        LET g == entries[k].group
        IN  Cardinality({j \in Members(entries, g) : j <= k}) <= CountOf(entries, g, flags).n}

\* The choices of entries: the first ones, or at random as many of every group.
Selections(entries, flags) ==
    IF flags.random
    THEN {K \in SUBSET DOMAIN entries : \A g \in {entries[k].group : k \in DOMAIN entries} :
            Cardinality(K \cap Members(entries, g)) = CountOf(entries, g, flags).n}
    ELSE {FirstOnes(entries, flags)}

\* The outcomes of filterByOtherFlags for pods; resources are listed in order
\* where the code goes through its map of groups in any order.
filterPods(pods, flags) ==
    LET entries == IF flags.group = <<>>
                   THEN [k \in DOMAIN pods |-> [res |-> pods[k], group |-> Blank]]
                   ELSE Entries(pods, flags.group)
        counts  == {CountOf(entries, g, flags) : g \in {entries[k].group : k \in DOMAIN entries}}
        resources == [k \in DOMAIN entries |-> entries[k].res]
    IN  IF \E c \in counts : ~c.ok THEN {Fail}
        ELSE IF \E c \in counts : c.n < 0 THEN {Panic}
        ELSE {IF K = {} /\ flags.group # <<>> THEN Fail ELSE Ok(Pick(resources, K)) :
                 K \in Selections(entries, flags)}

\* Nodes are put in groups that are then not kept: with evict-group none is left.
filterNodes(nodes, flags) ==
    LET count == GetResourceCount(Len(nodes), flags)
    IN  IF flags.group # <<>> THEN Ok(<<>>)
        ELSE IF ~count.ok THEN Fail
        ELSE IF count.n < 0 THEN Panic
        ELSE Ok(SubSeq(nodes, 1, count.n))

GetMatchedPodResources(pods, flags) ==
    LET found == podResources(pods, flags)
    IN  IF ~CheckPodFlags(flags) \/ found.resp # "ok" THEN {Fail}
        ELSE filterPods(found.list, flags)

getMatchedNodeResources(nodes, flags) ==
    LET found == nodeResources(nodes, flags)
    IN  IF ~CheckFlags(flags) \/ found.resp # "ok" THEN Fail
        ELSE filterNodes(found.list, flags)

-----------------------------------------------------------------------------
(***************************************************************************)
(* Container metas and identifiers.                                        *)
(***************************************************************************)

Meta(pod, c) == [ns |-> pod.ns, node |-> pod.node, pod |-> pod.name,
                 cname |-> c.name, cid |-> c.id, runtime |-> c.runtime]

\* The first container that is running; pods without one are left out.
podMetas(pods) ==
    LET running(p) == {k \in DOMAIN p.containers : p.containers[k].running}
        usable     == Pick(pods, {i \in DOMAIN pods : running(pods[i]) # {}})
    IN  [i \in DOMAIN usable |->
            Meta(usable[i], usable[i].containers[Nth(running(usable[i]), 1)])]

nodeMetas(nodes) ==
    [i \in DOMAIN nodes |-> [ns |-> Blank, node |-> nodes[i].name, pod |-> Blank,
                             cname |-> Blank, cid |-> Blank, runtime |-> Blank]]

\* The elements of the flag that the pod's container k meets.  An id is a prefix
\* test, which a container without an id passes whatever was asked for.
Wanted(pod, k, flags) ==
    LET c == pod.containers[k]
    IN  IF flags.ids # <<>>
        THEN {x \in DOMAIN flags.ids : c.id \in {Blank, flags.ids[x]}}
        ELSE {x \in DOMAIN flags.cnames : flags.cnames[x] = c.name}

\* The error about one container is kept for the containers after it.
StatusErr(pod, k) ==
    \E j \in 1 .. k : pod.containers[j].id = Blank \/ ~pod.containers[j].running

\* The containers of the pods that an id or a name asks for.
AskedContainers(pods, flags) ==
    Concat([i \in DOMAIN pods |->
        Concat([k \in DOMAIN pods[i].containers |->
            [x \in 1 .. Cardinality(Wanted(pods[i], k, flags)) |-> Meta(pods[i], pods[i].containers[k])]])])

\* Mutant: the status of the containers is not looked at.
ContainersUnchecked(pods, flags) == Ok(AskedContainers(pods, flags))

\* getMatchedContainerMetaList: by id, else by name, else by index (from 0).
containerMetas(pods, flags) ==
    LET byFlag == flags.ids # <<>> \/ flags.cnames # <<>>
        listed == Pick(pods, {i \in DOMAIN pods : pods[i].containers # <<>>})
        idx    == flags.index.val
    IN  IF byFlag
        THEN IF \E i \in DOMAIN listed : \E k \in DOMAIN listed[i].containers :
                   Wanted(listed[i], k, flags) # {} /\ StatusErr(listed[i], k)
             THEN Fail
             ELSE Ok(AskedContainers(listed, flags))
        ELSE IF listed = <<>> THEN Ok(<<>>)
        ELSE IF flags.index.given = "bad" THEN Fail
        ELSE IF idx < 0 THEN Panic
        ELSE IF \E i \in DOMAIN listed : \/ idx >= Len(listed[i].containers)
                                         \/ StatusErr(listed[i], Len(listed[i].containers))
        THEN Fail
        ELSE Ok([i \in DOMAIN listed |-> Meta(listed[i], listed[i].containers[idx + 1])])

\* Mutant: the runtime is not part of the identifier.
IdentifierShort(m) == <<m.ns, m.node, m.pod, m.cname, m.cid>>

Part(s) == IF s = Blank THEN <<>> ELSE <<s>>

\* The parts of the identifier string: empty parts after the pod are skipped.
GetIdentifier(m) ==
    <<m.ns, m.node, m.pod>> \o Part(m.cname) \o Part(m.cid) \o Part(m.runtime)

\* Mutant: node and pod change places.
ParseSwapped(ss) ==
    LET part(i) == IF i <= Len(ss) THEN ss[i] ELSE Blank
    IN  [ns |-> part(1), node |-> part(3), pod |-> part(2),
         cname |-> part(4), cid |-> part(5), runtime |-> part(6)]

\* Parts are told by their position.
ParseIdentifier(ss) ==
    LET part(i) == IF i <= Len(ss) THEN ss[i] ELSE Blank
    IN  [ns |-> part(1), node |-> part(2), pod |-> part(3),
         cname |-> part(4), cid |-> part(5), runtime |-> part(6)]

-----------------------------------------------------------------------------
(***************************************************************************)
(* The controllers of the three scopes: the metas that Create hands to the *)
(* action's executor, and those that Destroy does.                         *)
(***************************************************************************)

CreatePods(pods, flags) ==
    {LET metas == podMetas(o.list)
     IN  IF o.resp = "panic" THEN Panic ELSE IF metas = <<>> THEN Fail ELSE Ok(metas) :
        o \in GetMatchedPodResources(pods, flags)}

CreateNodes(nodes, flags) ==
    LET o == getMatchedNodeResources(nodes, flags)
    IN  {IF o.resp = "ok" THEN Ok(nodeMetas(o.list)) ELSE o}

\* One of the flags container-ids, container-names and container-index is needed.
CreateContainers(pods, flags) ==
    IF flags.ids = <<>> /\ flags.cnames = <<>> /\ flags.index.given = "no" THEN {Fail}
    ELSE {LET found == IF o.resp = "ok" THEN containerMetas(o.list, flags) ELSE o
          IN  IF found = Ok(<<>>) THEN Fail ELSE found :
             o \in GetMatchedPodResources(pods, flags)}

\* Mutant: unsuccessful resources are destroyed as well.
DestroyMetasAll(statuses) ==
    [i \in DOMAIN statuses |-> ParseIdentifier(statuses[i].identifier)]

\* Only resources whose status is a success are destroyed.
DestroyMetas(statuses) ==
    LET good == {k \in DOMAIN statuses : statuses[k].ok}
    IN  [i \in 1 .. Cardinality(good) |-> ParseIdentifier(statuses[Nth(good, i)].identifier)]

=============================================================================
