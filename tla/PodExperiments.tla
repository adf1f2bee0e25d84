--------------------------- MODULE PodExperiments ---------------------------
(***************************************************************************)
(* Experiments on the pods of a cluster from the selection of their        *)
(* targets to their destruction, with the two actions that change the pods *)
(* themselves: delete, and fail, which breaks the images of a pod's        *)
(* containers and is ended by deleting the pod.  Several blades are        *)
(* reconciled at the same time, and the cluster changes under them.        *)
(*                                                                         *)
(* Sources: exec/pod/failexp.go, exec/pod/delete.go, and the controllers   *)
(* through module ResourceSelect.  The other actions (scope node and       *)
(* container, and the rest of scope pod) hand their metas to an executor:  *)
(* module ParallelExec.                                                    *)
(***************************************************************************)
EXTENDS ResourceSelect

CONSTANTS
    Exps,          \* experiments
    Requests,      \* functions from Exps: the scope, action and flags of each
    Clusters,      \* the sequences of pods the cluster may start with
    Nodes,         \* the sequence of its nodes
    Stable,        \* names under which a deleted pod is created again
    Evicted,       \* names of the pods that others may delete
    MaxEvictions,  \* bound on such deletions
    ApiFaults      \* may the API server refuse a call, or its reply be lost?

ASSUME PodBoundsAssumption == MaxEvictions \in Nat /\ ApiFaults \in BOOLEAN

PodFields == {"ns", "name", "node", "labels", "terminating", "containers", "ready", "gen", "rv",
              "images", "notes"}

Containers == [name : Text, id : Text, running : BOOLEAN, runtime : Text]

\* The pods of a cluster have different names, and so have the containers of a
\* pod; one that runs has an identifier.  No experiment has touched the pods
\* yet: their images are whole and carry no failPod annotation.
ASSUME ClustersAssumption ==
    \A c \in Clusters :
        /\ c \in Seq(Range(c))
        /\ \A i \in DOMAIN c :
             /\ c[i] = [f \in PodFields |-> c[i][f]]
             /\ {c[i].ns, c[i].name, c[i].node} \subseteq Text
             /\ {c[i].terminating, c[i].ready} \subseteq BOOLEAN
             /\ c[i].gen \in Nat /\ c[i].rv \in Nat
             /\ c[i].containers \in Seq(Containers)
             /\ \A k \in DOMAIN c[i].containers :
                  LET x == c[i].containers[k]
                  IN  /\ x.name # Blank /\ (x.running => x.id # Blank)
                      /\ \A l \in DOMAIN c[i].containers : c[i].containers[l].name = x.name => l = k
             /\ c[i].images = [k \in DOMAIN c[i].containers |-> 0]
             /\ c[i].notes = [k \in DOMAIN c[i].containers |-> -1]
             /\ \A j \in DOMAIN c : c[i].ns = c[j].ns /\ c[i].name = c[j].name => i = j

ASSUME NodesAssumption ==
    Nodes \in Seq(Range(Nodes)) /\ \A i \in DOMAIN Nodes : Nodes[i].name \in Text

FlagFields == {"ns", "count", "percent", "labels", "names", "group", "random", "ids", "cnames",
               "index"}

ASSUME RequestsAssumption ==
    \A r \in Requests :
        /\ DOMAIN r = Exps
        /\ \A e \in Exps :
             LET flags == r[e].flags
             IN  /\ flags = [x \in FlagFields |-> flags[x]]
                 /\ {flags.count, flags.percent, flags.index} \subseteq NumFlag
                 /\ \A list \in {flags.names, flags.group, flags.ids, flags.cnames} :
                       list \in Seq(Range(list))

Metas == [ns : Text, node : Text, pod : Text,
          cname : Text, cid : Text, runtime : Text]

Stages == {"new", "creating", "created", "destroying", "destroyed", "panicked"}

VARIABLES
    pods,       \* the pods; images and notes count the suffixes put on each
                \* container's image, notes being the failPod annotation (-1: none)
    request,    \* what each experiment asks for
    stage,      \* how far it is
    todo,       \* metas its executor has still to work on
    copy,       \* the pod it has read and not yet written (at most one)
    statuses,   \* its resource statuses
    sent,       \* history: the metas its creation was handed
    hit,        \* history: the pods it broke, or found broken already
    evictions,  \* pods deleted by others so far
    trouble     \* history: has a call been refused or a reply been lost?

vars == <<pods, request, stage, todo, copy, statuses, sent, hit, evictions, trouble>>

TypeOK ==
    /\ \A i \in DOMAIN pods :
         /\ {pods[i].terminating, pods[i].ready} \subseteq BOOLEAN
         /\ pods[i].gen \in Nat /\ pods[i].rv \in Nat
         /\ pods[i].images \in Seq(Nat) /\ pods[i].notes \in Seq(Nat \cup {-1})
         /\ Len(pods[i].images) = Len(pods[i].containers)
    /\ DOMAIN request = Exps
    /\ stage \in [Exps -> Stages]
    /\ \A e \in Exps :
         /\ todo[e] \in Seq(Metas) /\ sent[e] \in Seq(Metas)
         /\ Len(copy[e]) <= 1
         /\ statuses[e] \in Seq([identifier : Seq(Text), ok : BOOLEAN])
    /\ evictions \in 0 .. MaxEvictions
    /\ trouble \in BOOLEAN

Init ==
    /\ pods \in Clusters
    /\ request \in Requests
    /\ stage = [e \in Exps |-> "new"]
    /\ todo = [e \in Exps |-> <<>>]
    /\ copy = [e \in Exps |-> <<>>]
    /\ statuses = [e \in Exps |-> <<>>]
    /\ sent = [e \in Exps |-> <<>>]
    /\ hit = [e \in Exps |-> {}]
    /\ evictions = 0
    /\ trouble = FALSE

Fails(e) == request[e].action = "fail"

\* The positions of the pod a meta names: none or one.
At(m) == {i \in DOMAIN pods : pods[i].ns = m.ns /\ pods[i].name = m.pod}

Broken(p) == \E k \in DOMAIN p.images : p.images[k] > 0

\* Store new as the pod at i: a write that changes nothing makes no version.
Store(i, new) ==
    pods' = IF new = pods[i] THEN pods ELSE [pods EXCEPT ![i] = [new EXCEPT !.rv = @ + 1]]

Same(p) == [ns |-> p.ns, name |-> p.name, gen |-> p.gen]

-----------------------------------------------------------------------------
(***************************************************************************)
(* Create.                                                                 *)
(***************************************************************************)

\* The flags as a selection reads them: a named pod or node whose Get fails is
\* skipped as if it had not been named.
Readings(flags) ==
    {flags} \cup
    {[flags EXCEPT !.names = Pick(@, K)] :
        K \in IF ApiFaults THEN (SUBSET DOMAIN flags.names) \ {{}} ELSE {}}

\* A List that fails, or all the Gets, fail the creation.
Outcomes(req, flags) ==
    (CASE req.scope = "pod"       -> CreatePods(pods, flags)
       [] req.scope = "node"      -> CreateNodes(Nodes, flags)
       [] req.scope = "container" -> CreateContainers(pods, flags)
       [] OTHER                   -> {Fail})
    \cup (IF ApiFaults THEN {Fail} ELSE {})

\* Create with the flags as they are read.
CreateFrom(e, flags) ==
    /\ stage[e] = "new"
    /\ \E o \in Outcomes(request[e], flags) :
         /\ stage' = [stage EXCEPT ![e] = CASE o.resp = "ok"    -> "creating"
                                            [] o.resp = "fail"  -> "created"
                                            [] OTHER             -> "panicked"]
         /\ todo' = [todo EXCEPT ![e] = o.list]
         /\ sent' = [sent EXCEPT ![e] = o.list]
    /\ UNCHANGED <<pods, request, copy, statuses, hit, evictions, trouble>>

Create(e) == \E flags \in Readings(request[e].flags) : CreateFrom(e, flags)

\* The resource is done with: its status is kept, the next one follows.
Record(e, identifier, ok) ==
    /\ statuses' = [statuses EXCEPT ![e] = Append(@, [identifier |-> identifier, ok |-> ok])]
    /\ todo' = [todo EXCEPT ![e] = Tail(@)]
    /\ copy' = [copy EXCEPT ![e] = <<>>]

\* Mutant: the annotation is not looked at.
failPodAgain(p) ==
    [p EXCEPT !.notes  = p.images, !.images = [k \in DOMAIN @ |-> @[k] + 1]]

\* failPod: a container whose failPod annotation exists is left alone.
failPod(p) ==
    [p EXCEPT !.notes  = [k \in DOMAIN @ |-> IF @[k] = -1 THEN p.images[k] ELSE @[k]],
              !.images = [k \in DOMAIN @ |-> IF p.notes[k] = -1 THEN @[k] + 1 ELSE @[k]]]

\* A pod that cannot be read or is not ready is a failure.
FailGet(e) ==
    /\ Fails(e) /\ stage[e] = "creating" /\ todo[e] # <<>> /\ copy[e] = <<>>
    /\ LET m == Head(todo[e])
           found == {i \in At(m) : pods[i].ready /\ ~pods[i].terminating}
       IN  \/ /\ found = {} \/ ApiFaults
              /\ Record(e, GetIdentifier(m), FALSE)
           \/ \E i \in found :
                /\ copy' = [copy EXCEPT ![e] = <<pods[i]>>]
                /\ UNCHANGED <<todo, statuses>>
    /\ UNCHANGED <<pods, request, stage, sent, hit, evictions, trouble>>

\* Update of the copy: refused unless it is the current version of that pod.
FailUpdate(e) ==
    /\ Fails(e) /\ stage[e] = "creating" /\ copy[e] # <<>>
    /\ LET p == copy[e][1]
           m == Head(todo[e])
           current == {i \in At(m) : Same(pods[i]) = Same(p) /\ pods[i].rv = p.rv}
       IN  \/ \E i \in current, ok \in {TRUE, ~ApiFaults} :
                /\ Store(i, failPod(p))
                /\ Record(e, GetIdentifier(m), ok)
                /\ hit' = [hit EXCEPT ![e] = IF ok THEN @ \cup {Same(p)} ELSE @]
                /\ trouble' = (trouble \/ ~ok)
           \/ /\ current = {} \/ ApiFaults
              /\ Record(e, GetIdentifier(m), FALSE)
              /\ UNCHANGED <<pods, hit, trouble>>
    /\ UNCHANGED <<request, stage, sent, evictions>>

\* Delete by name, whatever the pod of that name is by now.
Terminate(m) ==
    \E i \in At(m) : Store(i, [pods[i] EXCEPT !.terminating = TRUE])

\* The delete action: its identifiers end with the pod.
DeletePod(e) ==
    /\ request[e].action = "delete" /\ stage[e] = "creating" /\ todo[e] # <<>>
    /\ LET m == Head(todo[e])
           identifier == <<m.ns, m.node, m.pod>>
       IN  \/ \E ok \in {TRUE, ~ApiFaults} : Terminate(m) /\ Record(e, identifier, ok)
           \/ /\ At(m) = {} \/ ApiFaults
              /\ Record(e, identifier, FALSE)
              /\ UNCHANGED pods
    /\ UNCHANGED <<request, stage, sent, hit, evictions, trouble>>

\* Another action's executor (module ParallelExec) reports on each meta.
OtherExec(e) ==
    /\ request[e].action = "other" /\ stage[e] = "creating" /\ todo[e] # <<>>
    /\ \E ok \in BOOLEAN : Record(e, GetIdentifier(Head(todo[e])), ok)
    /\ UNCHANGED <<pods, request, stage, sent, hit, evictions, trouble>>

CreateReturns(e) ==
    /\ stage[e] = "creating" /\ todo[e] = <<>>
    /\ stage' = [stage EXCEPT ![e] = "created"]
    /\ UNCHANGED <<pods, request, todo, copy, statuses, sent, hit, evictions, trouble>>

-----------------------------------------------------------------------------
(***************************************************************************)
(* Destroy.                                                                *)
(***************************************************************************)

Destroy(e) ==
    /\ stage[e] = "created"
    /\ stage' = [stage EXCEPT ![e] = "destroying"]
    /\ todo' = [todo EXCEPT ![e] = DestroyMetas(statuses[e])]
    /\ UNCHANGED <<pods, request, copy, statuses, sent, hit, evictions, trouble>>

Skip(e) ==
    /\ todo' = [todo EXCEPT ![e] = Tail(@)]
    /\ copy' = [copy EXCEPT ![e] = <<>>]

\* A pod that cannot be read is passed over.
DestroyGet(e) ==
    /\ Fails(e) /\ stage[e] = "destroying" /\ todo[e] # <<>> /\ copy[e] = <<>>
    /\ LET m == Head(todo[e])
       IN  \/ /\ At(m) = {} \/ ApiFaults
              /\ Skip(e)
              /\ trouble' = (trouble \/ At(m) # {})
           \/ \E i \in At(m) :
                /\ copy' = [copy EXCEPT ![e] = <<pods[i]>>]
                /\ UNCHANGED <<todo, trouble>>
    /\ UNCHANGED <<pods, request, stage, statuses, sent, hit, evictions>>

\* The pod that was read is deleted, by its name.
DestroyDelete(e) ==
    /\ Fails(e) /\ stage[e] = "destroying" /\ copy[e] # <<>>
    /\ Skip(e)
    /\ \/ Terminate(Head(todo[e])) /\ UNCHANGED trouble
       \/ /\ At(Head(todo[e])) = {} \/ ApiFaults
          /\ trouble' = (trouble \/ At(Head(todo[e])) # {})
          /\ UNCHANGED pods
    /\ UNCHANGED <<request, stage, statuses, sent, hit, evictions>>

\* Mutant: a stage nobody knows.
DestroyReturnsTypo(e) ==
    /\ stage[e] = "destroying"
    /\ Fails(e) => todo[e] = <<>>
    /\ stage' = [stage EXCEPT ![e] = "over"]
    /\ todo' = [todo EXCEPT ![e] = <<>>]
    /\ UNCHANGED <<pods, request, copy, statuses, sent, hit, evictions, trouble>>

\* The end of the loop; the delete action has nothing to destroy, another
\* executor's work is in module ParallelExec.
DestroyReturns(e) ==
    /\ stage[e] = "destroying"
    /\ Fails(e) => todo[e] = <<>>
    /\ stage' = [stage EXCEPT ![e] = "destroyed"]
    /\ todo' = [todo EXCEPT ![e] = <<>>]
    /\ UNCHANGED <<pods, request, copy, statuses, sent, hit, evictions, trouble>>

-----------------------------------------------------------------------------
(***************************************************************************)
(* The rest of the cluster.                                                *)
(***************************************************************************)

\* A container whose image is broken cannot be started again.
Kubelet(i) ==
    /\ Broken(pods[i]) /\ pods[i].ready
    /\ Store(i, [pods[i] EXCEPT !.ready = FALSE,
                    !.containers = [k \in DOMAIN @ |-> [@[k] EXCEPT !.running = FALSE]]])
    /\ UNCHANGED <<request, stage, todo, copy, statuses, sent, hit, evictions, trouble>>

\* Somebody else deletes a pod.
Evict(i) ==
    /\ ~pods[i].terminating /\ pods[i].name \in Evicted
    /\ evictions < MaxEvictions
    /\ evictions' = evictions + 1
    /\ Store(i, [pods[i] EXCEPT !.terminating = TRUE])
    /\ UNCHANGED <<request, stage, todo, copy, statuses, sent, hit, trouble>>

Fresh(p) ==
    [p EXCEPT !.terminating = FALSE, !.ready = TRUE, !.gen = @ + 1, !.rv = 0,
              !.images = [k \in DOMAIN @ |-> 0], !.notes = [k \in DOMAIN @ |-> -1],
              !.containers = [k \in DOMAIN @ |-> [@[k] EXCEPT !.running = p.containers[k].id # Blank]]]

\* A pod goes; under a stable name another takes its place.
Gone(i) ==
    /\ pods[i].terminating
    /\ pods' = IF pods[i].name \in Stable THEN [pods EXCEPT ![i] = Fresh(pods[i])]
               ELSE SubSeq(pods, 1, i - 1) \o SubSeq(pods, i + 1, Len(pods))
    /\ UNCHANGED <<request, stage, todo, copy, statuses, sent, hit, evictions, trouble>>

-----------------------------------------------------------------------------
Experiment(e) == \/ Create(e) \/ FailGet(e) \/ FailUpdate(e) \/ DeletePod(e)
                 \/ OtherExec(e) \/ CreateReturns(e)
                 \/ Destroy(e) \/ DestroyGet(e) \/ DestroyDelete(e) \/ DestroyReturns(e)

Environment == \E i \in DOMAIN pods : Kubelet(i) \/ Evict(i) \/ Gone(i)

Next == Environment \/ \E e \in Exps : Experiment(e)

Spec == Init /\ [][Next]_vars

-----------------------------------------------------------------------------
(***************************************************************************)
(* Properties.                                                             *)
(***************************************************************************)

\* However many experiments fail the same pod at the same time, an image is
\* broken at most once and its annotation keeps the image from before.
BrokenOnce ==
    \A i \in DOMAIN pods : \A k \in DOMAIN pods[i].images :
        <<pods[i].images[k], pods[i].notes[k]>> \in {<<0, -1>>, <<1, 0>>}

\* When every experiment is over no pod is left with a broken image, unless the
\* API server has refused a call or lost a reply: pods read at one moment may
\* have been replaced, deleted or broken by another experiment at the next.
NoneLeftBroken ==
    ~trouble /\ (\A e \in Exps : stage[e] \in {"destroyed", "panicked"})
        => \A i \in DOMAIN pods : Broken(pods[i]) => pods[i].terminating

\* The destroy of a fail experiment deletes no pod other than those that the
\* experiment has failed, or what has since taken their place: targets it
\* reported as unsuccessful, and pods of other experiments, are spared.
DestroySparesOthers ==
    [][\A e \in Exps, i \in DOMAIN pods :
          /\ DestroyDelete(e)
          /\ pods'[i].terminating /\ ~pods[i].terminating
          => \E h \in hit[e] : h.ns = pods[i].ns /\ h.name = pods[i].name /\ h.gen <= pods[i].gen]_vars

\* What a Destroy works on is what the Create was handed: every successful
\* resource is found again from its identifier, and nothing else is.
Target(e, m) == IF request[e].action = "delete"
                THEN [m EXCEPT !.cname = Blank, !.cid = Blank, !.runtime = Blank] ELSE m

DestroyFindsTargets ==
    [][\A e \in Exps : stage[e] = "created" /\ stage'[e] = "destroying"
          => LET good == {i \in DOMAIN statuses[e] : statuses[e][i].ok}
             IN  ToSet(todo'[e]) = {Target(e, sent[e][i]) : i \in good}]_vars

Usable(p) == \E k \in DOMAIN p.containers : p.containers[k].running

\* The pods an experiment of scope pod may choose from, by group: their places
\* in the list of those that meet the flags.
Candidates(flags, g) ==
    LET list == podResources(pods, flags).list
    IN  {k \in DOMAIN list :
            \/ flags.group = <<>>
            \/ g = IF flags.group[1] \in DOMAIN list[k].labels
                   THEN list[k].labels[flags.group[1]] ELSE Blank}

LabelValues == {Blank} \cup UNION {{pods[i].labels[k] : k \in DOMAIN pods[i].labels} : i \in DOMAIN pods}

\* What creation e sends for, against the limits of the flags it read.
LimitsKept(e, flags) ==
    LET list  == podResources(pods, flags).list
        within(m, n) == /\ flags.count.given = "int" => m <= flags.count.val
                        /\ flags.percent.given = "int"
                             => 200 * m <= 2 * flags.percent.val * n + 100
        full(m, n) == \/ m = n
                      \/ flags.count.given = "int" /\ m = flags.count.val
                      \/ /\ flags.percent.given = "int"
                         /\ 200 * m >= 2 * flags.percent.val * n - 100
        taken(cand) == {k \in DOMAIN sent'[e] : \E i \in cand :
                          list[i].name = sent'[e][k].pod /\ list[i].ns = sent'[e][k].ns}
    IN  \A g \in IF flags.group = <<>> THEN {Blank} ELSE LabelValues :
          LET cand == Candidates(flags, g)
              n    == Cardinality(cand)
              got  == Cardinality(taken(cand))
          IN  /\ within(got, n)
              /\ (\A i \in cand : Usable(list[i])) => full(got, n)

\* evict-count and evict-percent limit the pods of an experiment, of each group
\* when there is an evict-group, by the pods that were found and not by how they
\* were chosen; and of pods that can all be used no fewer are taken than the
\* limits allow: all of them, the count, or the percentage rounded to a nearest
\* number - to either, of two that are as near.
EvictLimits ==
    [][\A e \in Exps : stage[e] = "new" /\ stage'[e] = "creating" /\ request[e].scope = "pod" =>
         \A flags \in Readings(request[e].flags) :
            CreateFrom(e, flags) /\ Len(flags.group) <= 1 => LimitsKept(e, flags)]_vars

\* A creation acts only on what was asked for: in the namespace, by name (and
\* then one of the labels) or else by all labels and not being deleted; in a
\* running container, in scope container one that was asked for, and then on
\* every other one that was asked for in the same pod.
OnlyWhatWasAsked ==
    [][\A e \in Exps : stage[e] = "new" /\ stage'[e] = "creating" /\ request[e].scope # "node"
          => LET flags == request[e].flags
                 needs == ParseLabels(flags.labels)
                 asked(c) == IF flags.ids # <<>> THEN c.id \in ToSet(flags.ids)
                             ELSE IF flags.cnames # <<>> THEN c.name \in ToSet(flags.cnames)
                             ELSE TRUE
                 hits(p, c) == Meta(p, c) \in ToSet(sent'[e])
             IN  \A m \in ToSet(sent'[e]) : \E i \in At(m) :
                   LET p == pods[i]
                   IN  /\ p.ns = Namespace(flags)
                       /\ \/ /\ p.name \in ToSet(flags.names)
                             /\ DOMAIN needs = {} \/ MapContains(p.labels, needs)
                          \/ flags.names = <<>> /\ ~p.terminating /\ Selects(needs, p.labels)
                       /\ \E k \in DOMAIN p.containers :
                            /\ p.containers[k].running /\ m = Meta(p, p.containers[k])
                       /\ request[e].scope = "container" =>
                            \A k \in DOMAIN p.containers :
                              LET c == p.containers[k]
                              IN  IF flags.ids = <<>> /\ flags.cnames = <<>>
                                  THEN hits(p, c) => k = flags.index.val + 1
                                  ELSE hits(p, c) <=> asked(c)]_vars

=============================================================================
