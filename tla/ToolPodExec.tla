---------------------------- MODULE ToolPodExec -----------------------------
(***************************************************************************)
(* A whole call of CommonExecutor.Exec or ExecCommandInPodExecutor.Exec    *)
(* for one experiment: the identifiers are made one after the other, with  *)
(* the name of the tool's daemonset pod on the node of each resource, then *)
(* their commands are run in parallel (ParallelExec), and after a create   *)
(* with a timeout a goroutine watches for the end of the experiment.  The  *)
(* names of the daemonset pods are kept in a global map that every call in *)
(* progress replaces without a lock.                                       *)
(*                                                                         *)
(* Sources: exec/model/executor.go, executor_nsexec.go, executor_copy.go.  *)
(***************************************************************************)
EXTENDS ParallelExec

CONSTANTS
    Nodes,          \* nodes of the cluster
    NodeOf,         \* NodeOf[r]: the node of resource r
    ExpModels,      \* the experiments Exec may be called for
    MaxGenerations  \* bound on the daemonset pods a node has had

ASSUME NodesAssumption == NodeOf \in [Items -> Nodes]
ASSUME ModelsAssumption ==
    ExpModels \subseteq [executor : {"common", "inPod"}, scope : {"node", "pod", "container"},
                        target : STRING, sandbox : BOOLEAN, containerd : BOOLEAN]
ASSUME GenerationsAssumption == MaxGenerations \in Nat \ {0}

\* How the identifiers are made: on "node"s and for containers by way of "cri"
\* (or of docker, which is the same but for the "network" destroy, by a new
\* container id) through the tool's daemonset pod, or in the container itself,
\* where the tool is copied.  sandbox: the docker or sidecar network flag is set.
KindOf(m, destroying) ==
    CASE m.scope = "node"                           -> "node"
      [] m.scope # "node" /\ m.executor = "common"  -> "cri"
      [] m.scope # "node" /\ m.executor = "inPod"   ->
           IF m.target = "container" \/ (m.target = "network" /\ m.sandbox)
           THEN IF destroying /\ m.target = "network" /\ ~m.containerd THEN "network" ELSE "cri"
           ELSE "copy"

\* The daemonset pods a node has had are told apart by number; 0 is no name.
Names == [Nodes -> 0 .. MaxGenerations]

Nameless == [n \in Nodes |-> 0]

Identifier == [resource : Items, tool : 0 .. MaxGenerations, broken : BOOLEAN]

VARIABLES
    kind,         \* how the identifiers are made
    destroy,      \* is this call a destroy?
    total,        \* number of resources selected, 1 .. total
    up,           \* up[n]: is there a daemonset pod on n? (external)
    generation,   \* generation[n]: the last one there has been (external)
    names,        \* the global map DaemonsetPodNames
    others,       \* lists that another call is about to store in it
    step,         \* where the making of the identifiers is
    next,         \* the next resource
    listed,       \* the list of this call's own refresh
    identifiers,  \* the identifiers made so far
    expired,      \* resources whose fault has reached its timeout
    watcher       \* checkExperimentStatus: "none", "ticking", "destroyed", "over"

daemonset == <<up, generation>>
call      == <<kind, destroy, total>>
own       == <<step, next, listed, identifiers>>
after     == <<expired, watcher>>

vars == <<pool, call, daemonset, names, others, own, after>>

TypeOK ==
    /\ PoolTypeOK
    /\ kind \in {"node", "cri", "network", "copy"}
    /\ destroy \in BOOLEAN
    /\ total \in 0 .. Count
    /\ up \in [Nodes -> BOOLEAN]
    /\ generation \in Names
    /\ names \in Names
    /\ others \subseteq Names
    /\ step \in {"lookup", "list", "assign", "result", "made", "refused"}
    /\ next \in 1 .. Count + 1
    /\ listed \in Names
    /\ identifiers \in Seq(Identifier)
    /\ expired \subseteq Items
    /\ watcher \in {"none", "ticking", "destroyed", "over"}

Init ==
    /\ PoolInit
    /\ destroy \in BOOLEAN
    /\ kind \in {KindOf(m, destroy) : m \in ExpModels}
    /\ total \in 0 .. Count
    /\ up = [n \in Nodes |-> TRUE]
    /\ generation = [n \in Nodes |-> 1]
    /\ names = Nameless
    /\ others = {}
    /\ step = "lookup"
    /\ next = 1
    /\ listed = Nameless
    /\ identifiers = <<>>
    /\ expired = {}
    /\ watcher = "none"

Exists(n, g) == g # 0 /\ up[n] /\ generation[n] = g

-----------------------------------------------------------------------------
(***************************************************************************)
(* The making of the identifiers.                                          *)
(***************************************************************************)

Node == NodeOf[next]

AddIdentifier(g, broken) ==
    /\ identifiers' = Append(identifiers, [resource |-> next, tool |-> g, broken |-> broken])
    /\ next' = next + 1

\* Mutant: a resource on a node without a name is left out.
UseNamed(g) ==
    /\ \/ g # 0 /\ AddIdentifier(g, FALSE)
       \/ (kind = "network" \/ g = 0)
          /\ next' = next + 1 /\ UNCHANGED identifiers
    /\ step' = "lookup"

\* The name of the tool's pod is known.  Docker's destroy of a network fault
\* goes on to the next resource when it cannot find the new container id.
Use(g) ==
    /\ \/ AddIdentifier(g, FALSE)
       \/ kind = "network" /\ next' = next + 1 /\ UNCHANGED identifiers
    /\ step' = "lookup"

\* Copy mode: deployChaosBlade, whose failure is kept in the identifier.
Deployed ==
    /\ kind = "copy" /\ next <= total
    /\ \E broken \in BOOLEAN : AddIdentifier(0, broken)
    /\ UNCHANGED <<pool, call, daemonset, names, others, step, listed, after>>

\* GetChaosBladeDaemonsetPodName: the name in the map, when its pod is there;
\* any failure of the Get is taken for its absence.  Before it asks, a destroy
\* of a network fault refuses a container runtime it does not know.
Lookup ==
    /\ kind # "copy" /\ next <= total /\ step = "lookup"
    /\ \/ Exists(Node, names[Node]) /\ Use(names[Node])
       \/ kind = "cri" /\ destroy /\ step' = "refused" /\ UNCHANGED <<identifiers, next>>
       \/ step' = "list" /\ UNCHANGED <<identifiers, next>>
    /\ UNCHANGED <<pool, call, daemonset, names, others, listed, after>>

\* refreshChaosBladeDaemonsetPodNames: the list; its failure is that of the call.
List ==
    /\ step = "list"
    /\ \/ listed' = [n \in Nodes |-> IF up[n] THEN generation[n] ELSE 0] /\ step' = "assign"
       \/ step' = "refused" /\ UNCHANGED listed
    /\ UNCHANGED <<pool, call, daemonset, names, others, next, identifiers, after>>

\* The whole map is replaced.
Assign ==
    /\ step = "assign"
    /\ names' = listed
    /\ listed' = Nameless
    /\ step' = "result"
    /\ UNCHANGED <<pool, call, daemonset, others, next, identifiers, after>>

\* What is returned is read from the map again, and used as it is.
Result ==
    /\ step = "result"
    /\ Use(names[Node])
    /\ UNCHANGED <<pool, call, daemonset, names, others, listed, after>>

\* Another call of Exec lists the daemonset pods, and later replaces the map.
OtherLists ==
    /\ step \in {"lookup", "list", "assign", "result"} /\ kind # "copy" /\ others = {}
    /\ others' = {[n \in Nodes |-> IF up[n] THEN generation[n] ELSE 0]}
    /\ UNCHANGED <<pool, call, daemonset, names, own, after>>

OtherAssigns ==
    /\ names' \in others
    /\ others' = {}
    /\ UNCHANGED <<pool, call, daemonset, own, after>>

\* The identifiers are complete; the map is not read any more.
Made ==
    /\ step = "lookup" /\ next > total
    /\ ParallelizeExec(Len(identifiers))
    /\ step' = "made"
    /\ names' = Nameless
    /\ others' = {}
    /\ UNCHANGED <<call, daemonset, next, listed, identifiers, after>>

\* An error in the making: the call fails and returns no resource statuses.
Refuse ==
    /\ step = "refused" /\ ~returned
    /\ returned' = TRUE
    /\ UNCHANGED <<toExec, pc, item, execOk, seen, lock, missing, success, statuses, ran>>
    /\ UNCHANGED <<call, daemonset, names, others, own, after>>

-----------------------------------------------------------------------------
(***************************************************************************)
(* The commands, and what follows.                                         *)
(***************************************************************************)

NodeOfId(i) == NodeOf[identifiers[i].resource]

\* execCommands sends the command to the tool's pod; to the resource's own pod
\* when the identifier has no name of a tool's pod (a node has none).
Reachable(i) ==
    IF identifiers[i].tool = 0 THEN kind # "node" ELSE Exists(NodeOfId(i), identifiers[i].tool)

Goroutine(w) ==
    /\ \/ Take(w) \/ Lock(w) \/ Update(w)
       \/ Check(w, {i \in DOMAIN identifiers : identifiers[i].broken}, kind = "node")
       \/ item[w] # 0 /\ Run(w, Reachable(item[w]))
    /\ UNCHANGED <<call, daemonset, names, others, own, after>>

\* Exec returns; a create with a timeout leaves a goroutine behind.
ExecReturns ==
    /\ step = "made"
    /\ Return
    /\ watcher' \in IF destroy \/ statuses = <<>> THEN {"none"} ELSE {"none", "ticking"}
    /\ UNCHANGED <<call, daemonset, names, others, own, expired>>

\* The tool ends a fault at its timeout; it is of interest to the watcher only.
Expire(i) ==
    /\ watcher = "ticking"
    /\ [item |-> i, ok |-> TRUE] \in ran
    /\ expired' = expired \cup {i}
    /\ UNCHANGED <<pool, call, daemonset, names, others, own, watcher>>

\* Where the command of the i-th identifier is run: in the tool's pod it names,
\* or in the resource itself.
Place(i) ==
    LET tool == identifiers[i].tool
    IN  [node |-> NodeOfId(i), tool |-> tool,
         resource |-> IF tool = 0 THEN identifiers[i].resource ELSE 0]

\* The k-th status is asked for where the k-th identifier points, which need not
\* be its own one; without the name of a tool's pod, in the pod of the status.
AskedAt(k) == IF identifiers[k].tool = 0 THEN Place(statuses[k].item) ELSE Place(k)

\* What the tool at a place has on record of an experiment: it knows of those
\* that were created there, and nothing of any other.
OnRecord(place, i) ==
    IF place # Place(i) \/ [item |-> i, ok |-> TRUE] \notin ran THEN "unknown"
    ELSE IF i \in expired THEN "Destroyed" ELSE "Success"

\* The answer to the query of the k-th status.
Answer(k) ==
    LET place == AskedAt(k)
    IN  IF (place.tool = 0 /\ kind # "node") \/ Exists(place.node, place.tool)
        THEN OnRecord(place, statuses[k].item) ELSE "error"

\* Mutant: at the first unsuccessful status the round is over.
ConcludesEarly ==
    /\ watcher = "ticking"
    /\ \A k \in DOMAIN statuses :
          (\A j \in 1 .. k : statuses[j].ok) => Answer(k) = "Destroyed"
    /\ watcher' = "destroyed"
    /\ UNCHANGED <<pool, call, daemonset, names, others, own, expired>>

\* A tick: every successful status is asked for.
Concludes ==
    /\ watcher = "ticking"
    /\ \A k \in DOMAIN statuses : statuses[k].ok => Answer(k) = "Destroyed"
    /\ watcher' = "destroyed"
    /\ UNCHANGED <<pool, call, daemonset, names, others, own, expired>>

\* After 30 seconds the watch is given up.
GivesUp ==
    /\ watcher = "ticking"
    /\ watcher' = "over"
    /\ UNCHANGED <<pool, call, daemonset, names, others, own, expired>>

\* The daemonset pod of a node goes, and another comes: one node at a time, and
\* none once a node has had MaxGenerations pods (a bound).
ToolPodGoes(n) ==
    /\ \A m \in Nodes : up[m] /\ generation[m] < MaxGenerations
    /\ up' = [up EXCEPT ![n] = FALSE]
    /\ UNCHANGED <<pool, call, generation, names, others, own, after>>

ToolPodComes(n) ==
    /\ ~up[n]
    /\ up' = [up EXCEPT ![n] = TRUE]
    /\ generation' = [generation EXCEPT ![n] = @ + 1]
    /\ UNCHANGED <<pool, call, names, others, own, after>>

Make == Deployed \/ Lookup \/ List \/ Assign \/ Result \/ Made \/ Refuse

Next ==
    \/ Make \/ OtherLists \/ OtherAssigns
    \/ \E w \in Workers : Goroutine(w)
    \/ ExecReturns
    \/ \E i \in Items : Expire(i)
    \/ Concludes \/ GivesUp
    \/ \E n \in Nodes : ToolPodGoes(n) \/ ToolPodComes(n)

Spec == Init /\ [][Next]_vars

\* The goroutines are scheduled, requests and commands have timeouts of their own.
Fairness == WF_vars(Make) /\ WF_vars(ExecReturns) /\ \A w \in Workers : WF_vars(Goroutine(w))

FairSpec == Spec /\ Fairness

-----------------------------------------------------------------------------
Done == returned /\ step = "made"

\* When Exec returns every identifier has exactly one status, and the status
\* of an identifier whose command was run is the result of that command.
OneStatusEach ==
    Done => /\ Len(statuses) = Len(identifiers)
            /\ \A i \in DOMAIN identifiers :
                 Cardinality({k \in DOMAIN statuses : statuses[k].item = i}) = 1
            /\ \A r \in ran : \E k \in DOMAIN statuses : statuses[k] = r

\* "If false occurs once, the result is fails": the experiment is reported
\* successful exactly when every one of its resources is - but when a pod was
\* found missing a failure recorded before may have been forgotten.
AnyFailureFails ==
    Done => \/ success = \A k \in DOMAIN statuses : statuses[k].ok
            \/ success /\ missing # {}

\* An experiment reported successful has had its command run with success on
\* every resource selected, whatever became of the tool's pods and their names
\* meanwhile; a missing pod and docker's network destroy are the exceptions.
SuccessCoversAll ==
    Done /\ success /\ missing = {} /\ kind # "network"
        => \A r \in 1 .. total :
             \E i \in DOMAIN identifiers : /\ identifiers[i].resource = r
                                           /\ [item |-> i, ok |-> TRUE] \in ran

\* No command is started for an identifier that was already taken, by the same
\* goroutine or by another.
NoSecondRun ==
    [][\A r \in ran : \A s \in ran' \ ran : s.item # r.item]_vars

\* When the watcher takes the experiment for destroyed, no fault that a command
\* has injected is in effect any more: the statuses it goes by are those the
\* goroutines collected in a shared slice, and it asks for them in the pods of
\* identifiers that are in another order and may have been replaced.
WatcherMissesNone ==
    watcher = "destroyed" => \A r \in ran : r.ok => r.item \in expired

\* Exec returns.
Returns == <>returned

=============================================================================
