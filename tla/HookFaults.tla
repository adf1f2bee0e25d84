----------------------------- MODULE HookFaults -----------------------------
(***************************************************************************)
(* I/O faults of one pod, from its admission on: the webhook gives it a    *)
(* sidecar with a fuse file system; the pod-io action of the operator asks *)
(* the hook server in the sidecar to inject and to recover faults; the     *)
(* hooks of the mounted file system look the faults up on every operation. *)
(*                                                                         *)
(* Sources: exec/pod/fsexp.go, pkg/hookfs/client.go, server.go, types.go,  *)
(* hook.go.  Requests are served concurrently: a handler goes through its  *)
(* list of methods one entry of the sync.Map at a time.                    *)
(***************************************************************************)
EXTENDS PodMutator, Functions

CONSTANTS
    Submissions,        \* pods handed to the API server
    Exps,               \* pod-io experiments that select this pod
    NoExp,              \* no experiment
    Methods,            \* methods the file system has a hook for
    defaultHookPoints,  \* sequence of methods RecoverHandler goes through
    Wanted,             \* Wanted[e]: sequence of methods of e's inject message
    Affected,           \* Affected[e]: the paths under the path of e's message
    Paths               \* paths of file operations

ASSUME ExpsAssumption    == NoExp \notin Exps
ASSUME MethodsAssumption == /\ Methods # {}
                            /\ defaultHookPoints \in Seq(Methods)
                            /\ Wanted \in [Exps -> Seq(Methods)]
ASSUME SubmissionsAssumption ==
    \A p \in Submissions : p \in PodRecord /\ p.containers # <<>> /\ ~HasSidecar(p)
ASSUME PathsAssumption   == Affected \in [Exps -> SUBSET Paths]

Stages == {"new", "refused", "injecting", "running", "failed",
           "passed over", "revoking", "revoked", "abandoned"}

\* A handler at work in the server, with the methods it has still to visit.
Handler == [exp : Exps, kind : {"inject", "recover"}, todo : Seq(Methods)]

VARIABLES
    submitted,         \* the pod as it was handed in
    pod,               \* the pod as the API server has it
    life,              \* "submitted", "rejected", "starting" or "ready"
    injectFaultCache,  \* injectFaultCache[m]: whose message is stored for m
    handlers,          \* requests being served
    stage,             \* what the operator has made of each experiment
    lost,              \* history: started experiments a restart has hit
    op                 \* an operation in a hook of the file system, as below

podVars == <<submitted, pod, life>>
vars    == <<podVars, injectFaultCache, handlers, stage, lost, op>>

\* An operation is about to look for a fault, or has looked and is on its way
\* back, after the delay of the fault of exp when it has met one.  before is
\* history: the experiments whose recovery was answered when it began.
Operation == [at : {"begun", "looked"}, method : Methods, exp : Exps \cup {NoExp},
              before : SUBSET Exps]

NoOperation == [at |-> "none"]

Pods == Submissions \cup {mutatePodsFn(p) : p \in Submissions}

TypeOK ==
    /\ submitted \in Submissions
    /\ pod \in Pods
    /\ life \in {"submitted", "rejected", "starting", "ready"}
    /\ injectFaultCache \in [Methods -> Exps \cup {NoExp}]
    /\ handlers \in SUBSET Handler
    /\ stage \in [Exps -> Stages]
    /\ lost \in SUBSET Exps
    /\ op \in Operation \cup {NoOperation}

Init ==
    /\ submitted \in Submissions
    /\ pod = submitted
    /\ life = "submitted"
    /\ injectFaultCache = [m \in Methods |-> NoExp]
    /\ handlers = {}
    /\ stage = [e \in Exps |-> "new"]
    /\ lost = {}
    /\ op = NoOperation

-----------------------------------------------------------------------------
\* Mutator.Handle, at the creation of the pod; the API server may call a
\* mutating webhook a second time.
Handle ==
    /\ life = "submitted"
    /\ pod' = mutatePodsFn(pod)
    /\ life' \in IF pod' = Rejected THEN {"rejected"} ELSE {"submitted", "starting"}
    /\ UNCHANGED <<submitted, injectFaultCache, handlers, stage, lost, op>>

\* The webhook is not enabled, which is the default.
Bypass ==
    /\ life = "submitted" /\ pod = submitted
    /\ life' = "starting"
    /\ UNCHANGED <<submitted, pod, injectFaultCache, handlers, stage, lost, op>>

\* The pod becomes ready and stops being ready - I/O faults may well do that.
Probe ==
    /\ life \in {"starting", "ready"}
    /\ life' \in {"starting", "ready"} \ {life}
    /\ UNCHANGED <<submitted, pod, injectFaultCache, handlers, stage, lost, op>>

\* The sidecar is started anew: its faults, requests and operations are gone.
SidecarRestart ==
    /\ HasSidecar(pod) /\ life \in {"starting", "ready"}
    /\ injectFaultCache' = [m \in Methods |-> NoExp]
    /\ handlers' = {}
    /\ lost' = lost \cup {e \in Exps : stage[e] \in {"injecting", "running"}}
    /\ op' = NoOperation
    /\ UNCHANGED <<podVars, stage>>

\* Mutant: the reply is not waited for.
InjectUnawaited(e) ==
    /\ stage[e] = "new"
    /\ life = "ready" /\ HasPort(pod)
    /\ stage' = [stage EXCEPT ![e] = "running"]
    /\ handlers' = handlers \cup {[exp |-> e, kind |-> "inject", todo |-> Wanted[e]]}
    /\ UNCHANGED <<podVars, injectFaultCache, lost, op>>

\* PodIOActionExecutor.create: without a ready pod and the port of the sidecar,
\* with a flag that is no integer, or when the pod cannot be read, the resource
\* has failed before anything is sent.
InjectFault(e) ==
    /\ stage[e] = "new"
    /\ \/ /\ life = "ready" /\ HasPort(pod)
          /\ stage' = [stage EXCEPT ![e] = "injecting"]
          /\ handlers' = handlers \cup {[exp |-> e, kind |-> "inject", todo |-> Wanted[e]]}
       \/ /\ stage' = [stage EXCEPT ![e] = "refused"]
          /\ UNCHANGED handlers
    /\ UNCHANGED <<podVars, injectFaultCache, lost, op>>

\* PodIOActionExecutor.destroy asks for the recovery; only resources whose
\* creation was reported successful are destroyed.  A pod that is not ready, or
\* cannot be read, is passed over without a word.
Revoke(e) ==
    /\ stage[e] = "running"
    /\ \/ /\ life = "ready"
          /\ stage' = [stage EXCEPT ![e] = "revoking"]
          /\ handlers' = handlers \cup {[exp |-> e, kind |-> "recover", todo |-> defaultHookPoints]}
       \/ /\ stage' = [stage EXCEPT ![e] = "passed over"]
          /\ UNCHANGED handlers
    /\ UNCHANGED <<podVars, injectFaultCache, lost, op>>

\* Mutant: a recovery leaves the last entry of the list alone.
HandlerStepShort(h) ==
    /\ h.todo # <<>>
    /\ injectFaultCache' =
          IF h.kind = "recover" /\ Tail(h.todo) = <<>> THEN injectFaultCache
          ELSE [injectFaultCache EXCEPT
                  ![Head(h.todo)] = IF h.kind = "inject" THEN h.exp ELSE NoExp]
    /\ handlers' = (handlers \ {h}) \cup {[h EXCEPT !.todo = Tail(@)]}
    /\ UNCHANGED <<podVars, stage, lost, op>>

\* One turn of the loop of InjectHandler or RecoverHandler.
HandlerStep(h) ==
    /\ h.todo # <<>>
    /\ injectFaultCache' = [injectFaultCache EXCEPT
                              ![Head(h.todo)] = IF h.kind = "inject" THEN h.exp ELSE NoExp]
    /\ handlers' = (handlers \ {h}) \cup {[h EXCEPT !.todo = Tail(@)]}
    /\ UNCHANGED <<podVars, stage, lost, op>>

\* Mutant: the reply is sent before the loop is over.
ReplyEarly(h) ==
    /\ stage' = [stage EXCEPT ![h.exp] =
                   IF @ = "injecting" THEN "running"
                   ELSE IF @ = "revoking" THEN "revoked" ELSE @]
    /\ UNCHANGED <<podVars, injectFaultCache, handlers, lost, op>>

\* Mutant: a stage the operator does not know.
ReplyTypo(h) ==
    /\ h.todo = <<>>
    /\ handlers' = handlers \ {h}
    /\ stage' = [stage EXCEPT ![h.exp] = "recovered"]
    /\ UNCHANGED <<podVars, injectFaultCache, lost, op>>

\* The handler replies; the client may have stopped waiting.
Reply(h) ==
    /\ h.todo = <<>>
    /\ handlers' = handlers \ {h}
    /\ stage' = [stage EXCEPT ![h.exp] =
                   IF @ = "injecting" THEN "running"
                   ELSE IF @ = "revoking" THEN "revoked" ELSE @]
    /\ UNCHANGED <<podVars, injectFaultCache, lost, op>>

\* The request fails or its reply does not come in time; it may or may not
\* have reached the server.  A failed creation is recorded as such and is never
\* destroyed; a failed recovery is logged and the experiment is reported
\* destroyed all the same.
ClientGivesUp(e) ==
    /\ stage[e] \in {"injecting", "revoking"}
    /\ stage' = [stage EXCEPT ![e] = IF @ = "injecting" THEN "failed" ELSE "abandoned"]
    /\ \/ UNCHANGED handlers
       \/ handlers' = {h \in handlers : h.exp # e}
    /\ UNCHANGED <<podVars, injectFaultCache, lost, op>>

\* An operation of the file system reaches the Pre hook of its method.
PreHook(m) ==
    /\ HasSidecar(pod) /\ life \in {"starting", "ready"} /\ op = NoOperation
    /\ op' = [at |-> "begun", method |-> m, exp |-> NoExp,
              before |-> {e \in Exps : stage[e] = "revoked"}]
    /\ UNCHANGED <<podVars, injectFaultCache, handlers, stage, lost>>

\* doInjectFault: the entry of the method is loaded once.  The fault is met when
\* the path p fits its prefix and the percentage hits; the hooks with two names
\* ask for both.
doInjectFault(p) ==
    /\ op.at = "begun"
    /\ LET e == injectFaultCache[op.method]
       IN  op' \in {[op EXCEPT !.at = "looked"]} \cup
                   (IF e # NoExp /\ p \in Affected[e]
                    THEN {[op EXCEPT !.at = "looked", !.exp = e]} ELSE {})
    /\ UNCHANGED <<podVars, injectFaultCache, handlers, stage, lost>>

\* The delay of the fault is over, and its error is the result of the operation
\* (the hook of release drops it); without a fault the file is asked.
HookReturns ==
    /\ op.at = "looked"
    /\ op' = NoOperation
    /\ UNCHANGED <<podVars, injectFaultCache, handlers, stage, lost>>

Next ==
    \/ Handle \/ Bypass \/ Probe \/ SidecarRestart
    \/ \E e \in Exps : InjectFault(e) \/ Revoke(e) \/ ClientGivesUp(e)
    \/ \E h \in handlers : HandlerStep(h) \/ Reply(h)
    \/ \E m \in Methods : PreHook(m)
    \/ \E p \in Paths : doInjectFault(p)
    \/ HookReturns

Spec == Init /\ [][Next]_vars

-----------------------------------------------------------------------------
Listed == Range(defaultHookPoints)

\* "recover all fault": once the server has answered an experiment's recovery
\* no method the server knows of is left under that experiment's fault, whatever
\* other requests are being served.  (It does not know of open and chmod, which
\* have a hook: a fault on them stays.)
RecoversAll ==
    \A e \in Exps : stage[e] = "revoked" => \A m \in Listed : injectFaultCache[m] # e

\* An operation on a listed method that has begun after the recovery of an
\* experiment was answered does not meet its fault; one that had begun before may
\* return it at any later time, since the delay comes after the lookup.  And it
\* meets only what that method was given.
NoFaultAfterRecovery ==
    op # NoOperation /\ op.exp # NoExp =>
        /\ op.method \in Range(Wanted[op.exp])
        /\ op.method \in Listed => op.exp \notin op.before

\* What can have taken the fault of e from the method m: another experiment's
\* inject message for it, or another experiment's recovery, which does not ask
\* whose fault an entry is.
Taken(e, m) ==
    LET f == injectFaultCache[m]
    IN  \/ /\ f \in Exps \ {e} /\ m \in Range(Wanted[f])
           /\ stage[f] \notin {"new", "refused"}
        \/ /\ m \in Listed
           /\ \E d \in Exps \ {e} : stage[d] \in {"revoking", "revoked", "abandoned"}

\* The faults of an experiment that is reported as running are in effect, on
\* every method it asked for, unless a restart of the sidecar or another
\* experiment on the pod has taken them: neither the order in which concurrent
\* requests go through the map nor replies and requests that are lost do.
RunningIsInEffect ==
    \A e \in Exps : stage[e] = "running" /\ e \notin lost =>
        \A m \in Range(Wanted[e]) : injectFaultCache[m] = e \/ Taken(e, m)

\* However often the webhook is called, the pod has its first container as it
\* was handed in, and a sidecar only together with it: one, on a volume that
\* the first container mounts so that it sees what the sidecar mounts there.
SidecarJoinsApp ==
    life # "rejected" =>
        LET app      == submitted.containers[1]
            sidecars == {k \in DOMAIN pod.containers : pod.containers[k].name = SidecarName}
        IN  /\ app \in Range(pod.containers)
            /\ \A k, j \in sidecars : k = j
            /\ \A k \in sidecars : \E m \in Range(app.mounts) :
                 /\ Propagates(m)
                 /\ m.volume \in {n.volume : n \in Range(pod.containers[k].mounts)}

=============================================================================
