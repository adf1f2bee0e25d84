-------------------------- MODULE HookFaultsProofs --------------------------
(***************************************************************************)
(* Theorems about HookFaults, for any pods, experiments, lists of methods  *)
(* and paths, and any number of calls of the webhook.                      *)
(***************************************************************************)
EXTENDS HookFaults, SequenceTheorems, FiniteSetTheorems, WellFoundedInduction, TLAPS

\* A sequence that is not empty has a first element.
LEMMA FirstOf == ASSUME NEW S, NEW s \in Seq(S), s # <<>> PROVE s[1] \in S
OBVIOUS

\* The mounts of the first container are mounts.
LEMMA FirstMounts ==
    ASSUME NEW p \in PodRecord, p.containers # <<>>
    PROVE  Mounts(p) \in Seq([volume : STRING, propagation : STRING])
<1> DEFINE C == [name : STRING, port : BOOLEAN,
                 mounts : Seq([volume : STRING, propagation : STRING])]
<1>1. p.containers \in Seq(C)
  BY DEF PodRecord
<1>2. p.containers[1] \in C
  <2> HIDE DEF C
  <2> QED BY <1>1, FirstOf
<1> QED BY <1>2 DEF Mounts

\* Of the mounts of the annotated volume there is a last one: the mount that the
\* loop of mutatePodsFn ends with.
LEMMA LastTarget ==
    ASSUME NEW p \in PodRecord, p.containers # <<>>, Targets(p) # {}
    PROVE  \E k \in Targets(p) : \A j \in Targets(p) : j <= k
<1> DEFINE n    == Len(Mounts(p))
           from(k) == {j \in Targets(p) : k <= j}
           T    == {from(k) : k \in Targets(p)}
<1>1. n \in Nat /\ Targets(p) \subseteq 1 .. n
  <2>1. Mounts(p) \in Seq([volume : STRING, propagation : STRING])
    BY FirstMounts
  <2> QED BY <2>1 DEF Targets
<1>2. IsFiniteSet(1 .. n)
  BY <1>1, FS_Interval
<1>3. IsWellFoundedOn(StrictSubsetOrdering(1 .. n), SUBSET (1 .. n))
  BY <1>2, FS_FiniteSubsetsOfFinite, FS_StrictSubsetOrderingWellFounded
<1>4. T \subseteq SUBSET (1 .. n) /\ T # {}
  BY <1>1
<1>5. PICK x \in T : \A y \in T : ~(<<y, x>> \in StrictSubsetOrdering(1 .. n))
  <2> HIDE DEF T, n
  <2> QED BY <1>3, <1>4, WFMin
<1>6. PICK k \in Targets(p) : x = from(k)
  OBVIOUS
<1>7. ASSUME NEW j \in Targets(p), ~(j <= k) PROVE FALSE
  <2>1. j \in Int /\ k \in Int /\ k < j
    BY <1>1, <1>7
  <2>2. from(j) \subseteq from(k) /\ k \in from(k) /\ k \notin from(j)
    BY <1>1, <2>1
  <2>3. from(j) \in SUBSET (1 .. n) /\ from(k) \in SUBSET (1 .. n) /\ from(j) \in T
    BY <1>1
  <2> HIDE DEF from, T
  <2>4. <<from(j), from(k)>> \in StrictSubsetOrdering(1 .. n)
    BY <2>2, <2>3 DEF StrictSubsetOrdering
  <2> QED BY <1>5, <1>6, <2>3, <2>4
<1> QED BY <1>7

\* So the sidecar's mount is of the annotated volume, which the first container
\* mounts so that it sees what the sidecar mounts there.
LEMMA TargetIsMounted ==
    ASSUME NEW p \in PodRecord, p.containers # <<>>, ~Refuses(p)
    PROVE  \E k \in DOMAIN Mounts(p) :
             /\ Propagates(Mounts(p)[k])
             /\ Target(p).volume = Mounts(p)[k].volume
<1>1. Mounts(p) \in Seq([volume : STRING, propagation : STRING])
  BY FirstMounts
<1> DEFINE last == CHOOSE k \in Targets(p) : \A j \in Targets(p) : j <= k
<1>3. last \in Targets(p)
  BY LastTarget DEF Refuses
<1>4. last \in DOMAIN Mounts(p)
  BY <1>3 DEF Targets
<1>5. Target(p) = [Mounts(p)[last] EXCEPT !.propagation = "Bidirectional"]
  BY DEF Target
<1> HIDE DEF last
<1>6. Mounts(p)[last] \in [volume : STRING, propagation : STRING]
  <2>1. ASSUME NEW S, NEW mounts \in Seq(S), NEW k \in DOMAIN mounts PROVE mounts[k] \in S
    OBVIOUS
  <2> QED BY <1>1, <1>4, <2>1
<1>7. Target(p).volume = Mounts(p)[last].volume
  BY <1>5, <1>6
<1>8. Propagates(Mounts(p)[last])
  BY <1>3 DEF Refuses
<1> QED BY <1>4, <1>7, <1>8

\* The pod with the sidecar.
LEMMA Joined ==
    ASSUME NEW p \in PodRecord
    PROVE  /\ Join(p).containers = <<Container(SidecarName, <<Target(p)>>, TRUE), p.containers[1]>>
           /\ HasSidecar(Join(p))
<1>1. Join(p).containers = <<Container(SidecarName, <<Target(p)>>, TRUE), p.containers[1]>>
  BY DEF PodRecord, Join
<1>2. 1 \in DOMAIN Join(p).containers /\ Join(p).containers[1].name = SidecarName
  BY <1>1 DEF Container
<1> QED BY <1>1, <1>2 DEF HasSidecar

\* The pod as the webhook leaves it is not changed by a second call
\* (mutatePodsFn).
LEMMA MutateTwice ==
    ASSUME NEW p \in PodRecord, ~HasSidecar(p)
    PROVE  mutatePodsFn(mutatePodsFn(p)) = mutatePodsFn(p)
<1>1. CASE ~Asks(p)
  BY <1>1 DEF mutatePodsFn
<1>2. CASE Asks(p) /\ Refuses(p)
  <2>1. mutatePodsFn(p) = Rejected
    BY <1>2 DEF mutatePodsFn
  <2>2. ~Asks(Rejected)
    BY DEF Asks, Rejected
  <2> QED BY <2>1, <2>2 DEF mutatePodsFn
<1>3. CASE Asks(p) /\ ~Refuses(p)
  <2>1. mutatePodsFn(p) = Join(p)
    BY <1>3 DEF mutatePodsFn
  <2> QED BY <2>1, Joined DEF mutatePodsFn
<1> QED BY <1>1, <1>2, <1>3

-----------------------------------------------------------------------------
(***************************************************************************)
(* Type correctness.                                                       *)
(***************************************************************************)

\* The first of the methods a request has still to visit is a method, and those
\* after it together with the first are all of them (HandlerStep).
LEMMA OneTurn ==
    ASSUME NEW todo \in Seq(Methods), todo # <<>>
    PROVE  /\ Head(todo) \in Methods
           /\ Tail(todo) \in Seq(Methods)
           /\ \A k \in DOMAIN todo :
                todo[k] = Head(todo) \/ \E j \in DOMAIN Tail(todo) : Tail(todo)[j] = todo[k]
<1>1. Head(todo) \in Methods /\ Tail(todo) \in Seq(Methods)
  OBVIOUS
<1>2. ASSUME NEW k \in DOMAIN todo, todo[k] # Head(todo)
      PROVE  \E j \in DOMAIN Tail(todo) : Tail(todo)[j] = todo[k]
  <2>1. k \in 1 .. Len(todo) /\ k # 1
    BY <1>2
  <2>2. k - 1 \in DOMAIN Tail(todo) /\ Tail(todo)[k - 1] = todo[k]
    BY <2>1
  <2> QED BY <2>2
<1> QED BY <1>1, <1>2

\* And none but they are those it started with.
LEMMA TurnBack ==
    ASSUME NEW todo \in Seq(Methods), todo # <<>>
    PROVE  /\ Head(todo) = todo[1] /\ 1 \in DOMAIN todo
           /\ \A k \in DOMAIN Tail(todo) : \E j \in DOMAIN todo : Tail(todo)[k] = todo[j]
<1>1. \A k \in DOMAIN Tail(todo) : k + 1 \in DOMAIN todo /\ Tail(todo)[k] = todo[k + 1]
  OBVIOUS
<1> QED BY <1>1

\* The pod is as it was handed in or as the webhook makes it, however often the
\* webhook is called (Mutator.Handle).
LEMMA PodsClosed ==
    ASSUME NEW p \in Pods
    PROVE  mutatePodsFn(p) \in Pods
<1>1. CASE p \in Submissions
  BY <1>1 DEF Pods
<1>2. CASE \E q \in Submissions : p = mutatePodsFn(q)
  <2> PICK q \in Submissions : p = mutatePodsFn(q)
    BY <1>2
  <2>1. q \in PodRecord /\ ~HasSidecar(q)
    BY SubmissionsAssumption
  <2>2. mutatePodsFn(p) = p
    BY <2>1, MutateTwice
  <2> QED BY <2>2
<1> QED BY <1>1, <1>2 DEF Pods

LEMMA TypeStep == TypeOK /\ [Next]_vars => TypeOK'
<1> SUFFICES ASSUME TypeOK, [Next]_vars PROVE TypeOK'
  OBVIOUS
<1> USE ExpsAssumption, MethodsAssumption DEF TypeOK
<1>1. CASE Handle
  BY <1>1, PodsClosed DEF Handle
<1>2. CASE Bypass
  BY <1>2 DEF Bypass
<1>3. CASE Probe
  BY <1>3 DEF Probe
<1>4. CASE SidecarRestart
  BY <1>4 DEF SidecarRestart, podVars
<1>5. ASSUME NEW e \in Exps, InjectFault(e) PROVE TypeOK'
  <2>1. [exp |-> e, kind |-> "inject", todo |-> Wanted[e]] \in Handler
    BY DEF Handler
  <2>2. handlers' \in SUBSET Handler
    BY <1>5, <2>1 DEF InjectFault
  <2>3. stage' \in [Exps -> Stages]
    BY <1>5 DEF InjectFault, Stages
  <2> QED BY <1>5, <2>2, <2>3 DEF InjectFault, podVars
<1>6. ASSUME NEW e \in Exps, Revoke(e) PROVE TypeOK'
  <2>1. [exp |-> e, kind |-> "recover", todo |-> defaultHookPoints] \in Handler
    BY DEF Handler
  <2>2. handlers' \in SUBSET Handler
    BY <1>6, <2>1 DEF Revoke
  <2>3. stage' \in [Exps -> Stages]
    BY <1>6 DEF Revoke, Stages
  <2> QED BY <1>6, <2>2, <2>3 DEF Revoke, podVars
<1>7. ASSUME NEW e \in Exps, ClientGivesUp(e) PROVE TypeOK'
  <2>1. stage' \in [Exps -> Stages]
    BY <1>7 DEF ClientGivesUp, Stages
  <2> QED BY <1>7, <2>1 DEF ClientGivesUp, podVars
<1>8. ASSUME NEW h \in handlers, HandlerStep(h) PROVE TypeOK'
  <2>1. h \in Handler /\ h.exp \in Exps
    BY DEF Handler
  <2>2. Head(h.todo) \in Methods /\ Tail(h.todo) \in Seq(Methods)
    BY <1>8, <2>1, OneTurn DEF HandlerStep, Handler
  <2>3. [h EXCEPT !.todo = Tail(@)] \in Handler
    BY <2>1, <2>2 DEF Handler
  <2>4. injectFaultCache' \in [Methods -> Exps \cup {NoExp}]
    BY <1>8, <2>1, <2>2 DEF HandlerStep
  <2> QED BY <1>8, <2>3, <2>4 DEF HandlerStep, podVars
<1>9. ASSUME NEW h \in handlers, Reply(h) PROVE TypeOK'
  <2>1. stage' \in [Exps -> Stages]
    BY <1>9 DEF Reply, Stages
  <2> QED BY <1>9, <2>1 DEF Reply, podVars
<1>10. ASSUME NEW m \in Methods, PreHook(m) PROVE TypeOK'
  BY <1>10 DEF PreHook, podVars, Operation
<1>11. ASSUME NEW p \in Paths, doInjectFault(p) PROVE TypeOK'
  <2> DEFINE e == injectFaultCache[op.method]
  <2>1. op \in Operation /\ op.method \in Methods
    BY <1>11 DEF doInjectFault, NoOperation, Operation
  <2>2. e \in Exps \cup {NoExp}
    BY <2>1
  <2>3. \/ op' = [op EXCEPT !.at = "looked"]
        \/ op' = [op EXCEPT !.at = "looked", !.exp = e]
    BY <1>11 DEF doInjectFault
  <2> HIDE DEF e
  <2>4. op' \in Operation
    BY <2>1, <2>2, <2>3 DEF Operation
  <2> QED BY <1>11, <2>4 DEF doInjectFault, podVars
<1>12. CASE HookReturns
  BY <1>12 DEF HookReturns, podVars
<1>13. CASE UNCHANGED vars
  BY <1>13 DEF vars, podVars
<1> QED BY <1>1, <1>2, <1>3, <1>4, <1>5, <1>6, <1>7, <1>8, <1>9, <1>10, <1>11, <1>12, <1>13 DEF Next

\* Every state of the pod, its sidecar and the operator is well typed: a request
\* only ever visits methods the file system knows, and a pod the webhook is
\* called for again (Mutator.Handle) is one it has made already.
THEOREM TypeCorrect == Spec => []TypeOK
<1>1. Init => TypeOK
  BY ExpsAssumption, MethodsAssumption DEF Init, TypeOK, Pods, Stages
<1> QED BY <1>1, TypeStep, PTL DEF Spec

-----------------------------------------------------------------------------
(***************************************************************************)
(* Answered recoveries.                                                    *)
(***************************************************************************)

\* Where no answer is awaited, or it has come, no request of e is at the server.
Served(e) == stage[e] \in {"new", "refused", "running", "revoked"} => \A h \in handlers : h.exp # e

\* While the operator waits, the only request of e is the one it waits for.
OneRequest(e, stageOf, kindOf) ==
    stage[e] = stageOf =>
        /\ \A h \in handlers : h.exp = e => h.kind = kindOf
        /\ \A h, g \in handlers : h.exp = e /\ g.exp = e => h = g

\* A fault of e that is still there is one the recovery has yet to visit.
Remaining(e) ==
    stage[e] = "revoking" =>
        \A h \in handlers, m \in Listed :
            h.exp = e /\ injectFaultCache[m] = e => \E k \in DOMAIN h.todo : h.todo[k] = m

Recovered(e) == stage[e] = "revoked" => \A m \in Listed : injectFaultCache[m] # e

Sound(e) == /\ Served(e)
            /\ OneRequest(e, "injecting", "inject")
            /\ OneRequest(e, "revoking", "recover")
            /\ Remaining(e)
            /\ Recovered(e)

\* The inductive invariant behind RecoversAll.
IInv == TypeOK /\ \A e \in Exps : Sound(e)

\* What a step does to other experiments does no harm to d.
LEMMA Untouched ==
    ASSUME NEW d \in Exps, Sound(d), stage'[d] = stage[d],
           \A h \in handlers' : h.exp = d => h \in handlers,
           \A m \in Listed : injectFaultCache'[m] = d => injectFaultCache[m] = d
    PROVE  Sound(d)'
<1>1. Listed' = Listed
  BY DEF Listed
<1>2. Served(d)'
  BY DEF Sound, Served
<1>3. OneRequest(d, "injecting", "inject")' /\ OneRequest(d, "revoking", "recover")'
  BY DEF Sound, OneRequest
<1>4. Remaining(d)'
  BY <1>1 DEF Sound, Remaining
<1>5. Recovered(d)'
  BY <1>1 DEF Sound, Recovered
<1> QED BY <1>2, <1>3, <1>4, <1>5 DEF Sound

\* A request of e where there was none: what Sound needs of it.
LEMMA Requested ==
    ASSUME NEW e \in Exps, NEW r, r.exp = e, Served(e), stage[e] \in {"new", "running"},
           handlers' = handlers \cup {r},
           \/ stage'[e] = "injecting" /\ r.kind = "inject"
           \/ /\ stage'[e] = "revoking" /\ r.kind = "recover"
              /\ \A m \in Listed : \E k \in DOMAIN r.todo : r.todo[k] = m
    PROVE  Sound(e)'
<1>1. \A h \in handlers' : h.exp = e => h = r
  BY DEF Served
<1>2. Listed' = Listed
  BY DEF Listed
<1> QED BY <1>1, <1>2 DEF Sound, Served, OneRequest, Remaining, Recovered

LEMMA RequestsStep == IInv /\ [Next]_vars => IInv'
<1> SUFFICES ASSUME IInv, [Next]_vars, NEW d \in Exps PROVE Sound(d)'
  BY TypeStep DEF IInv
<1>t. TypeOK /\ TypeOK' /\ Sound(d)
  BY TypeStep DEF IInv
<1>l. Listed \subseteq Methods
  BY MethodsAssumption DEF Listed, Range
<1>1. CASE UNCHANGED <<injectFaultCache, handlers, stage>>
  BY <1>1, <1>t, Untouched
<1>2. CASE SidecarRestart
  <2>1. \A m \in Listed : injectFaultCache'[m] # d
    BY <1>2, <1>l, ExpsAssumption DEF SidecarRestart
  <2> QED BY <1>2, <1>t, <2>1, Untouched DEF SidecarRestart
<1>3. ASSUME NEW e \in Exps, InjectFault(e) PROVE Sound(d)'
  <2> DEFINE r == [exp |-> e, kind |-> "inject", todo |-> Wanted[e]]
  <2>1. /\ UNCHANGED injectFaultCache /\ stage[e] = "new"
        /\ \/ handlers' = handlers \cup {r} /\ stage'[e] = "injecting"
           \/ UNCHANGED handlers /\ stage'[e] = "refused"
    BY <1>3, <1>t DEF InjectFault, TypeOK
  <2>2. r.exp = e /\ r.kind = "inject"
    OBVIOUS
  <2> HIDE DEF r
  <2>3. CASE d # e
    <3>1. stage'[d] = stage[d]
      BY <1>3, <1>t, <2>3 DEF InjectFault, TypeOK
    <3> QED BY <1>t, <2>1, <2>2, <2>3, <3>1, Untouched
  <2>4. CASE d = e /\ stage'[e] = "injecting"
    BY <1>t, <2>1, <2>2, <2>4, Requested DEF Sound
  <2>5. CASE d = e /\ stage'[e] = "refused"
    BY <1>t, <2>1, <2>5 DEF Sound, Served, OneRequest, Remaining, Recovered
  <2> QED BY <2>1, <2>3, <2>4, <2>5
<1>4. ASSUME NEW e \in Exps, Revoke(e) PROVE Sound(d)'
  <2> DEFINE r == [exp |-> e, kind |-> "recover", todo |-> defaultHookPoints]
  <2>1. /\ UNCHANGED injectFaultCache /\ stage[e] = "running"
        /\ \/ handlers' = handlers \cup {r} /\ stage'[e] = "revoking"
           \/ UNCHANGED handlers /\ stage'[e] = "passed over"
    BY <1>4, <1>t DEF Revoke, TypeOK
  <2>2. r.exp = e /\ r.kind = "recover" /\ \A m \in Listed : \E k \in DOMAIN r.todo : r.todo[k] = m
    BY DEF Listed, Range
  <2> HIDE DEF r
  <2>3. CASE d # e
    <3>1. stage'[d] = stage[d]
      BY <1>4, <1>t, <2>3 DEF Revoke, TypeOK
    <3> QED BY <1>t, <2>1, <2>2, <2>3, <3>1, Untouched
  <2>4. CASE d = e /\ stage'[e] = "revoking"
    BY <1>t, <2>1, <2>2, <2>4, Requested DEF Sound
  <2>5. CASE d = e /\ stage'[e] = "passed over"
    BY <2>5 DEF Sound, Served, OneRequest, Remaining, Recovered
  <2> QED BY <2>1, <2>3, <2>4, <2>5
<1>5. ASSUME NEW e \in Exps, ClientGivesUp(e) PROVE Sound(d)'
  <2>1. handlers' \subseteq handlers /\ UNCHANGED injectFaultCache
    BY <1>5 DEF ClientGivesUp
  <2>2. CASE d # e
    <3>1. stage'[d] = stage[d]
      BY <1>5, <1>t, <2>2 DEF ClientGivesUp, TypeOK
    <3> QED BY <1>t, <2>1, <3>1, Untouched
  <2>3. CASE d = e
    <3>1. stage'[d] \in {"failed", "abandoned"}
      BY <1>5, <1>t, <2>3 DEF ClientGivesUp, TypeOK
    <3> QED BY <3>1 DEF Sound, Served, OneRequest, Remaining, Recovered
  <2> QED BY <2>2, <2>3
<1>6. ASSUME NEW h \in handlers, HandlerStep(h) PROVE Sound(d)'
  <2> DEFINE r == [h EXCEPT !.todo = Tail(@)]
             first == Head(h.todo)
  <2>1. h \in Handler /\ h.exp \in Exps /\ h.todo \in Seq(Methods) /\ h.todo # <<>>
    BY <1>6, <1>t DEF HandlerStep, TypeOK, Handler
  <2>2. r.exp = h.exp /\ r.kind = h.kind /\ r.todo = Tail(h.todo)
    BY <2>1 DEF Handler
  <2>3. handlers' = (handlers \ {h}) \cup {r} /\ UNCHANGED stage
    BY <1>6 DEF HandlerStep
  <2>4. /\ injectFaultCache'[first] = IF h.kind = "inject" THEN h.exp ELSE NoExp
        /\ \A m \in Methods : m # first => injectFaultCache'[m] = injectFaultCache[m]
    BY <1>6, <1>t, <2>1, OneTurn DEF HandlerStep, TypeOK
  <2>5. \A k \in DOMAIN h.todo :
          h.todo[k] = first \/ \E j \in DOMAIN r.todo : r.todo[j] = h.todo[k]
    BY <2>1, <2>2, OneTurn
  <2> HIDE DEF r, first
  <2>6. CASE h.exp # d
    <3>1. \A m \in Listed : injectFaultCache'[m] = d => injectFaultCache[m] = d
      BY <1>l, <2>4, <2>6, ExpsAssumption
    <3> QED BY <1>t, <2>2, <2>3, <2>6, <3>1, Untouched
  <2>7. CASE h.exp = d
    <3>1. Served(d)' /\ Recovered(d)'
      BY <1>t, <2>3, <2>7 DEF Sound, Served, Recovered
    <3>2. OneRequest(d, "injecting", "inject")' /\ OneRequest(d, "revoking", "recover")'
      BY <1>t, <2>2, <2>3, <2>7 DEF Sound, OneRequest
    <3>3. ASSUME stage[d] = "revoking", NEW g \in handlers', NEW m \in Listed,
                 g.exp = d, injectFaultCache'[m] = d
          PROVE  \E k \in DOMAIN g.todo : g.todo[k] = m
      <4>1. g = r /\ h.kind = "recover"
        BY <1>t, <2>3, <2>7, <3>3 DEF Sound, OneRequest
      <4>2. m # first
        BY <2>4, <3>3, <4>1, ExpsAssumption
      <4>3. injectFaultCache[m] = d
        BY <1>l, <2>4, <3>3, <4>2
      <4>4. PICK k \in DOMAIN h.todo : h.todo[k] = m
        BY <1>t, <2>7, <3>3, <4>3 DEF Sound, Remaining
      <4> QED BY <2>5, <4>1, <4>2, <4>4
    <3>4. Remaining(d)'
      BY <2>3, <3>3 DEF Remaining, Listed
    <3> QED BY <3>1, <3>2, <3>4 DEF Sound
  <2> QED BY <2>6, <2>7
<1>7. ASSUME NEW h \in handlers, Reply(h) PROVE Sound(d)'
  <2>1. h.exp \in Exps /\ h.todo = <<>> /\ handlers' = handlers \ {h} /\ UNCHANGED injectFaultCache
    BY <1>7, <1>t DEF Reply, TypeOK, Handler
  <2>2. CASE h.exp # d
    <3>1. stage'[d] = stage[d]
      BY <1>7, <1>t, <2>2 DEF Reply, TypeOK
    <3> QED BY <1>t, <2>1, <3>1, Untouched
  <2>3. CASE h.exp = d /\ stage[d] \in {"injecting", "revoking"}
    <3>1. stage'[d] = IF stage[d] = "injecting" THEN "running" ELSE "revoked"
      BY <1>7, <1>t, <2>3 DEF Reply, TypeOK
    <3>2. \A g \in handlers' : g.exp # d
      BY <1>t, <2>1, <2>3 DEF Sound, OneRequest
    <3>3. stage[d] = "revoking" => \A m \in Listed : injectFaultCache[m] # d
      BY <1>t, <2>1, <2>3 DEF Sound, Remaining
    <3>4. Recovered(d)'
      BY <2>1, <2>3, <3>1, <3>3 DEF Recovered, Listed
    <3> QED BY <3>1, <3>2, <3>4 DEF Sound, Served, OneRequest, Remaining
  <2>4. CASE h.exp = d /\ stage[d] \notin {"injecting", "revoking"}
    <3>1. stage'[d] = stage[d]
      BY <1>7, <1>t, <2>4 DEF Reply, TypeOK
    <3> QED BY <1>t, <2>1, <3>1, Untouched
  <2> QED BY <2>2, <2>3, <2>4
<1>8. CASE \/ Handle \/ Bypass \/ Probe \/ UNCHANGED vars
           \/ (\E m \in Methods : PreHook(m)) \/ (\E p \in Paths : doInjectFault(p)) \/ HookReturns
  BY <1>1, <1>8 DEF Handle, Bypass, Probe, PreHook, doInjectFault, HookReturns, vars
<1> QED BY <1>2, <1>3, <1>4, <1>5, <1>6, <1>7, <1>8 DEF Next

LEMMA Invariance == Spec => []IInv
<1>1. Init => TypeOK
  BY ExpsAssumption, MethodsAssumption DEF Init, TypeOK, Pods, Stages
<1>2. Init => \A e \in Exps : Sound(e)
  BY DEF Init, Sound, Served, OneRequest, Remaining, Recovered
<1>3. Init => IInv
  BY <1>1, <1>2 DEF IInv
<1> QED BY <1>3, RequestsStep, PTL DEF Spec

\* An answered recovery has taken every listed method from its experiment, for any
\* number of experiments that inject and recover on the pod at the same time
\* (RecoverHandler, InjectHandler).
THEOREM RecoveryIsComplete == Spec => []RecoversAll
<1>1. IInv => RecoversAll
  BY DEF IInv, Sound, Recovered, RecoversAll
<1> QED BY <1>1, Invariance, PTL

-----------------------------------------------------------------------------
(***************************************************************************)
(* Operations, and experiments that are running.                           *)
(***************************************************************************)

\* What the map holds, and what an inject message still brings, was asked for by
\* an experiment whose message was sent; a recovery still brings listed methods
\* only, for an experiment that was asked to be destroyed.
AskedFor ==
    /\ \A m \in Methods : injectFaultCache[m] \in Exps =>
         /\ m \in Range(Wanted[injectFaultCache[m]])
         /\ stage[injectFaultCache[m]] \notin {"new", "refused"}
    /\ \A h \in handlers :
         /\ stage[h.exp] \notin {"new", "refused"}
         /\ h.kind = "inject" => \A k \in DOMAIN h.todo : h.todo[k] \in Range(Wanted[h.exp])
         /\ h.kind = "recover" => /\ stage[h.exp] \in {"revoking", "abandoned"}
                                  /\ \A k \in DOMAIN h.todo : h.todo[k] \in Listed

\* A request of e has the method m still to visit.
Pending(e, m) == \E h \in handlers : h.exp = e /\ \E k \in DOMAIN h.todo : h.todo[k] = m

\* A method an experiment asked for has its fault, or it was taken, or the
\* request under way has yet to get to it.
InEffect(e) ==
    stage[e] \in {"injecting", "running"} /\ e \notin lost =>
        \A m \in Range(Wanted[e]) :
            \/ injectFaultCache[m] = e
            \/ Taken(e, m)
            \/ stage[e] = "injecting" /\ Pending(e, m)

\* The inductive invariant behind RunningIsInEffect.
EInv == IInv /\ AskedFor /\ \A e \in Exps : InEffect(e)

\* What a stage can become (Reply, ClientGivesUp, Revoke, InjectFault).
StagesAdvance ==
    \A e \in Exps :
        /\ stage[e] \notin {"new", "refused"} => stage'[e] \notin {"new", "refused"}
        /\ stage[e] \in {"revoking", "revoked", "abandoned"} =>
             stage'[e] \in {"revoking", "revoked", "abandoned"}
        /\ stage[e] = "revoked" => stage'[e] = "revoked"
        /\ stage[e] = "abandoned" => stage'[e] = "abandoned"

LEMMA StagesStep == TypeOK /\ [Next]_vars => StagesAdvance
<1> SUFFICES ASSUME TypeOK, [Next]_vars PROVE StagesAdvance
  OBVIOUS
<1>1. ASSUME NEW e \in Exps, InjectFault(e) \/ Revoke(e) \/ ClientGivesUp(e)
      PROVE  StagesAdvance
  BY <1>1 DEF InjectFault, Revoke, ClientGivesUp, StagesAdvance, TypeOK
<1>2. ASSUME NEW h \in handlers, Reply(h) PROVE StagesAdvance
  BY <1>2 DEF Reply, StagesAdvance, TypeOK, Handler
<1>3. CASE UNCHANGED stage
  BY <1>3 DEF StagesAdvance
<1> QED BY <1>1, <1>2, <1>3
        DEF Next, Handle, Bypass, Probe, SidecarRestart, HandlerStep, PreHook, doInjectFault,
            HookReturns, vars

\* A method that was taken from e stays so while its entry of the map does.
LEMMA TakenStays ==
    ASSUME NEW e \in Exps, NEW m \in Methods, StagesAdvance, Taken(e, m),
           injectFaultCache'[m] = injectFaultCache[m]
    PROVE  Taken(e, m)'
<1>1. Listed' = Listed
  BY DEF Listed
<1> QED BY <1>1 DEF Taken, StagesAdvance

LEMMA AskedStep == IInv /\ AskedFor /\ [Next]_vars => AskedFor'
<1> SUFFICES ASSUME IInv, AskedFor, [Next]_vars PROVE AskedFor'
  OBVIOUS
<1>t. TypeOK /\ TypeOK' /\ StagesAdvance /\ Listed' = Listed
  BY TypeStep, StagesStep DEF IInv, Listed
<1>e. Exps \cap {NoExp} = {}
  BY ExpsAssumption
<1>1. CASE UNCHANGED <<injectFaultCache, handlers, stage>>
  BY <1>1, <1>t DEF AskedFor
<1>2. CASE SidecarRestart
  BY <1>2, <1>e DEF SidecarRestart, AskedFor
<1>3. ASSUME NEW e \in Exps, InjectFault(e) PROVE AskedFor'
  <2> DEFINE r == [exp |-> e, kind |-> "inject", todo |-> Wanted[e]]
  <2>1. \A k \in DOMAIN Wanted[e] : Wanted[e][k] \in Range(Wanted[e])
    BY DEF Range
  <2>2. /\ UNCHANGED injectFaultCache
        /\ \A d \in Exps : d # e => stage'[d] = stage[d]
        /\ stage[e] = "new"
        /\ \/ /\ handlers' = handlers \cup {r}
              /\ stage'[e] = "injecting"
           \/ UNCHANGED handlers /\ stage'[e] = "refused"
    BY <1>3, <1>t DEF InjectFault, TypeOK
  <2>9. r.exp = e /\ r.kind = "inject" /\ r.todo = Wanted[e]
    OBVIOUS
  <2> HIDE DEF r
  <2>3. \A h \in handlers : h.exp # e
    BY <2>2 DEF AskedFor
  <2>4. \A m \in Methods : injectFaultCache[m] # e
    BY <2>2 DEF AskedFor
  <2>5. \A h \in handlers : h.exp \in Exps /\ stage'[h.exp] = stage[h.exp]
    BY <1>t, <2>2, <2>3 DEF TypeOK, Handler
  <2>6. \A h \in handlers' : h \in handlers \/ (h = r /\ stage'[e] = "injecting")
    BY <2>2
  <2>7. \A m \in Methods : injectFaultCache'[m] \in Exps =>
          /\ m \in Range(Wanted[injectFaultCache'[m]])
          /\ stage'[injectFaultCache'[m]] \notin {"new", "refused"}
    BY <1>t, <2>2, <2>4 DEF AskedFor
  <2>8. \A h \in handlers' :
          /\ stage'[h.exp] \notin {"new", "refused"}
          /\ h.kind = "inject" => \A k \in DOMAIN h.todo : h.todo[k] \in Range(Wanted[h.exp])
          /\ h.kind = "recover" => /\ stage'[h.exp] \in {"revoking", "abandoned"}
                                   /\ \A k \in DOMAIN h.todo : h.todo[k] \in Listed
    BY <2>1, <2>5, <2>6, <2>9 DEF AskedFor
  <2> QED BY <1>t, <2>7, <2>8 DEF AskedFor
<1>4. ASSUME NEW e \in Exps, Revoke(e) PROVE AskedFor'
  <2> DEFINE r == [exp |-> e, kind |-> "recover", todo |-> defaultHookPoints]
  <2>1. \A k \in DOMAIN defaultHookPoints : defaultHookPoints[k] \in Listed
    BY DEF Listed, Range
  <2>2. /\ UNCHANGED injectFaultCache
        /\ \A d \in Exps : d # e => stage'[d] = stage[d]
        /\ stage[e] = "running"
        /\ \/ /\ handlers' = handlers \cup {r}
              /\ stage'[e] = "revoking"
           \/ UNCHANGED handlers /\ stage'[e] = "passed over"
    BY <1>4, <1>t DEF Revoke, TypeOK
  <2>9. r.exp = e /\ r.kind = "recover" /\ r.todo = defaultHookPoints
    OBVIOUS
  <2> HIDE DEF r
  <2>3. \A h \in handlers : h.exp # e
    BY <1>t, <2>2 DEF IInv, Sound, Served
  <2>5. \A h \in handlers : h.exp \in Exps /\ stage'[h.exp] = stage[h.exp]
    BY <1>t, <2>2, <2>3 DEF TypeOK, Handler
  <2>6. \A h \in handlers' : h \in handlers \/ (h = r /\ stage'[e] = "revoking")
    BY <2>2
  <2>7. \A m \in Methods : injectFaultCache'[m] \in Exps =>
          /\ m \in Range(Wanted[injectFaultCache'[m]])
          /\ stage'[injectFaultCache'[m]] \notin {"new", "refused"}
    BY <1>t, <2>2 DEF AskedFor, StagesAdvance
  <2>8. \A h \in handlers' :
          /\ stage'[h.exp] \notin {"new", "refused"}
          /\ h.kind = "inject" => \A k \in DOMAIN h.todo : h.todo[k] \in Range(Wanted[h.exp])
          /\ h.kind = "recover" => /\ stage'[h.exp] \in {"revoking", "abandoned"}
                                   /\ \A k \in DOMAIN h.todo : h.todo[k] \in Listed
    BY <2>1, <2>5, <2>6, <2>9 DEF AskedFor
  <2> QED BY <1>t, <2>7, <2>8 DEF AskedFor
<1>5. ASSUME NEW e \in Exps, ClientGivesUp(e) PROVE AskedFor'
  <2>1. /\ handlers' \subseteq handlers /\ UNCHANGED injectFaultCache
        /\ stage[e] = "injecting" => stage'[e] = "failed"
        /\ stage[e] = "revoking" => stage'[e] = "abandoned"
        /\ stage[e] \in {"injecting", "revoking"}
        /\ \A d \in Exps : d # e => stage'[d] = stage[d]
    BY <1>5, <1>t DEF ClientGivesUp, TypeOK
  <2>2. \A h \in handlers : h.exp \in Exps
    BY <1>t DEF TypeOK, Handler
  <2>3. \A h \in handlers' : h.kind = "recover" => stage'[h.exp] \in {"revoking", "abandoned"}
    BY <2>1, <2>2 DEF AskedFor
  <2> QED BY <1>t, <2>1, <2>2, <2>3 DEF AskedFor, StagesAdvance
<1>6. ASSUME NEW h \in handlers, HandlerStep(h) PROVE AskedFor'
  <2> DEFINE r == [h EXCEPT !.todo = Tail(@)]
             first == Head(h.todo)
  <2>1. h \in Handler /\ h.exp \in Exps /\ h.todo \in Seq(Methods) /\ h.todo # <<>>
    BY <1>6, <1>t DEF HandlerStep, TypeOK, Handler
  <2>2. r.exp = h.exp /\ r.kind = h.kind /\ r.todo = Tail(h.todo)
    BY <2>1 DEF Handler
  <2>3. handlers' = (handlers \ {h}) \cup {r} /\ UNCHANGED stage
    BY <1>6 DEF HandlerStep
  <2>4. /\ injectFaultCache'[first] = IF h.kind = "inject" THEN h.exp ELSE NoExp
        /\ \A m \in Methods : m # first => injectFaultCache'[m] = injectFaultCache[m]
    BY <1>6, <1>t, <2>1, OneTurn DEF HandlerStep, TypeOK
  <2>5. /\ first = h.todo[1] /\ 1 \in DOMAIN h.todo
        /\ \A k \in DOMAIN r.todo : \E j \in DOMAIN h.todo : r.todo[k] = h.todo[j]
    BY <2>1, <2>2, TurnBack
  <2> HIDE DEF r, first
  <2>7. \A m \in Methods : injectFaultCache'[m] \in Exps =>
          /\ m \in Range(Wanted[injectFaultCache'[m]])
          /\ stage'[injectFaultCache'[m]] \notin {"new", "refused"}
    <3> SUFFICES ASSUME NEW m \in Methods, injectFaultCache'[m] \in Exps
                 PROVE  /\ m \in Range(Wanted[injectFaultCache'[m]])
                        /\ stage[injectFaultCache'[m]] \notin {"new", "refused"}
      BY <2>3
    <3>1. CASE m # first
      BY <2>4, <3>1 DEF AskedFor
    <3>2. CASE m = first
      <4>1. h.kind = "inject" /\ injectFaultCache'[m] = h.exp
        BY <1>e, <2>4, <3>2
      <4> QED BY <2>5, <3>2, <4>1 DEF AskedFor
    <3> QED BY <3>1, <3>2
  <2>8. \A g \in handlers' :
          /\ stage'[g.exp] \notin {"new", "refused"}
          /\ g.kind = "inject" => \A k \in DOMAIN g.todo : g.todo[k] \in Range(Wanted[g.exp])
          /\ g.kind = "recover" => /\ stage'[g.exp] \in {"revoking", "abandoned"}
                                   /\ \A k \in DOMAIN g.todo : g.todo[k] \in Listed
    <3> SUFFICES ASSUME NEW g \in handlers'
                 PROVE  /\ stage[g.exp] \notin {"new", "refused"}
                        /\ g.kind = "inject" =>
                             \A k \in DOMAIN g.todo : g.todo[k] \in Range(Wanted[g.exp])
                        /\ g.kind = "recover" =>
                             /\ stage[g.exp] \in {"revoking", "abandoned"}
                             /\ \A k \in DOMAIN g.todo : g.todo[k] \in Listed
      BY <2>3
    <3>1. CASE g = r
      BY <2>2, <2>5, <3>1 DEF AskedFor
    <3>2. CASE g \in handlers
      BY <3>2 DEF AskedFor
    <3> QED BY <2>3, <3>1, <3>2
  <2> QED BY <1>t, <2>7, <2>8 DEF AskedFor
<1>7. ASSUME NEW h \in handlers, Reply(h) PROVE AskedFor'
  <2>1. h.exp \in Exps /\ handlers' = handlers \ {h} /\ UNCHANGED injectFaultCache
    BY <1>7, <1>t DEF Reply, TypeOK, Handler
  <2>2. \A d \in Exps : stage[d] # "revoking" \/ d # h.exp =>
          (stage[d] = "abandoned" => stage'[d] = "abandoned")
          /\ (stage[d] = "revoking" => stage'[d] = "revoking")
    BY <1>7, <1>t, <2>1 DEF Reply, TypeOK
  <2>3. \A g \in handlers' : g.exp \in Exps /\ g \in handlers
                             /\ (g.exp = h.exp => stage[g.exp] # "revoking")
    BY <1>t, <2>1 DEF IInv, Sound, OneRequest, TypeOK, Handler
  <2>4. \A g \in handlers' : g.kind = "recover" => stage'[g.exp] \in {"revoking", "abandoned"}
    BY <2>2, <2>3 DEF AskedFor
  <2> QED BY <1>t, <2>1, <2>3, <2>4 DEF AskedFor, StagesAdvance
<1>8. CASE \/ Handle \/ Bypass \/ Probe \/ UNCHANGED vars
           \/ (\E m \in Methods : PreHook(m)) \/ (\E p \in Paths : doInjectFault(p)) \/ HookReturns
  BY <1>1, <1>8 DEF Handle, Bypass, Probe, PreHook, doInjectFault, HookReturns, vars
<1> QED BY <1>2, <1>3, <1>4, <1>5, <1>6, <1>7, <1>8 DEF Next

LEMMA InEffectStep == EInv /\ [Next]_vars => EInv'
<1> SUFFICES ASSUME EInv, [Next]_vars, NEW d \in Exps,
                    stage'[d] \in {"injecting", "running"}, d \notin lost',
                    NEW m \in Range(Wanted[d])
             PROVE  \/ injectFaultCache'[m] = d
                    \/ Taken(d, m)'
                    \/ stage'[d] = "injecting" /\ Pending(d, m)'
  BY RequestsStep, AskedStep DEF EInv, InEffect
<1>t. TypeOK /\ StagesAdvance /\ Sound(d) /\ AskedFor /\ InEffect(d)
  BY StagesStep DEF EInv, IInv
<1>m. m \in Methods
  BY MethodsAssumption, RangeOfSeq, Wanted[d] \in Seq(Methods)
<1>l. Listed' = Listed
  BY DEF Listed
<1>1. ASSUME UNCHANGED <<injectFaultCache, handlers>>, stage'[d] = stage[d], lost' = lost
      PROVE  \/ injectFaultCache'[m] = d
             \/ Taken(d, m)'
             \/ stage'[d] = "injecting" /\ Pending(d, m)'
  BY <1>1, <1>t, <1>m, TakenStays DEF InEffect, Pending
<1>2. CASE SidecarRestart
  BY <1>2 DEF SidecarRestart
<1>3. ASSUME NEW e \in Exps, InjectFault(e)
      PROVE  \/ injectFaultCache'[m] = d
             \/ Taken(d, m)'
             \/ stage'[d] = "injecting" /\ Pending(d, m)'
  <2>1. UNCHANGED <<injectFaultCache, lost>> /\ handlers \subseteq handlers'
    BY <1>3 DEF InjectFault
  <2>2. CASE d # e
    <3>1. stage'[d] = stage[d]
      BY <1>3, <1>t, <2>2 DEF InjectFault, TypeOK
    <3>2. Pending(d, m) => Pending(d, m)'
      BY <2>1 DEF Pending
    <3> QED BY <1>t, <1>m, <2>1, <3>1, <3>2, TakenStays DEF InEffect
  <2>3. CASE d = e
    <3> DEFINE r == [exp |-> d, kind |-> "inject", todo |-> Wanted[d]]
    <3>1. stage'[d] = "injecting" /\ handlers' = handlers \cup {r}
      BY <1>3, <1>t, <2>3 DEF InjectFault, TypeOK
    <3>2. r.exp = d /\ \E k \in DOMAIN r.todo : r.todo[k] = m
      BY DEF Range
    <3> HIDE DEF r
    <3>3. Pending(d, m)'
      BY <3>1, <3>2 DEF Pending
    <3> QED BY <3>1, <3>3
  <2> QED BY <2>2, <2>3
<1>4. ASSUME NEW e \in Exps, Revoke(e)
      PROVE  \/ injectFaultCache'[m] = d
             \/ Taken(d, m)'
             \/ stage'[d] = "injecting" /\ Pending(d, m)'
  <2>1. UNCHANGED <<injectFaultCache, lost>> /\ handlers \subseteq handlers'
    BY <1>4 DEF Revoke
  <2>2. stage'[d] = stage[d]
    BY <1>4, <1>t DEF Revoke, TypeOK
  <2>3. Pending(d, m) => Pending(d, m)'
    BY <2>1 DEF Pending
  <2> QED BY <1>t, <1>m, <2>1, <2>2, <2>3, TakenStays DEF InEffect
<1>5. ASSUME NEW e \in Exps, ClientGivesUp(e)
      PROVE  \/ injectFaultCache'[m] = d
             \/ Taken(d, m)'
             \/ stage'[d] = "injecting" /\ Pending(d, m)'
  <2>1. UNCHANGED <<injectFaultCache, lost>> /\ stage'[d] = stage[d] /\ d # e
    BY <1>5, <1>t DEF ClientGivesUp, TypeOK
  <2>2. \A h \in handlers : h.exp = d => h \in handlers'
    BY <1>5, <2>1 DEF ClientGivesUp
  <2>3. Pending(d, m) => Pending(d, m)'
    BY <2>2 DEF Pending
  <2> QED BY <1>t, <1>m, <2>1, <2>3, TakenStays DEF InEffect
<1>6. ASSUME NEW h \in handlers, HandlerStep(h)
      PROVE  \/ injectFaultCache'[m] = d
             \/ Taken(d, m)'
             \/ stage'[d] = "injecting" /\ Pending(d, m)'
  <2> DEFINE r == [h EXCEPT !.todo = Tail(@)]
             first == Head(h.todo)
  <2>1. h \in Handler /\ h.exp \in Exps /\ h.todo \in Seq(Methods) /\ h.todo # <<>>
        /\ h.kind \in {"inject", "recover"}
    BY <1>6, <1>t DEF HandlerStep, TypeOK, Handler
  <2>2. r.exp = h.exp /\ r.kind = h.kind /\ r.todo = Tail(h.todo)
    BY <2>1 DEF Handler
  <2>3. handlers' = (handlers \ {h}) \cup {r} /\ UNCHANGED <<stage, lost>>
    BY <1>6 DEF HandlerStep
  <2>4. /\ injectFaultCache'[first] = IF h.kind = "inject" THEN h.exp ELSE NoExp
        /\ m # first => injectFaultCache'[m] = injectFaultCache[m]
    BY <1>6, <1>t, <1>m, <2>1, OneTurn DEF HandlerStep, TypeOK
  <2>5. /\ first = h.todo[1] /\ 1 \in DOMAIN h.todo
        /\ \A k \in DOMAIN h.todo :
             h.todo[k] = first \/ \E j \in DOMAIN r.todo : r.todo[j] = h.todo[k]
    BY <2>1, <2>2, OneTurn, TurnBack
  <2> HIDE DEF r, first
  <2>6. CASE m # first
    <3>1. ASSUME NEW g \in handlers, g.exp = d, NEW k \in DOMAIN g.todo, g.todo[k] = m
          PROVE  \E x \in handlers' : x.exp = d /\ \E j \in DOMAIN x.todo : x.todo[j] = m
      <4>1. CASE g # h
        BY <2>3, <3>1, <4>1
      <4>2. CASE g = h
        <5>1. \E j \in DOMAIN r.todo : r.todo[j] = m
          BY <2>5, <2>6, <3>1, <4>2
        <5> QED BY <2>2, <2>3, <3>1, <4>2, <5>1
      <4> QED BY <4>1, <4>2
    <3>2. Pending(d, m) => Pending(d, m)'
      BY <3>1 DEF Pending
    <3> QED BY <1>t, <1>m, <2>3, <2>4, <2>6, <3>2, TakenStays DEF InEffect
  <2>7. CASE m = first /\ h.kind = "inject"
    <3>1. injectFaultCache'[m] = h.exp
      BY <2>4, <2>7
    <3>2. m \in Range(Wanted[h.exp]) /\ stage[h.exp] \notin {"new", "refused"}
      BY <1>t, <2>5, <2>7 DEF AskedFor
    <3>3. h.exp = d \/ Taken(d, m)'
      BY <2>1, <2>3, <3>1, <3>2 DEF Taken
    <3> QED BY <3>1, <3>3
  <2>8. CASE m = first /\ h.kind = "recover"
    <3>1. stage[h.exp] \in {"revoking", "abandoned"} /\ m \in Listed
      BY <1>t, <2>5, <2>8 DEF AskedFor
    <3>2. h.exp # d
      BY <2>3, <3>1
    <3>3. Taken(d, m)'
      BY <1>l, <2>1, <2>3, <3>1, <3>2 DEF Taken
    <3> QED BY <3>3
  <2> QED BY <2>1, <2>6, <2>7, <2>8
<1>7. ASSUME NEW h \in handlers, Reply(h)
      PROVE  \/ injectFaultCache'[m] = d
             \/ Taken(d, m)'
             \/ stage'[d] = "injecting" /\ Pending(d, m)'
  <2>1. /\ h.exp \in Exps /\ h.todo = <<>> /\ handlers' = handlers \ {h}
        /\ UNCHANGED <<injectFaultCache, lost>>
    BY <1>7, <1>t DEF Reply, TypeOK, Handler
  <2>2. stage[d] \in {"injecting", "running"}
    BY <1>7, <1>t, <2>1 DEF Reply, TypeOK
  <2>3. CASE stage[d] = "running" \/ d # h.exp
    <3>1. stage'[d] = stage[d]
      BY <1>7, <1>t, <2>1, <2>2, <2>3 DEF Reply, TypeOK
    <3>2. d # h.exp => (Pending(d, m) => Pending(d, m)')
      BY <2>1 DEF Pending
    <3> QED BY <1>t, <1>m, <2>1, <2>3, <3>1, <3>2, TakenStays DEF InEffect
  <2>4. CASE stage[d] = "injecting" /\ d = h.exp
    <3>1. ~Pending(d, m)
      BY <1>t, <2>1, <2>4 DEF Sound, OneRequest, Pending
    <3> QED BY <1>t, <1>m, <2>1, <2>2, <3>1, TakenStays DEF InEffect
  <2> QED BY <2>2, <2>3, <2>4
<1>8. CASE \/ Handle \/ Bypass \/ Probe \/ UNCHANGED vars
           \/ (\E n \in Methods : PreHook(n)) \/ (\E p \in Paths : doInjectFault(p)) \/ HookReturns
  BY <1>1, <1>8 DEF Handle, Bypass, Probe, PreHook, doInjectFault, HookReturns, vars
<1> QED BY <1>2, <1>3, <1>4, <1>5, <1>6, <1>7, <1>8 DEF Next

LEMMA EffectInvariance == Spec => []EInv
<1>1. Init => TypeOK
  BY ExpsAssumption, MethodsAssumption DEF Init, TypeOK, Pods, Stages
<1>2. Init => \A e \in Exps : Sound(e) /\ InEffect(e)
  BY DEF Init, Sound, Served, OneRequest, Remaining, Recovered, InEffect
<1>3. Init => AskedFor
  BY ExpsAssumption DEF Init, AskedFor
<1>4. Init => EInv
  BY <1>1, <1>2, <1>3 DEF EInv, IInv
<1> QED BY <1>4, InEffectStep, PTL DEF Spec

\* The faults of a running experiment are in effect wherever it asked for them,
\* unless a restart of the sidecar or another experiment took them, for any
\* number of experiments, in any order of the handlers' turns and with any
\* requests and replies lost (InjectHandler, RecoverHandler, create, destroy).
THEOREM OnlyOthersTakeFaults == Spec => []RunningIsInEffect
<1>1. EInv => RunningIsInEffect
  BY DEF EInv, InEffect, RunningIsInEffect
<1> QED BY <1>1, EffectInvariance, PTL

\* An operation under way began when the recoveries it remembers were answered,
\* and has not met the fault of one of them.
OperationSound ==
    op # NoOperation =>
        /\ \A e \in op.before : stage[e] = "revoked"
        /\ op.exp # NoExp => /\ op.method \in Range(Wanted[op.exp])
                             /\ op.method \in Listed => op.exp \notin op.before

LEMMA OperationStep == EInv /\ OperationSound /\ [Next]_vars => OperationSound'
<1> SUFFICES ASSUME EInv, OperationSound, [Next]_vars PROVE OperationSound'
  OBVIOUS
<1>t. TypeOK /\ StagesAdvance /\ Listed' = Listed
  BY StagesStep DEF EInv, IInv, Listed
<1>1. CASE UNCHANGED op
  <2>1. op # NoOperation => op.before \subseteq Exps
    BY <1>t DEF TypeOK, Operation
  <2> QED BY <1>1, <1>t, <2>1 DEF OperationSound, StagesAdvance
<1>2. ASSUME op' = NoOperation PROVE OperationSound'
  BY <1>2 DEF OperationSound, NoOperation
<1>3. ASSUME NEW m \in Methods, PreHook(m) PROVE OperationSound'
  <2>1. /\ op' = [at |-> "begun", method |-> m, exp |-> NoExp,
                  before |-> {e \in Exps : stage[e] = "revoked"}]
        /\ UNCHANGED stage
    BY <1>3 DEF PreHook
  <2> QED BY <2>1 DEF OperationSound
<1>4. ASSUME NEW p \in Paths, doInjectFault(p) PROVE OperationSound'
  <2> DEFINE e == injectFaultCache[op.method]
  <2>1. op # NoOperation /\ op \in Operation /\ op.method \in Methods /\ op.before \subseteq Exps
    BY <1>4, <1>t DEF doInjectFault, TypeOK, NoOperation, Operation
  <2>2. /\ UNCHANGED stage
        /\ \/ op' = [op EXCEPT !.at = "looked"]
           \/ op' = [op EXCEPT !.at = "looked", !.exp = e] /\ e # NoExp
    BY <1>4 DEF doInjectFault
  <2>3. e # NoExp => /\ e \in Exps
                     /\ op.method \in Range(Wanted[e])
                     /\ op.method \in Listed => stage[e] # "revoked"
    BY <1>t, <2>1 DEF TypeOK, EInv, IInv, AskedFor, Sound, Recovered
  <2> HIDE DEF e
  <2>4. /\ op'.method = op.method /\ op'.before = op.before
        /\ op'.exp = op.exp \/ (op'.exp = e /\ e # NoExp)
    <3>1. DOMAIN op = {"at", "method", "exp", "before"}
      BY <2>1 DEF Operation
    <3>2. CASE op' = [op EXCEPT !.at = "looked"]
      BY <3>1, <3>2
    <3>3. CASE op' = [op EXCEPT !.at = "looked", !.exp = e] /\ e # NoExp
      BY <3>1, <3>3
    <3> QED BY <2>2, <3>2, <3>3
  <2>5. \A d \in op'.before : stage'[d] = "revoked"
    BY <2>1, <2>2, <2>4 DEF OperationSound
  <2>6. op'.exp # NoExp => /\ op'.method \in Range(Wanted[op'.exp])
                           /\ op'.method \in Listed => op'.exp \notin op'.before
    BY <2>1, <2>3, <2>4 DEF OperationSound
  <2> QED BY <1>t, <2>5, <2>6 DEF OperationSound
<1> QED BY <1>1, <1>2, <1>3, <1>4
        DEF Next, Handle, Bypass, Probe, SidecarRestart, InjectFault, Revoke, ClientGivesUp,
            HandlerStep, Reply, HookReturns, vars

\* An operation on a listed method that begins after the recovery of an experiment
\* was answered does not return its fault, however long the operation takes: the
\* answer comes after the last turn of the loop, and the operation's look at the
\* map after its beginning (RecoverHandler, doInjectFault).
THEOREM RecoveredStaysRecovered == Spec => []NoFaultAfterRecovery
<1>1. Init => OperationSound
  BY DEF Init, OperationSound
<1>2. OperationSound => NoFaultAfterRecovery
  BY DEF OperationSound, NoFaultAfterRecovery
<1> QED BY <1>1, <1>2, OperationStep, EffectInvariance, PTL DEF Spec

-----------------------------------------------------------------------------
(***************************************************************************)
(* The pod and its sidecar.                                                *)
(***************************************************************************)

\* The pod p as it was handed in, q as it is admitted.
Together(p, q) ==
    LET app      == p.containers[1]
        sidecars == {k \in DOMAIN q.containers : q.containers[k].name = SidecarName}
    IN  /\ app \in Range(q.containers)
        /\ \A k, j \in sidecars : k = j
        /\ \A k \in sidecars : \E m \in Range(app.mounts) :
             /\ Propagates(m)
             /\ m.volume \in {n.volume : n \in Range(q.containers[k].mounts)}

\* A pod without a sidecar keeps its first container and has none.
LEMMA TogetherAlone ==
    ASSUME NEW p \in Submissions
    PROVE  Together(p, p)
<1>1. p \in PodRecord /\ p.containers # <<>> /\ ~HasSidecar(p)
  BY SubmissionsAssumption
<1>2. 1 \in DOMAIN p.containers
  BY <1>1 DEF PodRecord
<1>3. {k \in DOMAIN p.containers : p.containers[k].name = SidecarName} = {}
  BY <1>1 DEF HasSidecar
<1> QED BY <1>2, <1>3 DEF Together, Range

\* A pod that is given one keeps its first container, next to it.
LEMMA TogetherJoined ==
    ASSUME NEW p \in Submissions, ~Refuses(p)
    PROVE  Together(p, Join(p))
<1> DEFINE c   == Join(p).containers
           app == p.containers[1]
<1>1. p \in PodRecord /\ p.containers # <<>> /\ ~HasSidecar(p)
  BY SubmissionsAssumption
<1>2. c = <<Container(SidecarName, <<Target(p)>>, TRUE), app>>
  BY <1>1, Joined
<1>3. 1 \in DOMAIN p.containers
  BY <1>1 DEF PodRecord
<1>4. app.name # SidecarName
  BY <1>1, <1>3 DEF HasSidecar
<1>5. DOMAIN c = {1, 2} /\ c[1] = Container(SidecarName, <<Target(p)>>, TRUE) /\ c[2] = app
  BY <1>2
<1>6. Container(SidecarName, <<Target(p)>>, TRUE).mounts = <<Target(p)>>
  BY DEF Container
<1>7. {k \in DOMAIN c : c[k].name = SidecarName} \subseteq {1}
  BY <1>4, <1>5
<1>8. Target(p).volume \in {n.volume : n \in Range(c[1].mounts)}
  <2> HIDE DEF c
  <2>1. c[1].mounts = <<Target(p)>>
    BY <1>5, <1>6
  <2>2. Target(p) \in Range(c[1].mounts)
    BY <2>1 DEF Range
  <2> QED BY <2>2
<1>9. PICK k \in DOMAIN app.mounts : Propagates(app.mounts[k]) /\ Target(p).volume = app.mounts[k].volume
  BY <1>1, TargetIsMounted DEF Mounts
<1>10. app.mounts[k] \in Range(app.mounts)
  BY DEF Range
<1>11. app \in Range(c)
  BY <1>5 DEF Range
<1> HIDE DEF c, app
<1>12. \A i \in {k1 \in DOMAIN c : c[k1].name = SidecarName} : i = 1
  BY <1>7
<1> QED BY <1>8, <1>9, <1>10, <1>11, <1>12 DEF Together, c, app

\* The pod is as it was handed in or as one call of the webhook makes it, and
\* when that is a rejection the API server has not admitted it (Mutator.Handle).
Admitted == /\ pod \in {submitted, mutatePodsFn(submitted)}
            /\ pod = Rejected => life = "rejected"

LEMMA AdmittedStep == TypeOK /\ Admitted /\ [Next]_vars => Admitted'
<1> SUFFICES ASSUME TypeOK, Admitted, [Next]_vars PROVE Admitted'
  OBVIOUS
<1>1. submitted \in PodRecord /\ ~HasSidecar(submitted) /\ submitted # Rejected
  BY SubmissionsAssumption DEF TypeOK, Rejected
<1>2. CASE Handle
  <2>1. pod' = mutatePodsFn(submitted)
    BY <1>1, <1>2, MutateTwice DEF Handle, Admitted
  <2> QED BY <1>2, <2>1 DEF Handle, Admitted
<1>3. CASE Bypass
  BY <1>1, <1>3 DEF Bypass, Admitted
<1>4. CASE Probe
  BY <1>4 DEF Probe, Admitted
<1>5. CASE UNCHANGED podVars
  BY <1>5 DEF podVars, Admitted
<1> QED BY <1>2, <1>3, <1>4, <1>5
        DEF Next, SidecarRestart, InjectFault, Revoke, ClientGivesUp, HandlerStep, Reply,
            PreHook, doInjectFault, HookReturns, vars

\* However often the webhook is called, for any pod handed in: its first
\* container is kept, and at most one sidecar joins it, on a volume through
\* which the container sees what the sidecar mounts (mutatePodsFn).
THEOREM SidecarServesApp == Spec => []SidecarJoinsApp
<1>1. Init => Admitted
  <2> SUFFICES ASSUME Init PROVE Admitted
    OBVIOUS
  <2>1. submitted \in Submissions /\ pod = submitted
    BY DEF Init
  <2>2. submitted # Rejected
    BY <2>1, SubmissionsAssumption DEF Rejected
  <2> QED BY <2>1, <2>2 DEF Admitted
<1>2. TypeOK /\ Admitted => SidecarJoinsApp
  <2> SUFFICES ASSUME TypeOK, Admitted, life # "rejected" PROVE Together(submitted, pod)
    BY DEF SidecarJoinsApp, Together
  <2>1. submitted \in Submissions /\ pod # Rejected
    BY DEF TypeOK, Admitted
  <2>2. CASE pod = submitted
    BY <2>1, <2>2, TogetherAlone
  <2>3. CASE pod # submitted
    <3>1. pod = Join(submitted) /\ ~Refuses(submitted)
      BY <2>1, <2>3 DEF Admitted, mutatePodsFn
    <3> QED BY <2>1, <3>1, TogetherJoined
  <2> QED BY <2>2, <2>3
<1> QED BY <1>1, <1>2, AdmittedStep, TypeCorrect, PTL DEF Spec

=============================================================================
