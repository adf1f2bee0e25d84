--------------------------- MODULE BladeLifecycle ---------------------------
(***************************************************************************)
(* The life of one ChaosBlade custom resource: the object at the API       *)
(* server, the informer cache and its event handlers, the predicates that  *)
(* filter events, the reconciler, the periodic clean-up loop and the       *)
(* goroutines that watch experiments with a timeout.                       *)
(*                                                                         *)
(* Sources: pkg/controller/chaosblade/controller.go and predicate.go,      *)
(* exec/controller.go, exec/model/executor.go (checkExperimentStatus).     *)
(* The API server, the informer and the work queue are not in the          *)
(* repository: they are modelled from how the operator uses them (an       *)
(* update carries a resource version and is refused when it is not the     *)
(* current one; reads come from the cache; one request per name is         *)
(* processed at a time).                                                   *)
(***************************************************************************)
EXTENDS Naturals, Sequences, FiniteSets

CONSTANTS
    Specs,        \* the blade specifications a user may write
    NoSpec,       \* absence of a specification (no preSpec annotation)
    Size,         \* Size[s]: number of experiments of specification s
    Timed,        \* specifications whose experiments carry a timeout flag
    MaxRes,       \* bound on the resources one experiment selects
    MaxCreates,   \* bound on the objects created under the blade's name
    MaxEdits,     \* bound on the changes of the specification by a user
    MaxTouches,   \* bound on changes of metadata only (labels, annotations)
    MaxCrashes,   \* bound on restarts of the operator
    ApiFaults,    \* may the API server refuse a write, or its reply be lost?
    ExecFaults    \* may a command run in a pod fail?

ASSUME SpecsAssumption   == NoSpec \notin Specs /\ Timed \subseteq Specs
ASSUME SizeAssumption    == Size \in [Specs -> Nat]
ASSUME BoundsAssumption  == /\ MaxRes \in Nat /\ MaxCreates \in Nat
                            /\ MaxEdits \in Nat /\ MaxTouches \in Nat
                            /\ MaxCrashes \in Nat
ASSUME FaultsAssumption  == ApiFaults \in BOOLEAN /\ ExecFaults \in BOOLEAN

Phases == {"Initial", "Initialized", "Running", "Updating",
           "Destroying", "Error", "Destroyed"}

\* One ResourceStatus: the experiment uid and its Success flag.
ResStatus == [id : Nat, ok : BOOLEAN]

\* One version of the ChaosBlade object.  exps is Status.ExpStatuses, of which
\* only the resource statuses are ever read again; pre is the specification
\* kept in the "preSpec" annotation; fin says whether the operator's finalizer
\* is present and dt whether the deletion timestamp is set.
Object == [live  : BOOLEAN,
           rv    : Nat,
           spec  : Specs \cup {NoSpec},
           pre   : Specs \cup {NoSpec},
           fin   : BOOLEAN,
           dt    : BOOLEAN,
           phase : Phases,
           exps  : Seq(SUBSET ResStatus)]

NoBlade == [live |-> FALSE, rv |-> 0, spec |-> NoSpec, pre |-> NoSpec,
            fin |-> FALSE, dt |-> FALSE, phase |-> "Initial", exps |-> <<>>]

\* A fault injected in the cluster and the specification that asked for it.
Fault == [id : Nat, spec : Specs \cup {NoSpec}]

\* One call of Reconcile: its program counter, its copy cb of the object, the
\* specification the experiments are destroyed with, the statuses collected so
\* far by the loop over the experiments, and the phase it will write.
Call == [pc    : {"idle", "create", "annotate", "destroy", "status", "addFin", "removeFin"},
         cb    : Object,
         with  : Specs \cup {NoSpec},
         out   : Seq(SUBSET ResStatus),
         phase : Phases]

Idle == [pc |-> "idle", cb |-> NoBlade, with |-> NoSpec, out |-> <<>>,
         phase |-> "Initial"]

\* The causes that can separate what runs in the cluster from what the object
\* records: a status write that was lost together with the identifiers of the
\* faults just created, a create command whose reply was lost, a destroy that
\* failed or did nothing, an experiment destroyed with another specification
\* than its own or not at all, a timeout watcher or the clean-up loop ending
\* the blade while faults are left, the clean-up loop patching, by name, a blade
\* created after the one it has selected.
Causes == {"createLost", "noReply", "destroyFailed", "specMismatch",
           "watcherMarked", "cleaned", "nameReused"}

Budget == [creates : Nat, edits : Nat, touches : Nat, crashes : Nat]

VARIABLES
    server,    \* the object held by the API server (NoBlade when there is none)
    rv,        \* last resource version given out
    watch,     \* versions sent by the API server, not yet in the cache
    cache,     \* the informer's copy
    notes,     \* <<old, new>> notifications the event handler has not seen
    queued,    \* is the blade's name in the work queue?
    rec,       \* the call of Reconcile in progress
    active,    \* the faults in effect in the cluster
    nextId,    \* number of experiment identifiers given out
    watchers,  \* checkExperimentStatus goroutines: sets of watched identifiers
    doomed,    \* has the clean-up loop selected the blade?
    left,      \* what remains of the environment's budgets
    trouble    \* causes of divergence met so far (history variable)

vars == <<server, rv, watch, cache, notes, queued, rec, active, nextId,
          watchers, doomed, left, trouble>>

informer  == <<watch, cache, notes>>
operator  == <<cache, notes, queued, rec, watchers, doomed>>
cluster   == <<active, nextId>>

Note == [old : Object, new : Object]

TypeOK ==
    /\ server \in Object
    /\ rv \in Nat
    /\ watch \in Seq(Object)
    /\ cache \in Object
    /\ notes \in Seq(Note)
    /\ queued \in BOOLEAN
    /\ rec \in Call
    /\ active \in SUBSET Fault
    /\ nextId \in Nat
    /\ watchers \in SUBSET (SUBSET Nat)
    /\ doomed \in BOOLEAN
    /\ left \in Budget
    /\ trouble \in SUBSET Causes

Init ==
    /\ server = NoBlade
    /\ rv = 0
    /\ watch = <<>>
    /\ cache = NoBlade
    /\ notes = <<>>
    /\ queued = FALSE
    /\ rec = Idle
    /\ active = {}
    /\ nextId = 0
    /\ watchers = {}
    /\ doomed = FALSE
    /\ left = [creates |-> MaxCreates, edits |-> MaxEdits,
               touches |-> MaxTouches, crashes |-> MaxCrashes]
    /\ trouble = {}

-----------------------------------------------------------------------------
(***************************************************************************)
(* The API server.                                                         *)
(***************************************************************************)

\* Store obj: a write that changes nothing gives out no new version and sends
\* no event; an object with a deletion timestamp and no finalizer disappears.
Put(obj) ==
    IF obj = server
    THEN UNCHANGED <<server, rv, watch>>
    ELSE LET new == IF obj.dt /\ ~obj.fin THEN NoBlade
                    ELSE [obj EXCEPT !.rv = rv + 1]
         IN  /\ server' = new
             /\ rv' = rv + 1
             /\ watch' = Append(watch, new)

\* Mutant: the update carries no resource version.
CurrentByName(cb) == server.live

\* An update made from the copy cb passes the optimistic concurrency check.
Current(cb) == server.live /\ cb.rv = server.rv

\* A delete call: without finalizers the object goes at once.
Delete == Put([server EXCEPT !.dt = TRUE])

-----------------------------------------------------------------------------
(***************************************************************************)
(* Users of the cluster.                                                   *)
(***************************************************************************)

CreateBlade(s) ==
    /\ ~server.live
    /\ left.creates > 0
    /\ Put([NoBlade EXCEPT !.live = TRUE, !.spec = s])
    /\ left' = [left EXCEPT !.creates = @ - 1]
    /\ trouble' = IF doomed THEN trouble \cup {"nameReused"} ELSE trouble
    /\ UNCHANGED <<operator, cluster>>

EditSpec(s) ==
    /\ server.live
    /\ s # server.spec
    /\ left.edits > 0
    /\ Put([server EXCEPT !.spec = s])
    /\ left' = [left EXCEPT !.edits = @ - 1]
    /\ UNCHANGED <<operator, cluster, trouble>>

\* A label or another annotation changes: a new version, nothing the operator reads.
Touch ==
    /\ server.live
    /\ left.touches > 0
    /\ rv' = rv + 1
    /\ server' = [server EXCEPT !.rv = rv + 1]
    /\ watch' = Append(watch, server')
    /\ left' = [left EXCEPT !.touches = @ - 1]
    /\ UNCHANGED <<operator, cluster, trouble>>

DeleteBlade ==
    /\ server.live
    /\ ~server.dt
    /\ Delete
    /\ UNCHANGED <<operator, cluster, left, trouble>>

-----------------------------------------------------------------------------
(***************************************************************************)
(* The informer: watch events reach the cache, then the event handler.     *)
(***************************************************************************)

\* The cache takes the version obj; the handler is told of the change.  When
\* the object is gone the handler is given its last state known, obj for an
\* event of the watch and the cached copy after a new list.
Learn(obj, gone) ==
    /\ cache' = obj
    /\ notes' = IF cache.live \/ obj.live
                THEN Append(notes, [old |-> cache,
                                    new |-> IF obj.live THEN obj ELSE gone])
                ELSE notes

Deliver ==
    /\ watch # <<>>
    /\ watch' = Tail(watch)
    /\ Learn(Head(watch), NoBlade)
    /\ UNCHANGED <<server, rv, queued, rec, cluster, watchers, left, trouble, doomed>>

\* The watch breaks and the informer lists again: intermediate versions are skipped.
Relist ==
    /\ Len(watch) > 1
    /\ watch' = <<>>
    /\ Learn(server, [cache EXCEPT !.live = FALSE])
    /\ UNCHANGED <<server, rv, queued, rec, cluster, watchers, left, trouble, doomed>>

\* The periodic resync hands the cached object to the handler once more.
Resync ==
    /\ cache.live
    /\ notes = <<>>
    /\ notes' = <<[old |-> cache, new |-> cache]>>
    /\ UNCHANGED <<server, rv, watch, cache, queued, rec, cluster, watchers, left, trouble, doomed>>

-----------------------------------------------------------------------------
(***************************************************************************)
(* The predicates of SpecUpdatedPredicateForRunningPhase.                  *)
(***************************************************************************)

CreatePredicate(obj) == ~obj.dt /\ obj.phase = "Initial"

DeletePredicate(obj) == obj.fin

SpecChanged(old, new) == new.spec # old.spec

\* Mutant: the event that asks for the deletion is filtered like the others.
UpdateIgnoresDeletion(old, new) ==
    \/ SpecChanged(old, new)
    \/ new.phase = "Initial"
    \/ /\ new.phase \notin {"Running", "Error", "Destroying"}
       /\ new.phase # old.phase

UpdatePredicate(old, new) ==
    \/ SpecChanged(old, new)
    \/ new.phase = "Initial"
    \/ ~old.dt /\ new.dt
    \/ /\ new.phase \notin {"Running", "Error", "Destroying"}
       /\ \/ new.phase # old.phase
          \/ new.exps # old.exps
          \/ new.dt /\ new.fin

Passes(old, new) ==
    IF ~old.live THEN CreatePredicate(new)
    ELSE IF ~new.live THEN DeletePredicate(new)
    ELSE UpdatePredicate(old, new)

\* Mutant: the previous specification is not annotated.
HandleForgets ==
    /\ notes # <<>>
    /\ notes' = Tail(notes)
    /\ queued' = (queued \/ Passes(Head(notes).old, Head(notes).new))
    /\ UNCHANGED <<server, rv, watch, cache, rec, cluster, watchers, left, trouble, doomed>>

\* The handler of the oldest notification.  Update stores the previous
\* specification in the annotations of the object it is handed, which is the
\* cached object itself unless the cache holds a later version by then.
Handle ==
    /\ notes # <<>>
    /\ notes' = Tail(notes)
    /\ LET old == Head(notes).old
           new == Head(notes).new
       IN  /\ queued' = (queued \/ Passes(old, new))
           /\ cache' = IF /\ old.live /\ new.live /\ SpecChanged(old, new)
                          /\ cache.live /\ cache.rv = new.rv
                       THEN [cache EXCEPT !.pre = old.spec]
                       ELSE cache
    /\ UNCHANGED <<server, rv, watch, rec, cluster, watchers, left, trouble, doomed>>

-----------------------------------------------------------------------------
(***************************************************************************)
(* Reconcile.                                                              *)
(***************************************************************************)

Call0(pc, with, out, phase) ==
    [pc |-> pc, cb |-> cache, with |-> with, out |-> out, phase |-> phase]

\* Mutants: the destroy loop is skipped; a phase no constant names.
FinalizeSkips(cb) == Call0("status", cb.spec, cb.exps, "Destroyed")
FinalizeTypo(cb)  == Call0("status", cb.spec, cb.exps, "Finalized")

\* The loop of finalizeChaosBlade runs only when there are as many statuses
\* as experiments; otherwise nothing is destroyed and the phase is Destroyed.
Finalize(cb) ==
    IF Size[cb.spec] = Len(cb.exps)
    THEN Call0("destroy", cb.spec, <<>>, "Destroyed")
    ELSE Call0("status", NoSpec, cb.exps, "Destroyed")

\* Mutants: the finalizer is left out; a blade that is running is created again.
ForwardUnheld(cb) ==
    IF cb.phase = "Initial" THEN Call0("status", NoSpec, <<>>, "Initialized")
    ELSE IF cb.phase \in {"Initialized", "Updating"}
    THEN Call0("create", NoSpec, <<>>, "Error")
    ELSE Idle
ForwardAgain(cb) ==
    IF cb.phase = "Initial"
    THEN IF cb.fin THEN Call0("status", NoSpec, <<>>, "Initialized")
                   ELSE Call0("addFin", NoSpec, <<>>, cb.phase)
    ELSE Call0("create", NoSpec, <<>>, "Error")

\* A blade that is not ending: Initial -> Initialized -> Running/Error, and
\* Running/Error -> Updating when an earlier specification is annotated.
Forward(cb) ==
    IF cb.phase = "Initial"
    THEN IF cb.fin THEN Call0("status", NoSpec, <<>>, "Initialized")
                   ELSE Call0("addFin", NoSpec, <<>>, cb.phase)
    ELSE IF cb.phase \in {"Initialized", "Updating"}
    THEN Call0("create", NoSpec, <<>>, "Error")
    ELSE IF cb.pre # NoSpec
    THEN Call0("annotate", cb.pre, <<>>, "Updating")
    ELSE Idle

DropFinalizer(cb) == Call0("removeFin", NoSpec, <<>>, cb.phase)

\* Mutants: the finalizer goes as soon as the deletion is asked for; phase
\* Destroyed is no longer singled out.
BranchEager(cb) ==
    IF ~cb.live THEN Idle
    ELSE IF cb.dt \/ cb.phase = "Destroyed" THEN DropFinalizer(cb)
    ELSE Forward(cb)
BranchRevive(cb) ==
    IF ~cb.live THEN Idle
    ELSE IF cb.phase = "Destroying" \/ cb.dt THEN Finalize(cb)
    ELSE Forward(cb)

\* The branch of Reconcile that the copy cb of the cached object selects.
Branch(cb) ==
    IF ~cb.live THEN Idle
    ELSE IF Size[cb.spec] = 0 THEN Idle
    ELSE IF cb.phase = "Destroyed" THEN DropFinalizer(cb)
    ELSE IF cb.phase = "Destroying" \/ cb.dt THEN Finalize(cb)
    ELSE Forward(cb)

Reconcile ==
    /\ queued
    /\ rec.pc = "idle"
    /\ queued' = FALSE
    /\ rec' = Branch(cache)
    /\ UNCHANGED <<server, rv, informer, cluster, watchers, left, trouble, doomed>>

\* The call ends; every branch returns without asking to be run again.
Return == rec' = Idle

OkIds(exps) == UNION {{r.id : r \in {x \in exps[i] : x.ok}} : i \in 1 .. Len(exps)}

\* The faults whose identifiers only this call of Reconcile knows.
Unrecorded == {f \in active : f.id \in OkIds(rec.out) \ OkIds(server.exps)}

\* The call ends without its result being stored.
Lose ==
    trouble' = IF rec.pc \in {"create", "status"} /\ Unrecorded # {}
               THEN trouble \cup {"createLost"} ELSE trouble

\* The loop over the experiments has collected out: the next experiment, or
\* the status write when this was the last of n.
Advance(out, n, phase) ==
    rec' = [rec EXCEPT !.out = out, !.phase = phase,
                       !.pc = IF Len(out) < n THEN rec.pc ELSE "status"]

\* Create of one experiment: the outcome of selecting its resources and of
\* running the create command for each of them.  made are the resources whose
\* fault is in effect, ok those whose command was reported successful; done is
\* the experiment's Success flag.  Without resources the flag depends on which
\* step came up empty; with several, a missing pod can reset it to true after
\* another resource has failed (see module ParallelExec).
Create(ids, made, ok, done) ==
    /\ IF ExecFaults THEN ids # {} => /\ ok = ids => done
                                      /\ done => ok = ids \/ Cardinality(ids) > 1
                     ELSE ids # {} /\ ok = ids /\ done
    /\ active' = active \cup {[id |-> i, spec |-> rec.cb.spec] : i \in made}
    /\ trouble' = IF made # ok THEN trouble \cup {"noReply"} ELSE trouble
    /\ watchers' = IF rec.cb.spec \in Timed /\ ids # {}
                   THEN watchers \cup {ok} ELSE watchers
    /\ Advance(Append(rec.out, {[id |-> i, ok |-> i \in ok] : i \in ids}),
               Size[rec.cb.spec],
               IF done THEN "Running" ELSE rec.phase)

CreateExperiment ==
    /\ rec.pc = "create"
    /\ \E n \in 0 .. MaxRes :
         /\ nextId' = nextId + n
         /\ \E made \in SUBSET ((nextId + 1) .. (nextId + n)) :
              \E ok \in SUBSET made, done \in BOOLEAN :
                Create((nextId + 1) .. (nextId + n), made, ok, done)
    /\ UNCHANGED <<server, rv, informer, queued, left, doomed>>

\* Mutant: the experiments are not destroyed before they are created anew.
AnnotateSkips ==
    /\ rec.pc = "annotate"
    /\ Current(rec.cb)
    /\ Put([server EXCEPT !.pre = rec.cb.pre])
    /\ rec' = [rec EXCEPT !.cb = server', !.out = rec.cb.exps, !.pc = "status"]
    /\ UNCHANGED <<cache, notes, queued, cluster, watchers, left, trouble, doomed>>

\* Update(cb) that keeps the preSpec annotation; whatever its result the call
\* goes on, with the object of the reply when there is one.
Annotate ==
    /\ rec.pc = "annotate"
    /\ LET next(cb) == [rec EXCEPT !.cb = cb,
                                   !.pc = IF cb.exps = <<>> THEN "status" ELSE "destroy"]
           stored == [server EXCEPT !.pre = rec.cb.pre]
       IN \/ /\ Current(rec.cb)
             /\ Put(stored)
             /\ rec' = next(server')
          \/ /\ Current(rec.cb) /\ ApiFaults
             /\ Put(stored)
             /\ rec' = next(rec.cb)
          \/ /\ ~Current(rec.cb) \/ ApiFaults
             /\ rec' = next(rec.cb)
             /\ UNCHANGED <<server, rv, watch>>
    /\ UNCHANGED <<cache, notes, queued, cluster, watchers, left, trouble, doomed>>

\* Destroy of the next experiment with the specification rec.with: only the
\* resources recorded as successful are destroyed.  stopped are the faults that
\* really end, failed the resources whose destroy command reports a failure.
\* A failure need not reach the experiment's Success flag, done: a missing pod
\* can reset it, and the pod-io action reports success whatever happened.
\* When the commands cannot be built at all (lost) the experiment has failed
\* and its resource statuses are gone.  What a command built from another
\* specification than the fault's own does is left open.
Destroy(ids, mine, stopped, failed, lost, done) ==
    LET wrong == {f \in mine : f.spec # rec.with}
    IN  /\ ~ExecFaults => /\ ~lost
                          /\ mine \ stopped \subseteq wrong
                          /\ failed \subseteq {f.id : f \in wrong}
        /\ lost => stopped = {} /\ failed = ids /\ ~done
        /\ ~lost /\ failed = {} => done
        /\ active' = active \ stopped
        /\ trouble' = trouble
             \cup (IF mine \ stopped \subseteq wrong THEN {} ELSE {"destroyFailed"})
             \cup (IF wrong = {} THEN {} ELSE {"specMismatch"})
        /\ Advance(Append(rec.out, IF lost THEN {}
                                   ELSE {[id |-> i, ok |-> i \notin failed] : i \in ids}),
                   Len(rec.cb.exps),
                   IF done THEN rec.phase ELSE "Destroying")

DestroyExperiment ==
    /\ rec.pc = "destroy"
    /\ Len(rec.out) < Size[rec.with]
    /\ LET ids  == {r.id : r \in {x \in rec.cb.exps[Len(rec.out) + 1] : x.ok}}
           mine == {f \in active : f.id \in ids}
       IN \E stopped \in SUBSET mine, failed \in SUBSET ids, lost, done \in BOOLEAN :
            Destroy(ids, mine, stopped, failed, lost, done)
    /\ UNCHANGED <<server, rv, informer, queued, nextId, watchers, left, doomed>>

\* oldSpec.Experiments[idx] is out of range: Reconcile panics, the controller
\* recovers and puts the request back in the queue.
DestroyPanic ==
    /\ rec.pc = "destroy"
    /\ Len(rec.out) >= Size[rec.with]
    /\ Return
    /\ queued' = TRUE
    /\ UNCHANGED <<server, rv, informer, cluster, watchers, left, trouble, doomed>>

\* Status().Update(cb): only the status is stored.  When the phase becomes
\* Destroyed without a destroy loop over all that is recorded, faults are left.
WriteStatus ==
    /\ rec.pc = "status"
    /\ \/ /\ Current(rec.cb)
          /\ Put([server EXCEPT !.phase = rec.phase, !.exps = rec.out])
          /\ trouble' = IF /\ rec.phase = "Destroyed" /\ rec.with = NoSpec
                           /\ \E f \in active : f.id \in OkIds(rec.out)
                        THEN trouble \cup {"specMismatch"} ELSE trouble
       \/ /\ ~Current(rec.cb) \/ ApiFaults
          /\ Lose
          /\ UNCHANGED <<server, rv, watch>>
    /\ Return
    /\ UNCHANGED <<cache, notes, queued, cluster, watchers, left, doomed>>

\* Update(cb) with the finalizer added or removed; the annotations of the
\* cached copy go with it.
WriteFinalizer ==
    /\ rec.pc \in {"addFin", "removeFin"}
    /\ \/ /\ Current(rec.cb)
          /\ Put([server EXCEPT !.fin = (rec.pc = "addFin"), !.pre = rec.cb.pre])
       \/ /\ ~Current(rec.cb) \/ ApiFaults
          /\ UNCHANGED <<server, rv, watch>>
    /\ Return
    /\ UNCHANGED <<cache, notes, queued, cluster, watchers, left, trouble, doomed>>

-----------------------------------------------------------------------------
(***************************************************************************)
(* The clean-up loop, the timeout watchers, expiry and restarts.           *)
(***************************************************************************)

\* Mutants: the phase is not looked at; the wrong phase is looked for.
CleanUpListAny ==
    /\ ~doomed
    /\ cache.live /\ cache.dt
    /\ doomed' = TRUE
    /\ UNCHANGED <<server, rv, informer, queued, rec, cluster, watchers, left, trouble>>
CleanUpListOther == CleanUpListAny /\ cache.phase = "Destroyed"

\* periodicallyCleanUpBlade lists the cached objects: one whose deletion has
\* been pending for the interval and whose destroy has failed is selected.  The
\* cache may be late: the name may belong to another blade already.
CleanUpList ==
    /\ ~doomed
    /\ cache.live /\ cache.dt /\ cache.phase = "Destroying"
    /\ doomed' = TRUE
    /\ trouble' = IF server.live /\ ~(server.dt /\ server.phase \in {"Destroying", "Destroyed"})
                  THEN trouble \cup {"nameReused"} ELSE trouble
    /\ UNCHANGED <<server, rv, informer, queued, rec, cluster, watchers, left>>

\* The patch of a selected item: by name, with no resource version.
CleanUpPatch ==
    /\ doomed
    /\ doomed' = FALSE
    /\ \/ /\ server.live
          /\ Put([server EXCEPT !.fin = FALSE])
          /\ trouble' = IF active = {} /\ server.dt THEN trouble
                        ELSE trouble \cup {"cleaned"}
       \/ /\ ~server.live \/ ApiFaults
          /\ UNCHANGED <<server, rv, watch, trouble>>
    /\ UNCHANGED <<cache, notes, queued, rec, cluster, watchers, left>>

\* checkExperimentStatus: the identifiers w are all destroyed; the blade of
\* that name in the cache is marked Destroyed, on a later tick it is deleted.
Expired(w) == \A f \in active : f.id \notin w

WatcherMarks(w) ==
    /\ w \in watchers
    /\ Expired(w)
    /\ cache.live
    /\ cache.phase # "Destroyed"
    /\ Current(cache)
    /\ Put([server EXCEPT !.phase = "Destroyed"])
    /\ trouble' = IF active = {} THEN trouble ELSE trouble \cup {"watcherMarked"}
    /\ UNCHANGED <<operator, cluster, left>>

WatcherDeletes(w) ==
    /\ w \in watchers
    /\ Expired(w)
    /\ cache.live
    /\ cache.phase = "Destroyed"
    /\ server.live
    /\ Delete
    /\ watchers' = watchers \ {w}
    /\ UNCHANGED <<cache, notes, queued, rec, cluster, left, trouble, doomed>>

\* The 30 seconds of the watcher's context are over.
WatcherGivesUp(w) ==
    /\ w \in watchers
    /\ watchers' = watchers \ {w}
    /\ UNCHANGED <<server, rv, informer, queued, rec, cluster, left, trouble, doomed>>

\* The chaosblade tool ends a fault whose timeout is over by itself.
FaultTimeout(f) ==
    /\ f \in active
    /\ f.spec \in Timed
    /\ active' = active \ {f}
    /\ UNCHANGED <<server, rv, informer, queued, rec, nextId, watchers, left, trouble, doomed>>

\* The operator stops anywhere and starts again with an empty cache, an empty
\* queue and no watchers; the informer lists the object that is there.
Restart ==
    /\ left.crashes > 0
    /\ left' = [left EXCEPT !.crashes = @ - 1]
    /\ Lose
    /\ watch' = IF server.live THEN <<server>> ELSE <<>>
    /\ cache' = NoBlade
    /\ notes' = <<>>
    /\ queued' = FALSE
    /\ rec' = Idle
    /\ watchers' = {}
    /\ doomed' = FALSE
    /\ UNCHANGED <<server, rv, cluster>>

-----------------------------------------------------------------------------
User == \/ \E s \in Specs : CreateBlade(s) \/ EditSpec(s)
        \/ Touch
        \/ DeleteBlade

Informer == Deliver \/ Relist \/ Resync \/ Handle

Reconciler == \/ Reconcile \/ CreateExperiment \/ Annotate
              \/ DestroyExperiment \/ DestroyPanic
              \/ WriteStatus \/ WriteFinalizer

CleanUp == CleanUpList \/ CleanUpPatch

Watcher == \E w \in watchers : WatcherMarks(w) \/ WatcherDeletes(w) \/ WatcherGivesUp(w)

Expiry == \E f \in active : FaultTimeout(f)

Next == User \/ Informer \/ Reconciler \/ CleanUp \/ Watcher \/ Expiry \/ Restart

Spec == Init /\ [][Next]_vars

\* The informer and the handler goroutine keep running, the worker takes what
\* is queued and every call of Reconcile returns, the clean-up ticker ticks.
Fairness ==
    /\ WF_vars(Deliver)
    /\ WF_vars(Handle)
    /\ WF_vars(Reconciler)
    /\ WF_vars(CleanUp)

FairSpec == Spec /\ Fairness

-----------------------------------------------------------------------------
(***************************************************************************)
(* Properties.                                                             *)
(***************************************************************************)

\* Once the object is gone and no call of Reconcile is under way, no fault of
\* the blade is left in the cluster, unless one of Causes has been met.
CleanRemoval ==
    trouble = {} /\ ~server.live /\ rec.pc = "idle" => active = {}

\* A blade in phase Destroyed has no recorded fault in effect, unless one of
\* Causes has been met: the finalizer of such a blade is dropped unseen.
DestroyedMeansStopped ==
    trouble = {} /\ server.phase = "Destroyed"
        => \A f \in active : f.id \notin OkIds(server.exps)

\* "firstly destroy it and re-create": while experiments are being created
\* from the current version of the object, the only faults in effect are those
\* this call has made, unless one of Causes has been met.
NoOverlap ==
    trouble = {} /\ rec.pc = "create" /\ Current(rec.cb)
        => \A f \in active : f.id \in OkIds(rec.out)

\* No step takes an object out of phase Destroyed, whatever a slower reconciler
\* or watcher still holds in its hands.
DestroyedIsFinal ==
    [][server.live /\ server'.live /\ server.phase = "Destroyed"
         => server'.phase = "Destroyed"]_vars

\* Whoever but the clean-up loop drops the finalizer - Reconcile from a copy that
\* may be old, of this object or of an earlier one of that name - drops it from
\* a blade that the API server holds as Destroyed.
ReconcileKeepsFinalizer ==
    [][server.live /\ server.fin /\ ~server'.fin /\ ~CleanUpPatch
         => server.phase = "Destroyed"]_vars

\* A deletion that has been asked for is carried out.
DeletionCompletes == server.dt ~> ~server.live

\* The specification stored last is the one whose faults are in effect in the
\* end, unless the blade is deleted, its creation failed or one of Causes has
\* been met.
SpecTakesEffect ==
    \A s \in Specs :
        server.live /\ server.spec = s
            ~> \/ server.spec # s
               \/ server.dt
               \/ server.phase = "Error"
               \/ trouble # {}
               \/ server.phase = "Running" /\ \E f \in active : f.spec = s

\* README: deleting the blade stops the experiment.
DeletedMeansStopped == ~server.live /\ rec.pc = "idle" => active = {}

=============================================================================
