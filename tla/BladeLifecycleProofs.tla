------------------------ MODULE BladeLifecycleProofs ------------------------
(***************************************************************************)
(* Theorems about BladeLifecycle, for every value of its constants.        *)
(***************************************************************************)
EXTENDS BladeLifecycle, TLAPS

-----------------------------------------------------------------------------
(***************************************************************************)
(* Type correctness.                                                       *)
(***************************************************************************)

USE SpecsAssumption, SizeAssumption, BoundsAssumption, FaultsAssumption

\* The constant records have their types.
LEMMA ConstantsType ==
    /\ NoBlade \in Object
    /\ Idle \in Call
BY DEF NoBlade, Object, Phases, Idle, Call

\* An object with another version is an object.
LEMMA VersionType ==
    ASSUME NEW o \in Object, NEW n \in Nat
    PROVE  [o EXCEPT !.rv = n] \in Object
BY DEF Object

\* A write to the API server keeps the types of the object, of the version
\* counter and of the watch stream.
LEMMA PutType ==
    ASSUME TypeOK, NEW obj \in Object, Put(obj)
    PROVE  server' \in Object /\ rv' \in Nat /\ watch' \in Seq(Object)
<1>1. CASE obj = server
    BY <1>1 DEF Put, TypeOK
<1>2. CASE obj # server
    <2> DEFINE new == IF obj.dt /\ ~obj.fin THEN NoBlade ELSE [obj EXCEPT !.rv = rv + 1]
    <2>1. server' = new /\ rv' = rv + 1 /\ watch' = Append(watch, new)
        BY <1>2 DEF Put
    <2>2. rv \in Nat /\ watch \in Seq(Object)
        BY DEF TypeOK
    <2>3. new \in Object
        <3>1. [obj EXCEPT !.rv = rv + 1] \in Object
            <4>1. rv + 1 \in Nat
                BY <2>2
            <4> QED BY <4>1, VersionType, Zenon
        <3>2. NoBlade \in Object
            BY ConstantsType
        <3> QED BY <3>1, <3>2, Zenon
    <2> HIDE DEF new
    <2> QED BY <2>1, <2>2, <2>3
<1> QED BY <1>1, <1>2

\* A delete call, an edit and the other writes start from the server's object.
LEMMA ServerFields ==
    ASSUME TypeOK
    PROVE  /\ [server EXCEPT !.dt = TRUE] \in Object
           /\ [server EXCEPT !.fin = FALSE] \in Object
           /\ \A s \in Specs : [server EXCEPT !.spec = s] \in Object
           /\ \A p \in Phases : [server EXCEPT !.phase = p] \in Object
           /\ \A p \in Phases, x \in Seq(SUBSET ResStatus) :
                 [server EXCEPT !.phase = p, !.exps = x] \in Object
           /\ \A b \in BOOLEAN, s \in Specs \cup {NoSpec} :
                 [server EXCEPT !.fin = b, !.pre = s] \in Object
           /\ \A s \in Specs \cup {NoSpec} : [server EXCEPT !.pre = s] \in Object
           /\ \A n \in Nat : [server EXCEPT !.rv = n] \in Object
           /\ \A s \in Specs : [NoBlade EXCEPT !.live = TRUE, !.spec = s] \in Object
BY ConstantsType DEF TypeOK, Object

\* The branch that Reconcile selects is a call.
LEMMA BranchType ==
    ASSUME TypeOK
    PROVE  Branch(cache) \in Call
<1>1. cache \in Object /\ Idle \in Call
    BY ConstantsType DEF TypeOK
<1>2. \A pc \in {"create", "annotate", "destroy", "status", "addFin", "removeFin"},
         with \in Specs \cup {NoSpec}, out \in Seq(SUBSET ResStatus), phase \in Phases :
            Call0(pc, with, out, phase) \in Call
    BY <1>1 DEF Call0, Call
<1>3. /\ cache.spec \in Specs \cup {NoSpec} /\ cache.pre \in Specs \cup {NoSpec}
      /\ cache.exps \in Seq(SUBSET ResStatus) /\ cache.phase \in Phases
      /\ <<>> \in Seq(SUBSET ResStatus)
    BY <1>1 DEF Object
<1>4. {"Destroyed", "Initialized", "Error", "Updating"} \subseteq Phases
    BY DEF Phases
<1>5. Finalize(cache) \in Call
    BY <1>2, <1>3, <1>4 DEF Finalize
<1>6. Forward(cache) \in Call
    BY <1>1, <1>2, <1>3, <1>4 DEF Forward
<1>7. DropFinalizer(cache) \in Call
    BY <1>2, <1>3 DEF DropFinalizer
<1> QED BY <1>1, <1>5, <1>6, <1>7 DEF Branch

\* The loop over the experiments keeps the type of the call.
LEMMA AdvanceType ==
    ASSUME TypeOK, NEW x \in SUBSET ResStatus, NEW n, NEW phase \in Phases,
           Advance(Append(rec.out, x), n, phase)
    PROVE  rec' \in Call
<1> DEFINE pc == IF Len(Append(rec.out, x)) < n THEN rec.pc ELSE "status"
<1>1. rec \in Call
    BY DEF TypeOK
<1>2. Append(rec.out, x) \in Seq(SUBSET ResStatus)
    BY <1>1 DEF Call
<1>3. pc \in {"idle", "create", "annotate", "destroy", "status", "addFin", "removeFin"}
    BY <1>1 DEF Call
<1>4. rec' = [rec EXCEPT !.out = Append(rec.out, x), !.phase = phase, !.pc = pc]
    BY DEF Advance
<1> HIDE DEF pc
<1> QED BY <1>1, <1>2, <1>3, <1>4 DEF Call

\* The actions of the users and of the informer keep the types.
LEMMA UserInformerType ==
    ASSUME TypeOK, User \/ Informer
    PROVE  TypeOK'
<1>1. ASSUME NEW s \in Specs, CreateBlade(s) PROVE TypeOK'
    <2>1. Put([NoBlade EXCEPT !.live = TRUE, !.spec = s])
        BY <1>1 DEF CreateBlade
    <2>2. server' \in Object /\ rv' \in Nat /\ watch' \in Seq(Object)
        BY <2>1, PutType, ServerFields
    <2>4. left' \in Budget
        <3>1. left \in Budget
            BY DEF TypeOK
        <3> QED BY <1>1, <3>1 DEF CreateBlade, Budget
    <2>5. trouble' \in SUBSET Causes
        BY <1>1 DEF CreateBlade, TypeOK, Causes
    <2> QED BY <1>1, <2>2, <2>4, <2>5 DEF CreateBlade, TypeOK, operator, cluster
<1>2. ASSUME NEW s \in Specs, EditSpec(s) PROVE TypeOK'
    <2>1. Put([server EXCEPT !.spec = s])
        BY <1>2 DEF EditSpec
    <2>2. server' \in Object /\ rv' \in Nat /\ watch' \in Seq(Object)
        BY <2>1, PutType, ServerFields
    <2>4. left' \in Budget
        <3>1. left \in Budget
            BY DEF TypeOK
        <3> QED BY <1>2, <3>1 DEF EditSpec, Budget
    <2> QED BY <1>2, <2>2, <2>4 DEF EditSpec, TypeOK, operator, cluster
<1>3. CASE Touch
    <2>1. rv' \in Nat
        BY <1>3 DEF Touch, TypeOK
    <2>2. server' \in Object
        <3>1. server' = [server EXCEPT !.rv = rv']
            BY <1>3 DEF Touch
        <3> QED BY <2>1, <3>1, ServerFields, Zenon
    <2>3. watch' \in Seq(Object)
        BY <1>3, <2>2 DEF Touch, TypeOK
    <2>4. left' \in Budget
        <3>1. left \in Budget
            BY DEF TypeOK
        <3>2. left.touches > 0 /\ left' = [left EXCEPT !.touches = left.touches - 1]
            BY <1>3 DEF Touch
        <3> QED BY <3>1, <3>2 DEF Budget
    <2> QED BY <1>3, <2>1, <2>2, <2>3, <2>4 DEF Touch, TypeOK, operator, cluster
<1>4. CASE DeleteBlade
    <2>1. Put([server EXCEPT !.dt = TRUE])
        BY <1>4 DEF DeleteBlade, Delete
    <2>2. server' \in Object /\ rv' \in Nat /\ watch' \in Seq(Object)
        BY <2>1, PutType, ServerFields
    <2> QED BY <1>4, <2>2 DEF DeleteBlade, TypeOK, operator, cluster
<1>5. ASSUME NEW obj \in Object, NEW gone \in Object, Learn(obj, gone)
      PROVE  cache' \in Object /\ notes' \in Seq(Note)
    <2> DEFINE new == IF obj.live THEN obj ELSE gone
    <2>1. cache \in Object /\ notes \in Seq(Note)
        BY DEF TypeOK
    <2>2. new \in Object
        BY <1>5
    <2> HIDE DEF new
    <2>3. [old |-> cache, new |-> new] \in Note
        BY <2>1, <2>2 DEF Note
    <2>4. Append(notes, [old |-> cache, new |-> new]) \in Seq(Note)
        BY <2>1, <2>3
    <2> QED BY <1>5, <2>1, <2>4 DEF Learn, new
<1>6. CASE Deliver
    <2>1. Head(watch) \in Object /\ watch' \in Seq(Object)
        BY <1>6 DEF Deliver, TypeOK
    <2>2. cache' \in Object /\ notes' \in Seq(Note)
        BY <1>5, <1>6, <2>1, ConstantsType DEF Deliver
    <2> QED BY <1>6, <2>1, <2>2 DEF Deliver, TypeOK, cluster
<1>7. CASE Relist
    <2>1. server \in Object /\ [cache EXCEPT !.live = FALSE] \in Object
        BY DEF TypeOK, Object
    <2>2. cache' \in Object /\ notes' \in Seq(Note)
        BY <1>5, <1>7, <2>1 DEF Relist
    <2>3. watch' \in Seq(Object)
        BY <1>7 DEF Relist
    <2> QED BY <1>7, <2>2, <2>3 DEF Relist, TypeOK, cluster
<1>8. CASE Resync
    <2>1. notes' \in Seq(Note)
        BY <1>8 DEF Resync, TypeOK, Note
    <2> QED BY <1>8, <2>1 DEF Resync, TypeOK, cluster
<1>9. CASE Handle
    <2>1. Head(notes) \in Note /\ notes' \in Seq(Note)
        BY <1>9 DEF Handle, TypeOK
    <2>2. \A s \in Specs \cup {NoSpec} : [cache EXCEPT !.pre = s] \in Object
        BY DEF TypeOK, Object
    <2>3. Head(notes).old.spec \in Specs \cup {NoSpec} /\ cache \in Object
        BY <2>1 DEF Note, Object, TypeOK
    <2>4. cache' \in Object
        BY <1>9, <2>2, <2>3 DEF Handle
    <2>5. queued' \in BOOLEAN
        BY <1>9 DEF Handle
    <2> QED BY <1>9, <2>1, <2>4, <2>5 DEF Handle, TypeOK, cluster
<1> QED BY <1>1, <1>2, <1>3, <1>4, <1>6, <1>7, <1>8, <1>9 DEF User, Informer

\* While experiments are destroyed there is a status left to treat; the loop
\* has not begun while the annotation is being written.
LoopOK ==
    /\ rec.pc = "annotate" => rec.out = <<>>
    /\ rec.pc = "destroy" => Len(rec.out) < Len(rec.cb.exps)

\* The steps of Reconcile keep the types.
LEMMA ReconcilerType ==
    ASSUME TypeOK, LoopOK, Reconciler
    PROVE  TypeOK'
<1> rec \in Call /\ rec.cb \in Object /\ rec.phase \in Phases
    BY DEF TypeOK, Call
<1>1. CASE Reconcile
    <2>1. rec' \in Call
        BY <1>1, BranchType DEF Reconcile
    <2> QED BY <1>1, <2>1 DEF Reconcile, TypeOK, informer, cluster
<1>2. CASE CreateExperiment
    <2>1. PICK n \in 0 .. MaxRes :
            /\ nextId' = nextId + n
            /\ \E made \in SUBSET ((nextId + 1) .. (nextId + n)) :
                 \E ok \in SUBSET made, done \in BOOLEAN :
                   Create((nextId + 1) .. (nextId + n), made, ok, done)
        BY <1>2 DEF CreateExperiment
    <2> DEFINE ids == (nextId + 1) .. (nextId + n)
    <2>2. PICK made \in SUBSET ids, ok \in SUBSET ids, done \in BOOLEAN :
            Create(ids, made, ok, done)
        BY <2>1
    <2>3. ids \in SUBSET Nat /\ nextId' \in Nat
        BY <2>1 DEF TypeOK
    <2> HIDE DEF ids
    <2>4. rec' \in Call
        <3> DEFINE x == {[id |-> i, ok |-> i \in ok] : i \in ids}
                   phase == IF done THEN "Running" ELSE rec.phase
        <3>1. x \in SUBSET ResStatus
            <4>1. \A i \in ids : i \in Nat /\ (i \in ok) \in BOOLEAN
                BY <2>3
            <4>2. \A i \in ids : [id |-> i, ok |-> i \in ok] \in ResStatus
                BY <4>1, Zenon DEF ResStatus
            <4> QED BY <4>2, Zenon
        <3>2. phase \in Phases
            BY DEF Phases
        <3>3. Advance(Append(rec.out, x), Size[rec.cb.spec], phase)
            BY <2>2 DEF Create
        <3> HIDE DEF x, phase
        <3> QED BY <3>1, <3>2, <3>3, AdvanceType
    <2>5. active' \in SUBSET Fault
        <3>1. active' = active \cup {[id |-> i, spec |-> rec.cb.spec] : i \in made}
            BY <2>2 DEF Create
        <3>2. \A i \in made : [id |-> i, spec |-> rec.cb.spec] \in Fault
            BY <2>3 DEF Fault, Object
        <3> QED BY <3>1, <3>2 DEF TypeOK
    <2>6. watchers' \in SUBSET (SUBSET Nat)
        BY <2>2, <2>3 DEF Create, TypeOK
    <2>7. trouble' \in SUBSET Causes
        BY <2>2 DEF Create, TypeOK, Causes
    <2> QED BY <1>2, <2>3, <2>4, <2>5, <2>6, <2>7 DEF CreateExperiment, TypeOK, informer
<1>3. CASE Annotate
    <2> DEFINE next(cb) == [rec EXCEPT !.cb = cb,
                                !.pc = IF cb.exps = <<>> THEN "status" ELSE "destroy"]
               stored == [server EXCEPT !.pre = rec.cb.pre]
    <2>1. \/ Put(stored) /\ (rec' = next(server') \/ rec' = next(rec.cb))
          \/ rec' = next(rec.cb) /\ UNCHANGED <<server, rv, watch>>
        BY <1>3 DEF Annotate
    <2>2. stored \in Object
        BY ServerFields DEF Object
    <2>3. server' \in Object /\ rv' \in Nat /\ watch' \in Seq(Object)
        BY <2>1, <2>2, PutType DEF TypeOK
    <2>4. \A cb \in Object : next(cb) \in Call
        BY DEF Call
    <2>5. rec' \in Call
        BY <2>1, <2>3, <2>4
    <2> QED BY <1>3, <2>3, <2>5 DEF Annotate, TypeOK, cluster
<1>4. CASE DestroyExperiment
    <2> DEFINE ids == {r.id : r \in {x \in rec.cb.exps[Len(rec.out) + 1] : x.ok}}
               mine == {f \in active : f.id \in ids}
    <2>1. PICK stopped \in SUBSET mine, failed \in SUBSET ids, lost \in BOOLEAN,
               done \in BOOLEAN : Destroy(ids, mine, stopped, failed, lost, done)
        BY <1>4 DEF DestroyExperiment
    <2>2. ids \in SUBSET Nat
        <3>1. /\ rec.out \in Seq(SUBSET ResStatus)
              /\ rec.cb.exps \in Seq(SUBSET ResStatus)
              /\ Len(rec.out) < Len(rec.cb.exps)
            BY <1>4 DEF DestroyExperiment, LoopOK, Call, Object
        <3>2. rec.cb.exps[Len(rec.out) + 1] \in SUBSET ResStatus
            BY <3>1
        <3> QED BY <3>2 DEF ResStatus
    <2> HIDE DEF ids, mine
    <2>3. rec' \in Call
        <3> DEFINE x == IF lost THEN {} ELSE {[id |-> i, ok |-> i \notin failed] : i \in ids}
                   phase == IF done THEN rec.phase ELSE "Destroying"
        <3>1. x \in SUBSET ResStatus
            <4>1. \A i \in ids : i \in Nat /\ (i \notin failed) \in BOOLEAN
                BY <2>2
            <4>2. \A i \in ids : [id |-> i, ok |-> i \notin failed] \in ResStatus
                BY <4>1, Zenon DEF ResStatus
            <4> QED BY <4>2, Zenon
        <3>2. phase \in Phases
            BY DEF Phases
        <3>3. Advance(Append(rec.out, x), Len(rec.cb.exps), phase)
            BY <2>1 DEF Destroy
        <3> HIDE DEF x, phase
        <3> QED BY <3>1, <3>2, <3>3, AdvanceType
    <2>4. active' \in SUBSET Fault
        BY <2>1 DEF Destroy, TypeOK
    <2>5. trouble' \in SUBSET Causes
        BY <2>1 DEF Destroy, TypeOK, Causes
    <2> QED BY <1>4, <2>3, <2>4, <2>5 DEF DestroyExperiment, TypeOK, informer
<1>5. CASE DestroyPanic
    BY <1>5, ConstantsType DEF DestroyPanic, Return, TypeOK, informer, cluster
<1>6. CASE WriteStatus
    <2> DEFINE stored == [server EXCEPT !.phase = rec.phase, !.exps = rec.out]
    <2>1. stored \in Object
        BY ServerFields DEF Call
    <2>2. Put(stored) \/ UNCHANGED <<server, rv, watch>>
        BY <1>6 DEF WriteStatus
    <2>3. server' \in Object /\ rv' \in Nat /\ watch' \in Seq(Object)
        BY <2>1, <2>2, PutType DEF TypeOK
    <2>4. trouble' \in SUBSET Causes
        BY <1>6 DEF WriteStatus, Lose, Causes, TypeOK
    <2> QED BY <1>6, <2>3, <2>4, ConstantsType DEF WriteStatus, Return, TypeOK, cluster
<1>7. CASE WriteFinalizer
    <2> DEFINE stored == [server EXCEPT !.fin = (rec.pc = "addFin"), !.pre = rec.cb.pre]
    <2>1. stored \in Object
        <3>1. (rec.pc = "addFin") \in BOOLEAN /\ rec.cb.pre \in Specs \cup {NoSpec}
            BY DEF Object
        <3> QED BY <3>1, ServerFields, Zenon
    <2>2. Put(stored) \/ UNCHANGED <<server, rv, watch>>
        BY <1>7 DEF WriteFinalizer
    <2>3. server' \in Object /\ rv' \in Nat /\ watch' \in Seq(Object)
        BY <2>1, <2>2, PutType DEF TypeOK
    <2> QED BY <1>7, <2>3, ConstantsType DEF WriteFinalizer, Return, TypeOK, cluster
<1> QED BY <1>1, <1>2, <1>3, <1>4, <1>5, <1>6, <1>7 DEF Reconciler

\* The clean-up loop, the watchers, expiry and restarts keep the types.
LEMMA BackgroundType ==
    ASSUME TypeOK, CleanUp \/ Watcher \/ Expiry \/ Restart
    PROVE  TypeOK'
<1>1. CASE CleanUpList
    <2>1. trouble' \in SUBSET Causes
        BY <1>1 DEF CleanUpList, TypeOK, Causes
    <2> QED BY <1>1, <2>1 DEF CleanUpList, TypeOK, informer, cluster
<1>2. CASE CleanUpPatch
    <2>1. Put([server EXCEPT !.fin = FALSE]) \/ UNCHANGED <<server, rv, watch>>
        BY <1>2 DEF CleanUpPatch
    <2>2. server' \in Object /\ rv' \in Nat /\ watch' \in Seq(Object)
        BY <2>1, PutType, ServerFields DEF TypeOK
    <2>3. trouble' \in SUBSET Causes
        BY <1>2 DEF CleanUpPatch, TypeOK, Causes
    <2> QED BY <1>2, <2>2, <2>3 DEF CleanUpPatch, TypeOK, cluster
<1>3. ASSUME NEW w \in watchers, WatcherMarks(w) PROVE TypeOK'
    <2>1. Put([server EXCEPT !.phase = "Destroyed"])
        BY <1>3 DEF WatcherMarks
    <2>2. server' \in Object /\ rv' \in Nat /\ watch' \in Seq(Object)
        BY <2>1, PutType, ServerFields DEF Phases
    <2>3. trouble' \in SUBSET Causes
        BY <1>3 DEF WatcherMarks, TypeOK, Causes
    <2> QED BY <1>3, <2>2, <2>3 DEF WatcherMarks, TypeOK, operator, cluster
<1>4. ASSUME NEW w \in watchers, WatcherDeletes(w) PROVE TypeOK'
    <2>1. Put([server EXCEPT !.dt = TRUE])
        BY <1>4 DEF WatcherDeletes, Delete
    <2>2. server' \in Object /\ rv' \in Nat /\ watch' \in Seq(Object)
        BY <2>1, PutType, ServerFields
    <2> QED BY <1>4, <2>2 DEF WatcherDeletes, TypeOK, cluster
<1>5. ASSUME NEW w \in watchers, WatcherGivesUp(w) PROVE TypeOK'
    BY <1>5 DEF WatcherGivesUp, TypeOK, informer, cluster
<1>6. ASSUME NEW f \in active, FaultTimeout(f) PROVE TypeOK'
    BY <1>6 DEF FaultTimeout, TypeOK, informer
<1>7. CASE Restart
    <2>1. left' \in Budget
        <3>1. left \in Budget
            BY DEF TypeOK
        <3>2. left.crashes > 0 /\ left' = [left EXCEPT !.crashes = left.crashes - 1]
            BY <1>7 DEF Restart
        <3> QED BY <3>1, <3>2 DEF Budget
    <2>2. watch' \in Seq(Object)
        BY <1>7 DEF Restart, TypeOK
    <2>3. trouble' \in SUBSET Causes
        BY <1>7 DEF Restart, Lose, TypeOK, Causes
    <2>4. notes' \in Seq(Note)
        BY <1>7 DEF Restart
    <2> QED BY <1>7, <2>1, <2>2, <2>3, <2>4, ConstantsType DEF Restart, TypeOK, cluster
<1> QED BY <1>1, <1>2, <1>3, <1>4, <1>5, <1>6, <1>7 DEF CleanUp, Watcher, Expiry

-----------------------------------------------------------------------------
(***************************************************************************)
(* Optimistic concurrency: a copy with the version of the server's object  *)
(* agrees with it on everything but the preSpec annotation, which Handle   *)
(* writes into the cached copy, so that a write that passes the version    *)
(* check starts from what the server holds.                                *)
(***************************************************************************)

Fresh(c, srv, v) ==
    /\ c.rv <= v
    /\ srv.live /\ c.rv = srv.rv
         => /\ c.live /\ c.phase = srv.phase /\ c.spec = srv.spec
            /\ c.exps = srv.exps /\ c.fin = srv.fin /\ c.dt = srv.dt

\* The server's version counter is ahead of every copy, and every copy in the
\* cache, in the watch stream and in Reconcile is fresh.
Coherent ==
    /\ server.rv <= rv
    /\ server.live => server.rv = rv /\ rv > 0
    /\ Fresh(cache, server, rv)
    /\ Fresh(rec.cb, server, rv)
    /\ \A i \in 1 .. Len(watch) : Fresh(watch[i], server, rv)

\* Reconcile works on a blade that was not over when it read it, and removes
\* the finalizer of one that was.
NotOver ==
    /\ rec.pc \in {"create", "annotate", "destroy", "status"}
        => rec.cb.phase # "Destroyed"
    /\ rec.pc = "removeFin" => rec.cb.phase = "Destroyed"

IInv == TypeOK /\ LoopOK /\ Coherent /\ NotOver

\* What a write does to the copies that are around.
Kept ==
    /\ server'.rv <= rv'
    /\ server'.live => server'.rv = rv' /\ rv' > 0
    /\ \A c \in Object : Fresh(c, server, rv) => Fresh(c, server', rv')
    /\ \A i \in 1 .. Len(watch') : Fresh(watch'[i], server', rv')

\* A new version of the object leaves every copy fresh.
LEMMA StoreKeeps ==
    ASSUME TypeOK, Coherent, NEW new \in Object,
           new.rv = rv + 1 \/ new = NoBlade,
           server' = new, rv' = rv + 1, watch' = Append(watch, new)
    PROVE  Kept
<1>1. rv \in Nat /\ watch \in Seq(Object)
    BY DEF TypeOK
<1>2. new.rv <= rv + 1 /\ (new.live => new.rv = rv + 1)
    BY <1>1 DEF NoBlade
<1>3. \A c \in Object : Fresh(c, server, rv) => Fresh(c, new, rv + 1)
    BY <1>1, <1>2 DEF Fresh, Object
<1>4. \A i \in 1 .. Len(watch') : Fresh(watch'[i], new, rv + 1)
    <2> SUFFICES ASSUME NEW i \in 1 .. Len(Append(watch, new))
                 PROVE  Fresh(Append(watch, new)[i], new, rv + 1)
        OBVIOUS
    <2>1. CASE i = Len(watch) + 1
        BY <1>1, <1>2, <2>1 DEF Fresh
    <2>2. CASE i # Len(watch) + 1
        <3>1. i \in 1 .. Len(watch) /\ Append(watch, new)[i] = watch[i]
            BY <1>1, <2>2
        <3>2. watch[i] \in Object /\ Fresh(watch[i], server, rv)
            BY <1>1, <3>1 DEF Coherent
        <3> QED BY <1>3, <3>1, <3>2
    <2> QED BY <2>1, <2>2
<1> QED BY <1>1, <1>2, <1>3, <1>4 DEF Kept

\* A write through Put leaves every copy fresh and gives the server's object
\* the phase that was written, unless the object goes.
LEMMA PutKeeps ==
    ASSUME TypeOK, Coherent, NEW obj \in Object, Put(obj)
    PROVE  /\ Kept
           /\ server'.live => server'.phase = obj.phase
           /\ server'.phase = obj.phase \/ server' = NoBlade
<1>1. CASE obj = server
    <2>1. UNCHANGED <<server, rv, watch>>
        BY <1>1 DEF Put
    <2> QED BY <1>1, <2>1 DEF Kept, Coherent
<1>2. CASE obj # server
    <2> DEFINE new == IF obj.dt /\ ~obj.fin THEN NoBlade ELSE [obj EXCEPT !.rv = rv + 1]
    <2>1. server' = new /\ rv' = rv + 1 /\ watch' = Append(watch, new)
        BY <1>2 DEF Put
    <2>2. server' \in Object
        BY PutType
    <2>3. new.rv = rv + 1 \/ new = NoBlade
        BY DEF Object
    <2>4. /\ new.live => new.phase = obj.phase
          /\ new.phase = obj.phase \/ new = NoBlade
        BY DEF NoBlade, Object
    <2> HIDE DEF new
    <2> QED BY <2>1, <2>2, <2>3, <2>4, StoreKeeps
<1> QED BY <1>1, <1>2

\* Without a write everything stays as fresh as it was; the empty copy is fresh.
LEMMA IdleKeeps ==
    ASSUME TypeOK, Coherent
    PROVE  /\ UNCHANGED <<server, rv, watch>> => Kept
           /\ Kept => Fresh(NoBlade, server', rv')
<1>1. UNCHANGED <<server, rv, watch>> => Kept
    BY DEF Kept, Coherent
<1>2. Kept => Fresh(NoBlade, server', rv')
    <2> SUFFICES ASSUME Kept PROVE Fresh(NoBlade, server', rv')
        OBVIOUS
    <2>1. rv \in Nat /\ NoBlade \in Object /\ NoBlade.rv = 0
        BY ConstantsType DEF TypeOK, NoBlade
    <2>2. Fresh(NoBlade, server, rv)
        BY <2>1 DEF Coherent, Fresh
    <2> QED BY <2>1, <2>2 DEF Kept
<1> QED BY <1>1, <1>2

\* Steps that write to the server and leave the operator's copies alone.
LEMMA WriteStep ==
    ASSUME IInv, Kept, cache' = cache, rec' = rec \/ rec' = Idle
    PROVE  LoopOK' /\ Coherent' /\ NotOver'
<1>1. cache \in Object /\ rec.cb \in Object
    BY DEF IInv, TypeOK, Call
<1>2. Fresh(cache', server', rv')
    BY <1>1 DEF IInv, Coherent, Kept
<1>3. Fresh(rec.cb, server', rv') /\ Fresh(NoBlade, server', rv')
    BY <1>1, IdleKeeps DEF IInv, Coherent, Kept
<1>4. Fresh(rec'.cb, server', rv')
    BY <1>3 DEF Idle
<1>5. LoopOK' /\ NotOver'
    BY DEF IInv, LoopOK, NotOver, Idle
<1> QED BY <1>2, <1>4, <1>5 DEF Coherent, Kept

\* The writes of users, of the clean-up loop and of the watchers.
LEMMA EnvironmentWrites ==
    ASSUME IInv, User \/ CleanUp \/ Watcher
    PROVE  /\ Kept /\ cache' = cache /\ rec' = rec
           /\ server.live /\ server'.live /\ server.phase = "Destroyed"
                => server'.phase = "Destroyed"
<1> TypeOK /\ Coherent
    BY DEF IInv
<1> DEFINE Goal == /\ Kept /\ cache' = cache /\ rec' = rec
                   /\ server.live /\ server'.live /\ server.phase = "Destroyed"
                        => server'.phase = "Destroyed"
<1>1. ASSUME NEW s \in Specs, CreateBlade(s) PROVE Goal
    <2>1. Put([NoBlade EXCEPT !.live = TRUE, !.spec = s]) /\ ~server.live
        BY <1>1 DEF CreateBlade
    <2>2. Kept
        BY <2>1, PutKeeps, ServerFields
    <2> QED BY <1>1, <2>1, <2>2 DEF CreateBlade, operator
<1>2. ASSUME NEW s \in Specs, EditSpec(s) PROVE Goal
    <2>1. Put([server EXCEPT !.spec = s])
        BY <1>2 DEF EditSpec
    <2>2. Kept /\ (server'.live => server'.phase = [server EXCEPT !.spec = s].phase)
        BY <2>1, PutKeeps, ServerFields
    <2> QED BY <1>2, <2>2 DEF EditSpec, operator, TypeOK, Object
<1>3. CASE Touch
    <2>1. /\ server' = [server EXCEPT !.rv = rv + 1]
          /\ rv' = rv + 1 /\ watch' = Append(watch, server')
        BY <1>3 DEF Touch
    <2>2. server' \in Object
        BY <1>3, UserInformerType DEF User, TypeOK
    <2>3. server'.rv = rv + 1 /\ server'.phase = server.phase
        BY <2>1 DEF TypeOK, Object
    <2>4. Kept
        BY <2>1, <2>2, <2>3, StoreKeeps
    <2> QED BY <1>3, <2>3, <2>4 DEF Touch, operator
<1>4. ASSUME Delete
      PROVE  Kept /\ (server'.live => server'.phase = server.phase)
    <2>1. Put([server EXCEPT !.dt = TRUE])
        BY <1>4 DEF Delete
    <2>2. Kept /\ (server'.live => server'.phase = [server EXCEPT !.dt = TRUE].phase)
        BY <2>1, PutKeeps, ServerFields
    <2> QED BY <2>2 DEF TypeOK, Object
<1>5. CASE DeleteBlade
    BY <1>4, <1>5 DEF DeleteBlade, operator
<1>6. CASE CleanUpList
    BY <1>6, IdleKeeps DEF CleanUpList, informer
<1>7. CASE CleanUpPatch
    <2>1. CASE Put([server EXCEPT !.fin = FALSE])
        <3>1. Kept /\ (server'.live => server'.phase = [server EXCEPT !.fin = FALSE].phase)
            BY <2>1, PutKeeps, ServerFields
        <3> QED BY <1>7, <3>1 DEF CleanUpPatch, TypeOK, Object
    <2>2. CASE UNCHANGED <<server, rv, watch>>
        BY <1>7, <2>2, IdleKeeps DEF CleanUpPatch
    <2> QED BY <1>7, <2>1, <2>2 DEF CleanUpPatch
<1>8. ASSUME NEW w \in watchers, WatcherMarks(w) PROVE Goal
    <2>1. Put([server EXCEPT !.phase = "Destroyed"])
        BY <1>8 DEF WatcherMarks
    <2>2. Kept /\ (server'.live => server'.phase = [server EXCEPT !.phase = "Destroyed"].phase)
        BY <2>1, PutKeeps, ServerFields DEF Phases
    <2> QED BY <1>8, <2>2 DEF WatcherMarks, operator, TypeOK, Object
<1>9. ASSUME NEW w \in watchers, WatcherDeletes(w) PROVE Goal
    BY <1>4, <1>9 DEF WatcherDeletes
<1>10. ASSUME NEW w \in watchers, WatcherGivesUp(w) PROVE Goal
    BY <1>10, IdleKeeps DEF WatcherGivesUp, informer
<1> QED BY <1>1, <1>2, <1>3, <1>5, <1>6, <1>7, <1>8, <1>9, <1>10 DEF User, CleanUp, Watcher

\* The informer hands fresh copies on: from the stream to the cache, from the
\* server to the cache; the annotation of the cached object is no part of it.
LEMMA InformerStep ==
    ASSUME IInv, Informer
    PROVE  LoopOK' /\ Coherent' /\ NotOver' /\ server' = server
<1> TypeOK /\ LoopOK /\ Coherent /\ NotOver
    BY DEF IInv
<1>1. server' = server /\ rv' = rv /\ rec' = rec
    BY DEF Informer, Deliver, Relist, Resync, Handle
<1>2. LoopOK' /\ NotOver'
    BY <1>1 DEF LoopOK, NotOver
<1>3. ASSUME Fresh(cache', server, rv),
             \A i \in 1 .. Len(watch') : Fresh(watch'[i], server, rv)
      PROVE  Coherent'
    BY <1>1, <1>3 DEF Coherent
<1>4. CASE Deliver
    <2>1. /\ watch \in Seq(Object) /\ watch # <<>>
          /\ watch' = Tail(watch) /\ cache' = Head(watch)
        BY <1>4 DEF Deliver, Learn, TypeOK
    <2>2. Fresh(cache', server, rv)
        BY <2>1 DEF Coherent
    <2>3. \A i \in 1 .. Len(watch') : i + 1 \in 1 .. Len(watch) /\ watch'[i] = watch[i + 1]
        BY <2>1
    <2>4. \A i \in 1 .. Len(watch') : Fresh(watch'[i], server, rv)
        BY <2>3 DEF Coherent
    <2> QED BY <1>1, <1>2, <1>3, <2>2, <2>4
<1>5. CASE Relist
    <2>1. watch' = <<>> /\ cache' = server
        BY <1>5 DEF Relist, Learn
    <2> QED BY <1>1, <1>2, <1>3, <2>1 DEF Coherent, Fresh
<1>6. CASE Resync
    BY <1>1, <1>2, <1>3, <1>6 DEF Resync, Coherent
<1>7. CASE Handle
    <2>1. watch' = watch
        BY <1>7 DEF Handle
    <2>2. cache' = cache \/ \E x : cache' = [cache EXCEPT !.pre = x]
        BY <1>7 DEF Handle
    <2>3. /\ cache'.rv = cache.rv /\ cache'.phase = cache.phase
          /\ cache'.live = cache.live /\ cache'.spec = cache.spec
          /\ cache'.exps = cache.exps /\ cache'.fin = cache.fin
          /\ cache'.dt = cache.dt
        BY <2>2 DEF TypeOK, Object
    <2> QED BY <1>1, <1>2, <1>3, <2>1, <2>3 DEF Coherent, Fresh
<1> QED BY <1>1, <1>4, <1>5, <1>6, <1>7 DEF Informer

\* The call that Branch starts works on the cached copy, which is not over
\* unless the finalizer is to be removed.
LEMMA BranchStarts ==
    ASSUME TypeOK, NEW r, r = Branch(cache)
    PROVE  /\ r.cb = cache \/ r.cb = NoBlade
           /\ r.pc = "annotate" => r.out = <<>>
           /\ r.pc = "destroy" => Len(r.out) < Len(r.cb.exps)
           /\ r.pc \in {"create", "annotate", "destroy", "status"}
                => r.cb.phase # "Destroyed"
           /\ r.pc = "removeFin" => r.cb.phase = "Destroyed"
<1> cache \in Object
    BY DEF TypeOK
<1>1. CASE r = Idle
    BY <1>1 DEF Idle
<1>2. CASE r = DropFinalizer(cache) /\ cache.phase = "Destroyed"
    BY <1>2 DEF DropFinalizer, Call0
<1>3. CASE r = Forward(cache) /\ cache.phase # "Destroyed"
    BY <1>3 DEF Forward, Call0, Idle
<1>4. CASE r = Finalize(cache) /\ cache.phase # "Destroyed" /\ Size[cache.spec] # 0
    <2>1. CASE Size[cache.spec] = Len(cache.exps)
        <3>1. r = Call0("destroy", cache.spec, <<>>, "Destroyed")
            BY <1>4, <2>1 DEF Finalize
        <3>2. Len(cache.exps) \in Nat /\ Len(cache.exps) # 0
            BY <1>4, <2>1 DEF Object
        <3> QED BY <1>4, <3>1, <3>2 DEF Call0
    <2>2. CASE Size[cache.spec] # Len(cache.exps)
        BY <1>4, <2>2 DEF Finalize, Call0
    <2> QED BY <2>1, <2>2
<1> QED BY <1>1, <1>2, <1>3, <1>4 DEF Branch

\* A turn of the loop keeps the copy; the loop goes on only if a status is left.
LEMMA AdvanceKeeps ==
    ASSUME TypeOK, NEW out, NEW n, NEW phase, Advance(out, n, phase),
           rec.pc = "create" \/ (rec.pc = "destroy" /\ n = Len(rec.cb.exps))
    PROVE  /\ rec'.cb = rec.cb
           /\ rec'.pc \in {rec.pc, "status"}
           /\ rec'.pc = "destroy" => Len(rec'.out) < Len(rec'.cb.exps)
BY DEF Advance, TypeOK, Call

\* The steps of Reconcile: a status is written only from a fresh copy of a
\* blade that is not over, so phase Destroyed is never overwritten.
LEMMA ReconcilerStep ==
    ASSUME IInv, Reconciler
    PROVE  /\ LoopOK' /\ Coherent' /\ NotOver'
           /\ server.live /\ server'.live /\ server.phase = "Destroyed"
                => server'.phase = "Destroyed"
<1> TypeOK /\ LoopOK /\ Coherent /\ NotOver
    BY DEF IInv
<1> rec \in Call /\ rec.cb \in Object /\ cache \in Object
    BY DEF TypeOK, Call
<1> DEFINE Final == server.live /\ server'.live /\ server.phase = "Destroyed"
                       => server'.phase = "Destroyed"
           Goal == LoopOK' /\ Coherent' /\ NotOver' /\ Final
<1>1. CASE Reconcile
    <2>1. UNCHANGED <<server, rv, watch, cache>> /\ rec' = Branch(cache)
        BY <1>1 DEF Reconcile, informer
    <2>2. Fresh(rec'.cb, server', rv') /\ LoopOK' /\ NotOver'
        BY <2>1, BranchStarts, IdleKeeps DEF Coherent, LoopOK, NotOver
    <2> QED BY <2>1, <2>2 DEF Coherent
<1>2. ASSUME UNCHANGED <<server, rv, watch, cache>>, rec'.cb = rec.cb,
             rec.pc \in {"create", "destroy"}, rec'.pc \in {rec.pc, "status"},
             rec'.pc = "destroy" => Len(rec'.out) < Len(rec'.cb.exps)
      PROVE  Goal
    BY <1>2 DEF Coherent, LoopOK, NotOver
<1>3. CASE CreateExperiment
    <2>1. UNCHANGED <<server, rv, watch, cache>> /\ rec.pc = "create"
        BY <1>3 DEF CreateExperiment, informer
    <2>2. \E out, n, phase : Advance(out, n, phase)
        BY <1>3 DEF CreateExperiment, Create
    <2> QED BY <1>2, <2>1, <2>2, AdvanceKeeps
<1>4. CASE DestroyExperiment
    <2>1. UNCHANGED <<server, rv, watch, cache>> /\ rec.pc = "destroy"
        BY <1>4 DEF DestroyExperiment, informer
    <2>2. \E out, phase : Advance(out, Len(rec.cb.exps), phase)
        <3>1. PICK ids, mine, stopped, failed, lost, done :
                  Destroy(ids, mine, stopped, failed, lost, done)
            BY <1>4 DEF DestroyExperiment
        <3> QED BY <3>1 DEF Destroy
    <2> QED BY <1>2, <2>1, <2>2, AdvanceKeeps
<1>5. CASE Annotate
    <2> DEFINE next(cb) == [rec EXCEPT !.cb = cb,
                                !.pc = IF cb.exps = <<>> THEN "status" ELSE "destroy"]
               stored == [server EXCEPT !.pre = rec.cb.pre]
    <2>1. /\ rec.pc = "annotate" /\ rec.out = <<>> /\ rec.cb.phase # "Destroyed"
          /\ cache' = cache
        BY <1>5 DEF Annotate, LoopOK, NotOver
    <2>2. /\ stored \in Object /\ stored.phase = server.phase
          /\ stored.live = server.live
        <3>1. server \in Object /\ rec.cb \in Object
            BY DEF TypeOK, Call
        <3>2. rec.cb.pre \in Specs \cup {NoSpec}
            BY <3>1 DEF Object
        <3>3. stored \in Object
            BY <3>2, ServerFields
        <3>4. stored.phase = server.phase /\ stored.live = server.live
            BY <3>1 DEF Object
        <3> QED BY <3>3, <3>4
    <2>3. \/ Current(rec.cb) /\ Put(stored) /\ rec' = next(server')
          \/ Current(rec.cb) /\ Put(stored) /\ rec' = next(rec.cb)
          \/ UNCHANGED <<server, rv, watch>> /\ rec' = next(rec.cb)
        BY <1>5 DEF Annotate
    <2>4. Kept /\ Final
        BY <2>2, <2>3, PutKeeps, IdleKeeps
    <2>5. ASSUME NEW cb \in Object, rec' = next(cb), cb.phase # "Destroyed",
                 Fresh(cb, server', rv')
          PROVE  Goal
        <3>1. rec'.cb = cb /\ rec'.out = <<>> /\ rec'.pc \in {"status", "destroy"}
            BY <2>1, <2>5 DEF Call
        <3>2. rec'.pc = "destroy" => cb.exps # <<>>
            BY <2>5 DEF Call
        <3>3. LoopOK' /\ NotOver'
            BY <2>5, <3>1, <3>2 DEF LoopOK, NotOver, Object
        <3> QED BY <2>1, <2>4, <2>5, <3>1, <3>3 DEF Coherent, Kept
    <2>6. CASE rec' = next(rec.cb)
        BY <2>1, <2>4, <2>5, <2>6 DEF Coherent, Kept
    <2>7. CASE Current(rec.cb) /\ Put(stored) /\ rec' = next(server')
        <3>1. server.phase # "Destroyed"
            BY <2>1, <2>7 DEF Current, Coherent, Fresh
        <3>2. server' \in Object
            BY <2>2, <2>7, PutType
        <3>3. server'.phase # "Destroyed"
            <4>1. server'.phase = server.phase \/ server' = NoBlade
                BY <2>2, <2>7, PutKeeps
            <4>2. NoBlade.phase = "Initial"
                BY DEF NoBlade
            <4> QED BY <3>1, <4>1, <4>2
        <3>4. Fresh(server', server', rv')
            BY <2>4 DEF Fresh, Kept
        <3> QED BY <2>5, <2>7, <3>2, <3>3, <3>4
    <2> QED BY <2>3, <2>6, <2>7
<1>6. CASE DestroyPanic
    <2>1. UNCHANGED <<server, rv, watch, cache>> /\ rec' = Idle
        BY <1>6 DEF DestroyPanic, Return, informer
    <2> QED BY <2>1, IdleKeeps, WriteStep
<1>7. CASE WriteStatus
    <2> DEFINE stored == [server EXCEPT !.phase = rec.phase, !.exps = rec.out]
    <2>1. cache' = cache /\ rec' = Idle /\ rec.cb.phase # "Destroyed"
        BY <1>7 DEF WriteStatus, Return, NotOver
    <2>2. stored \in Object
        BY ServerFields DEF Call
    <2>3. CASE Current(rec.cb) /\ Put(stored)
        <3>1. Kept
            BY <2>2, <2>3, PutKeeps
        <3>2. server.phase # "Destroyed"
            BY <2>1, <2>3 DEF Current, Coherent, Fresh
        <3> QED BY <2>1, <3>1, <3>2, WriteStep
    <2>4. CASE UNCHANGED <<server, rv, watch>>
        BY <2>1, <2>4, IdleKeeps, WriteStep
    <2> QED BY <1>7, <2>3, <2>4 DEF WriteStatus
<1>8. CASE WriteFinalizer
    <2> DEFINE stored == [server EXCEPT !.fin = (rec.pc = "addFin"), !.pre = rec.cb.pre]
    <2>1. cache' = cache /\ rec' = Idle
        BY <1>8 DEF WriteFinalizer, Return
    <2>2. stored \in Object
        <3>1. (rec.pc = "addFin") \in BOOLEAN /\ rec.cb.pre \in Specs \cup {NoSpec}
            BY DEF Object
        <3> QED BY <3>1, ServerFields, Zenon
    <2>3. stored.phase = server.phase
        BY DEF TypeOK, Object
    <2>4. CASE Put(stored)
        <3>1. Kept /\ Final
            BY <2>2, <2>3, <2>4, PutKeeps
        <3> QED BY <2>1, <3>1, WriteStep
    <2>5. CASE UNCHANGED <<server, rv, watch>>
        BY <2>1, <2>5, IdleKeeps, WriteStep
    <2> QED BY <1>8, <2>4, <2>5 DEF WriteFinalizer
<1> QED BY <1>1, <1>3, <1>4, <1>5, <1>6, <1>7, <1>8 DEF Reconciler

-----------------------------------------------------------------------------
(***************************************************************************)
(* The theorems.                                                           *)
(***************************************************************************)

\* Every step keeps the inductive invariant and respects phase Destroyed.
LEMMA InductiveStep ==
    ASSUME IInv, [Next]_vars
    PROVE  /\ IInv'
           /\ server.live /\ server'.live /\ server.phase = "Destroyed"
                => server'.phase = "Destroyed"
<1> TypeOK /\ LoopOK /\ Coherent /\ NotOver
    BY DEF IInv
<1> DEFINE Goal == /\ IInv'
                   /\ server.live /\ server'.live /\ server.phase = "Destroyed"
                        => server'.phase = "Destroyed"
<1>1. CASE User
    BY <1>1, UserInformerType, EnvironmentWrites, WriteStep DEF IInv
<1>2. CASE Informer
    BY <1>2, UserInformerType, InformerStep DEF IInv
<1>3. CASE Reconciler
    BY <1>3, ReconcilerType, ReconcilerStep DEF IInv
<1>4. CASE CleanUp \/ Watcher
    BY <1>4, BackgroundType, EnvironmentWrites, WriteStep DEF IInv
<1>5. CASE Expiry
    <2>1. UNCHANGED <<server, rv, watch, cache, rec>>
        BY <1>5 DEF Expiry, FaultTimeout, informer
    <2> QED BY <1>5, <2>1, BackgroundType, IdleKeeps, WriteStep DEF IInv
<1>6. CASE Restart
    <2>1. /\ UNCHANGED <<server, rv>> /\ cache' = NoBlade /\ rec' = Idle
          /\ watch' = IF server.live THEN <<server>> ELSE <<>>
        BY <1>6 DEF Restart
    <2>2. Fresh(NoBlade, server, rv)
        BY DEF Fresh, Coherent, TypeOK, NoBlade
    <2>3. Fresh(server, server, rv)
        BY DEF Fresh, Coherent
    <2>4. \A i \in 1 .. Len(watch') : watch'[i] = server
        BY <2>1
    <2>5. Coherent'
        BY <2>1, <2>2, <2>3, <2>4 DEF Coherent, Idle
    <2>6. LoopOK' /\ NotOver'
        BY <2>1 DEF LoopOK, NotOver, Idle
    <2> QED BY <1>6, <2>1, <2>5, <2>6, BackgroundType DEF IInv
<1>7. CASE UNCHANGED vars
    BY <1>7 DEF vars, IInv, TypeOK, LoopOK, Coherent, NotOver
<1> QED BY <1>1, <1>2, <1>3, <1>4, <1>5, <1>6, <1>7 DEF Next

\* The initial state satisfies the inductive invariant.
LEMMA InitialState == Init => IInv
<1> SUFFICES ASSUME Init PROVE IInv
    OBVIOUS
<1>1. TypeOK
    <2>1. left \in Budget
        BY DEF Init, Budget
    <2>2. rv \in Nat /\ nextId \in Nat
        BY DEF Init
    <2>3. watch \in Seq(Object) /\ notes \in Seq(Note)
        BY DEF Init
    <2>4. /\ server \in Object /\ cache \in Object /\ rec \in Call
          /\ queued \in BOOLEAN /\ doomed \in BOOLEAN
          /\ active \in SUBSET Fault /\ watchers \in SUBSET (SUBSET Nat)
          /\ trouble \in SUBSET Causes
        BY ConstantsType, Zenon DEF Init
    <2> QED BY <2>1, <2>2, <2>3, <2>4, Zenon DEF TypeOK
<1>2. Coherent
    BY DEF Init, Coherent, Fresh, NoBlade, Idle
<1>3. LoopOK /\ NotOver
    BY DEF Init, LoopOK, NotOver, Idle
<1> QED BY <1>1, <1>2, <1>3 DEF IInv

\* The model is type correct: in particular the destroy loop never indexes a
\* resource status that is not there.
THEOREM TypeCorrect == Spec => []TypeOK
<1>1. IInv => TypeOK
    BY DEF IInv
<1>2. IInv /\ [Next]_vars => IInv'
    BY InductiveStep
<1> QED BY <1>1, <1>2, InitialState, PTL DEF Spec

\* Every copy with the version of the server's object agrees with it on all but
\* the preSpec annotation: the version check of an update is enough to know
\* that what Reconcile branched on is the current state.
THEOREM VersionsAreCoherent == Spec => []Coherent
<1>1. IInv => Coherent
    BY DEF IInv
<1>2. IInv /\ [Next]_vars => IInv'
    BY InductiveStep
<1> QED BY <1>1, <1>2, InitialState, PTL DEF Spec

\* No step of a user, of the informer, of Reconcile, of the clean-up loop or of
\* a watcher takes the object out of phase Destroyed, whatever the number of
\* edits, restarts, lost replies and objects created under the name.
THEOREM DestroyedStaysDestroyed == Spec => DestroyedIsFinal
<1>1. IInv /\ [Next]_vars => IInv'
    BY InductiveStep
<1>2. IInv /\ [Next]_vars
        => [server.live /\ server'.live /\ server.phase = "Destroyed"
              => server'.phase = "Destroyed"]_vars
    BY InductiveStep
<1> QED BY <1>1, <1>2, InitialState, PTL DEF Spec, DestroyedIsFinal

-----------------------------------------------------------------------------
(***************************************************************************)
(* The finalizer.                                                          *)
(***************************************************************************)

\* Storing an object that has the finalizer does not lose it.
LEMMA PutKeepsFinalizer ==
    ASSUME NEW obj \in Object, obj.fin, server.fin, Put(obj)
    PROVE  server'.fin
<1>1. CASE obj = server
    BY <1>1 DEF Put
<1>2. CASE obj # server
    <2>1. server' = [obj EXCEPT !.rv = rv + 1]
        BY <1>2 DEF Put
    <2> QED BY <2>1 DEF Object
<1> QED BY <1>1, <1>2

\* A step that takes the finalizer away finds the object Destroyed or is the
\* patch of the clean-up loop.
LEMMA FinalizerStep ==
    ASSUME IInv, Next, server.live, server.fin, ~server'.fin, ~CleanUpPatch
    PROVE  server.phase = "Destroyed"
<1> TypeOK /\ Coherent /\ NotOver /\ server \in Object /\ rec.cb \in Object
    BY DEF IInv, TypeOK, Call
<1>1. server' # server
    OBVIOUS
<1>2. ASSUME NEW obj \in Object, obj.fin, Put(obj)
      PROVE  FALSE
    BY <1>2, PutKeepsFinalizer
<1>3. CASE User
    <2>1. ASSUME NEW s \in Specs, CreateBlade(s)
          PROVE  FALSE
        BY <2>1 DEF CreateBlade
    <2>2. ASSUME NEW s \in Specs, EditSpec(s)
          PROVE  FALSE
        <3>1. [server EXCEPT !.spec = s] \in Object /\ [server EXCEPT !.spec = s].fin
            BY DEF Object
        <3> QED BY <1>2, <2>2, <3>1 DEF EditSpec
    <2>3. CASE Touch
        BY <2>3 DEF Touch, Object
    <2>4. CASE DeleteBlade
        <3>1. [server EXCEPT !.dt = TRUE] \in Object /\ [server EXCEPT !.dt = TRUE].fin
            BY DEF Object
        <3> QED BY <1>2, <2>4, <3>1 DEF DeleteBlade, Delete
    <2> QED BY <1>3, <2>1, <2>2, <2>3, <2>4 DEF User
<1>4. CASE Informer
    BY <1>1, <1>4 DEF Informer, Deliver, Relist, Resync, Handle
<1>5. CASE Reconcile \/ CreateExperiment \/ DestroyExperiment \/ DestroyPanic
    BY <1>1, <1>5 DEF Reconcile, CreateExperiment, DestroyExperiment, DestroyPanic
<1>6. CASE Annotate
    <2>1. /\ [server EXCEPT !.pre = rec.cb.pre] \in Object
          /\ [server EXCEPT !.pre = rec.cb.pre].fin
        BY DEF Object
    <2>2. Put([server EXCEPT !.pre = rec.cb.pre])
        BY <1>1, <1>6 DEF Annotate
    <2> QED BY <1>2, <2>1, <2>2
<1>7. CASE WriteStatus
    <2> DEFINE new == [server EXCEPT !.phase = rec.phase, !.exps = rec.out]
    <2>1. rec.phase \in Phases /\ rec.out \in Seq(SUBSET ResStatus)
        BY DEF TypeOK, Call
    <2>2. new \in Object /\ new.fin
        BY <2>1 DEF Object
    <2>3. Put(new)
        BY <1>1, <1>7 DEF WriteStatus
    <2> HIDE DEF new
    <2> QED BY <1>2, <2>2, <2>3
<1>8. CASE WriteFinalizer
    <2>1. Current(rec.cb)
        BY <1>1, <1>8 DEF WriteFinalizer
    <2>2. CASE rec.pc = "removeFin"
        BY <2>1, <2>2 DEF Current, Coherent, Fresh, NotOver
    <2>3. CASE rec.pc = "addFin"
        <3> DEFINE new == [server EXCEPT !.fin = (rec.pc = "addFin"), !.pre = rec.cb.pre]
        <3>1. new \in Object /\ new.fin
            BY <2>3 DEF Object
        <3>2. Put(new)
            BY <1>1, <1>8 DEF WriteFinalizer
        <3> HIDE DEF new
        <3> QED BY <1>2, <3>1, <3>2
    <2> QED BY <1>8, <2>2, <2>3 DEF WriteFinalizer
<1>9. CASE CleanUp \/ Expiry \/ Restart
    BY <1>1, <1>9 DEF CleanUp, CleanUpList, Expiry, FaultTimeout, Restart
<1>10. CASE Watcher
    <2>1. ASSUME NEW w \in watchers, WatcherMarks(w)
          PROVE  FALSE
        <3>1. /\ [server EXCEPT !.phase = "Destroyed"] \in Object
              /\ [server EXCEPT !.phase = "Destroyed"].fin
            BY DEF Object, Phases
        <3> QED BY <1>2, <2>1, <3>1 DEF WatcherMarks
    <2>2. ASSUME NEW w \in watchers, WatcherDeletes(w)
          PROVE  FALSE
        <3>1. [server EXCEPT !.dt = TRUE] \in Object /\ [server EXCEPT !.dt = TRUE].fin
            BY DEF Object
        <3> QED BY <1>2, <2>2, <3>1 DEF WatcherDeletes, Delete
    <2>3. ASSUME NEW w \in watchers, WatcherGivesUp(w)
          PROVE  FALSE
        BY <1>1, <2>3 DEF WatcherGivesUp
    <2> QED BY <1>10, <2>1, <2>2, <2>3 DEF Watcher
<1> QED BY <1>3, <1>4, <1>5, <1>6, <1>7, <1>8, <1>9, <1>10 DEF Next, Reconciler

\* Reconcile, the watchers and the users never take the finalizer from a blade
\* that is not Destroyed at the API server, however old the copy they act on
\* and however often the name was used before.
THEOREM FinalizerIsKept == Spec => ReconcileKeepsFinalizer
<1>1. IInv /\ [Next]_vars => IInv'
    BY InductiveStep
<1>2. IInv /\ [Next]_vars
        => [server.live /\ server.fin /\ ~server'.fin /\ ~CleanUpPatch
              => server.phase = "Destroyed"]_vars
    BY FinalizerStep
<1> QED BY <1>1, <1>2, InitialState, PTL DEF Spec, ReconcileKeepsFinalizer

=============================================================================
