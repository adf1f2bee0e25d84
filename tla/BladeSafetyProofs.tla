-------------------------- MODULE BladeSafetyProofs --------------------------
(***************************************************************************)
(* What runs in the cluster and what the object records: the safety        *)
(* invariants of BladeLifecycle, for every value of its constants.         *)
(***************************************************************************)
EXTENDS BladeLifecycleProofs

-----------------------------------------------------------------------------
(***************************************************************************)
(* The inductive invariant.  None of CleanRemoval, DestroyedMeansStopped   *)
(* and NoOverlap is inductive by itself: each needs to know where every    *)
(* fault in effect is recorded, and what the call of Reconcile that is     *)
(* under way is about to write over that record.                           *)
(***************************************************************************)

\* The identifiers of the resources of one experiment recorded as successful.
OkOf(x) == {r.id : r \in {y \in x : y.ok}}

\* The identifiers that exps records have been given out.
Known(exps) == \A i \in OkIds(exps) : i <= nextId

\* An object that does not exist is the empty one; one that exists has a
\* specification; one under deletion has the finalizer, or it would be gone.
ObjectOK ==
    /\ ~server.live => server = NoBlade
    /\ server.live => server.spec # NoSpec
    /\ server.dt => server.fin

NumbersOK ==
    /\ Known(server.exps)
    /\ Current(rec.cb) => Known(rec.out)

\* The status about to be written, by the branch of Reconcile it comes from.
StatusOK ==
    \/ /\ rec.with = NoSpec /\ rec.phase = "Initialized"
       /\ rec.cb.phase = "Initial" /\ rec.out = <<>>
    \/ /\ rec.with = NoSpec /\ rec.phase \in {"Running", "Error"}
       /\ rec.cb.phase \in {"Initialized", "Updating"}
    \/ /\ rec.with = NoSpec /\ rec.phase = "Destroyed"
       /\ rec.out = rec.cb.exps
    \/ /\ rec.with # NoSpec
       /\ rec.phase \in {"Updating", "Destroying", "Destroyed"}

\* What a call will write, if the API server accepts it.
CallOK ==
    /\ rec.pc = "create" => rec.with = NoSpec
    /\ Current(rec.cb) =>
        /\ rec.pc = "create" => /\ rec.cb.phase \in {"Initialized", "Updating"}
                                /\ rec.phase \in {"Running", "Error"}
        /\ rec.pc \in {"annotate", "destroy"}
             => /\ rec.with # NoSpec
                /\ rec.phase \in {"Updating", "Destroying", "Destroyed"}
        /\ rec.pc = "status" => StatusOK

\* The finalizer is there whenever something may be in effect, and under every
\* call that can still change what the object records.
HeldOK ==
    /\ server.live /\ ~server.fin => server.phase \in {"Initial", "Destroyed"}
    /\ Current(rec.cb) /\ rec.pc \in {"create", "annotate", "destroy", "status"}
         => server.fin

\* The loop that destroys has ended every fault it has passed.
LoopStops ==
    /\ rec.pc = "destroy"
         => /\ Expired(OkIds(rec.out))
            /\ \A i \in 1 .. Len(rec.out) : Expired(OkOf(rec.cb.exps[i]))
    /\ rec.pc = "status" /\ rec.with # NoSpec
         => Expired(OkIds(rec.out)) /\ Expired(OkIds(rec.cb.exps))

\* In the phases in which nothing should be in effect, nothing recorded is.
Stopped ==
    server.phase \in {"Initial", "Initialized", "Updating", "Destroyed"}
        => Expired(OkIds(server.exps))

\* Every fault in effect is recorded by the object or by the call under way.
Accounted ==
    \A f \in active :
        \/ f.id \in OkIds(server.exps)
        \/ rec.pc \in {"create", "status"} /\ f.id \in OkIds(rec.out)

Untroubled == HeldOK /\ LoopStops /\ Stopped /\ Accounted

SInv == /\ ObjectOK /\ NumbersOK /\ CallOK
        /\ trouble = {} => Untroubled

-----------------------------------------------------------------------------
(***************************************************************************)
(* What a sequence of statuses records.                                    *)
(***************************************************************************)

\* An identifier is recorded when some experiment has it as successful.
LEMMA OkMember ==
    ASSUME NEW exps, NEW k
    PROVE  k \in OkIds(exps) <=> \E i \in 1 .. Len(exps) : k \in OkOf(exps[i])
BY DEF OkIds, OkOf

\* Nothing is recorded by no status.
LEMMA OkEmpty == OkIds(<<>>) = {} /\ NoBlade.exps = <<>>
<1>1. Len(<<>>) = 0
    OBVIOUS
<1>2. \A k : k \notin OkIds(<<>>)
    BY <1>1, OkMember
<1> QED BY <1>2 DEF NoBlade

\* One status more records its own identifiers more.
LEMMA OkAppend ==
    ASSUME NEW s \in Seq(SUBSET ResStatus), NEW x \in SUBSET ResStatus
    PROVE  \A k : k \in OkIds(Append(s, x)) <=> k \in OkIds(s) \/ k \in OkOf(x)
<1> SUFFICES ASSUME NEW k
             PROVE  k \in OkIds(Append(s, x)) <=> k \in OkIds(s) \/ k \in OkOf(x)
    OBVIOUS
<1> DEFINE t == Append(s, x)
<1>1. /\ Len(s) \in Nat /\ Len(t) = Len(s) + 1 /\ t[Len(s) + 1] = x
      /\ \A i \in 1 .. Len(s) : t[i] = s[i]
    OBVIOUS
<1> HIDE DEF t
<1>2. k \in OkIds(t) <=> \E i \in 1 .. Len(t) : k \in OkOf(t[i])
    BY OkMember
<1>3. k \in OkIds(s) <=> \E i \in 1 .. Len(s) : k \in OkOf(s[i])
    BY OkMember
<1>4. k \in OkIds(t) => k \in OkIds(s) \/ k \in OkOf(x)
    BY <1>1, <1>2, <1>3
<1>5. k \in OkIds(s) => k \in OkIds(t)
    <2>1. \A i \in 1 .. Len(s) : i \in 1 .. Len(t)
        BY <1>1
    <2> QED BY <2>1, <1>1, <1>2, <1>3
<1>6. k \in OkOf(x) => k \in OkIds(t)
    <2>1. Len(s) + 1 \in 1 .. Len(t)
        BY <1>1
    <2> QED BY <2>1, <1>1, <1>2
<1> QED BY <1>4, <1>5, <1>6 DEF t

-----------------------------------------------------------------------------
(***************************************************************************)
(* Writes.                                                                 *)
(***************************************************************************)

\* An object is stored as it is but for its version, or disappears.
LEMMA PutResult ==
    ASSUME TypeOK, NEW obj \in Object, Put(obj)
    PROVE  \/ server' = server /\ obj = server
           \/ obj.dt /\ ~obj.fin /\ server' = NoBlade
           \/ /\ ~(obj.dt /\ ~obj.fin)
              /\ server'.rv = rv + 1
              /\ server'.live = obj.live /\ server'.spec = obj.spec
              /\ server'.pre = obj.pre /\ server'.fin = obj.fin
              /\ server'.dt = obj.dt /\ server'.phase = obj.phase
              /\ server'.exps = obj.exps
<1>1. CASE obj = server
    BY <1>1 DEF Put
<1>2. CASE obj # server /\ obj.dt /\ ~obj.fin
    BY <1>2 DEF Put
<1>3. CASE obj # server /\ ~(obj.dt /\ ~obj.fin)
    <2>1. server' = [obj EXCEPT !.rv = rv + 1]
        BY <1>3 DEF Put
    <2> QED BY <1>3, <2>1 DEF Object
<1> QED BY <1>1, <1>2, <1>3

\* A copy made before a write is not current after it.
LEMMA Overtaken ==
    ASSUME TypeOK, NEW obj \in Object, Put(obj),
           NEW c \in Object, Fresh(c, server, rv)
    PROVE  server'.live /\ c.rv = server'.rv => server' = server
<1>1. rv \in Nat /\ c.rv \in Nat /\ c.rv <= rv
    BY DEF TypeOK, Object, Fresh
<1>2. ~NoBlade.live
    BY DEF NoBlade
<1>3. server' = server \/ server' = NoBlade \/ server'.rv = rv + 1
    BY PutResult
<1> QED BY <1>1, <1>2, <1>3

\* A write that leaves the call and the cluster alone and that keeps, in the
\* object, what it says about them.
LEMMA WriteKeeps ==
    ASSUME SInv, rec' = rec, active' = active, nextId' = nextId,
           trouble' = {} => trouble = {},
           server'.live /\ rec.cb.rv = server'.rv => server' = server,
           ObjectOK', Known(server.exps) => Known(server.exps)',
           trouble' = {} =>
               /\ server'.live /\ ~server'.fin => server'.phase \in {"Initial", "Destroyed"}
               /\ Stopped'
               /\ \A f \in active : f.id \in OkIds(server.exps)
                                      => f.id \in OkIds(server'.exps)
    PROVE  SInv'
<1>1. Current(rec.cb)' => server' = server /\ Current(rec.cb)
    BY DEF Current
<1>2. NumbersOK'
    BY <1>1 DEF SInv, NumbersOK, Known
<1>4. CallOK'
    <2>1. StatusOK => StatusOK'
        BY DEF StatusOK
    <2>2. CallOK /\ (Current(rec.cb)' => Current(rec.cb))
        BY <1>1 DEF SInv
    <2> QED BY <2>1, <2>2 DEF CallOK
<1>3. ASSUME trouble' = {} PROVE Untroubled'
    <2>1. Untroubled
        BY <1>3 DEF SInv
    <2>2. HeldOK'
        BY <1>1, <1>3, <2>1 DEF Untroubled, HeldOK
    <2>3. LoopStops'
        BY <2>1 DEF Untroubled, LoopStops, Expired
    <2>4. Accounted'
        BY <1>3, <2>1 DEF Untroubled, Accounted
    <2> QED BY <1>3, <2>2, <2>3, <2>4 DEF Untroubled
<1> QED BY <1>2, <1>3, <1>4 DEF SInv

\* A write that keeps what the object records, and takes the object away or
\* into a phase without faults only when what it records is over.
LEMMA PutQuiet ==
    ASSUME IInv, SInv, rec' = rec, active' = active, nextId' = nextId,
           trouble' = {} => trouble = {},
           NEW obj \in Object, Put(obj),
           obj.live, obj.spec # NoSpec, obj.exps = server.exps,
           trouble' = {} =>
               /\ obj.fin \/ obj.dt \/ obj.phase \in {"Initial", "Destroyed"}
               /\ \/ Expired(OkIds(server.exps))
                  \/ /\ obj.phase \notin {"Initial", "Initialized", "Updating", "Destroyed"}
                     /\ obj.fin
    PROVE  SInv'
<1> TypeOK /\ Coherent /\ rec.cb \in Object
    BY DEF IInv, TypeOK, Call
<1>1. server'.live /\ rec.cb.rv = server'.rv => server' = server
    BY Overtaken DEF Coherent
<1>2. \/ server' = server /\ obj = server
      \/ obj.dt /\ ~obj.fin /\ server' = NoBlade
      \/ /\ ~(obj.dt /\ ~obj.fin)
         /\ server'.live /\ server'.spec = obj.spec
         /\ server'.fin = obj.fin /\ server'.dt = obj.dt
         /\ server'.phase = obj.phase /\ server'.exps = obj.exps
    BY PutResult
<1>3. ~NoBlade.live /\ ~NoBlade.dt /\ NoBlade.exps = <<>>
    BY DEF NoBlade
<1>4. ObjectOK'
    BY <1>2, <1>3 DEF SInv, ObjectOK
<1>5. server'.exps = server.exps \/ server'.exps = <<>>
    BY <1>2, <1>3
<1>6. Known(server.exps) => Known(server.exps)'
    BY <1>5, OkEmpty DEF Known
<1>7. ASSUME trouble' = {}
      PROVE  /\ server'.live /\ ~server'.fin => server'.phase \in {"Initial", "Destroyed"}
             /\ Stopped'
             /\ \A f \in active : f.id \in OkIds(server.exps)
                                    => f.id \in OkIds(server'.exps)
    <2>1. HeldOK /\ Stopped
        BY <1>7 DEF SInv, Untroubled
    <2>2. CASE server' = server
        BY <2>1, <2>2 DEF HeldOK, Stopped, Expired
    <2>3. CASE obj.dt /\ ~obj.fin /\ server' = NoBlade
        <3>1. Expired(OkIds(server.exps))
            BY <1>7, <2>3
        <3> QED BY <1>3, <2>3, <3>1, OkEmpty DEF Stopped, Expired
    <2>4. CASE /\ ~(obj.dt /\ ~obj.fin)
               /\ server'.live /\ server'.spec = obj.spec
               /\ server'.fin = obj.fin /\ server'.dt = obj.dt
               /\ server'.phase = obj.phase /\ server'.exps = obj.exps
        <3>1. Stopped'
            BY <1>7, <2>4 DEF Stopped, Expired
        <3> QED BY <1>7, <2>4, <3>1
    <2> QED BY <1>2, <2>2, <2>3, <2>4
<1> QED BY <1>1, <1>4, <1>6, <1>7, WriteKeeps

-----------------------------------------------------------------------------
(***************************************************************************)
(* The steps of everybody but Reconcile.                                   *)
(***************************************************************************)

\* A delete call.
LEMMA DeleteStep ==
    ASSUME IInv, SInv, Delete, server.live,
           UNCHANGED <<rec, active, nextId, trouble>>
    PROVE  SInv'
<1> DEFINE obj == [server EXCEPT !.dt = TRUE]
<1>1. /\ obj \in Object /\ Put(obj) /\ obj.live = server.live
      /\ obj.spec = server.spec /\ obj.exps = server.exps
      /\ obj.phase = server.phase /\ obj.fin = server.fin
    <2>1. server \in Object /\ obj \in Object
        BY ServerFields DEF IInv, TypeOK
    <2> QED BY <2>1 DEF Delete, Object
<1> HIDE DEF obj
<1>2. obj.spec # NoSpec
    BY <1>1 DEF SInv, ObjectOK
<1>3. obj.dt = TRUE
    BY DEF obj, IInv, TypeOK, Object
<1>4. trouble' = {} =>
         \/ Expired(OkIds(server.exps))
         \/ /\ obj.phase \notin {"Initial", "Initialized", "Updating", "Destroyed"}
            /\ obj.fin
    BY <1>1 DEF SInv, Untroubled, HeldOK, Stopped
<1> QED BY <1>1, <1>2, <1>3, <1>4, PutQuiet

\* The users.
LEMMA UserKeeps ==
    ASSUME IInv, SInv, User
    PROVE  SInv'
<1> TypeOK /\ server \in Object
    BY DEF IInv, TypeOK
<1>1. ASSUME NEW s \in Specs, CreateBlade(s) PROVE SInv'
    <2> DEFINE obj == [NoBlade EXCEPT !.live = TRUE, !.spec = s]
    <2>1. /\ obj.live /\ obj.spec = s /\ obj.exps = <<>> /\ obj.phase = "Initial"
        BY DEF NoBlade
    <2>2. obj \in Object /\ Put(obj)
        BY <1>1, ServerFields DEF CreateBlade
    <2> HIDE DEF obj
    <2>3. server.exps = <<>>
        BY <1>1, OkEmpty DEF CreateBlade, SInv, ObjectOK
    <2>4. Expired(OkIds(server.exps))
        BY <2>3, OkEmpty DEF Expired
    <2>5. UNCHANGED <<rec, active, nextId>> /\ (trouble' = {} => trouble = {})
        BY <1>1 DEF CreateBlade, operator, cluster
    <2> QED BY <2>1, <2>2, <2>3, <2>4, <2>5, PutQuiet, SpecsAssumption
<1>2. ASSUME NEW s \in Specs, EditSpec(s) PROVE SInv'
    <2> DEFINE obj == [server EXCEPT !.spec = s]
    <2>1. /\ obj.live = server.live /\ obj.spec = s /\ obj.exps = server.exps
          /\ obj.phase = server.phase /\ obj.fin = server.fin /\ obj.dt = server.dt
        BY DEF Object
    <2>2. obj \in Object /\ Put(obj) /\ server.live
        BY <1>2, ServerFields DEF EditSpec
    <2> HIDE DEF obj
    <2>3. UNCHANGED <<rec, active, nextId, trouble>>
        BY <1>2 DEF EditSpec, operator, cluster
    <2>4. trouble' = {} =>
             /\ obj.fin \/ obj.dt \/ obj.phase \in {"Initial", "Destroyed"}
             /\ \/ Expired(OkIds(server.exps))
                \/ /\ obj.phase \notin {"Initial", "Initialized", "Updating", "Destroyed"}
                   /\ obj.fin
        BY <2>1, <2>2, <2>3 DEF SInv, Untroubled, HeldOK, Stopped
    <2> QED BY <2>1, <2>2, <2>3, <2>4, PutQuiet, SpecsAssumption
<1>3. CASE Touch
    <2>1. /\ server' = [server EXCEPT !.rv = rv + 1] /\ server.live
          /\ UNCHANGED <<rec, active, nextId, trouble>>
        BY <1>3 DEF Touch, operator, cluster
    <2>2. /\ server'.live /\ server'.spec = server.spec /\ server'.exps = server.exps
          /\ server'.phase = server.phase /\ server'.fin = server.fin
          /\ server'.dt = server.dt /\ server'.rv = rv + 1
        BY <2>1 DEF Object
    <2>3. rec.cb.rv # server'.rv
        BY <2>2 DEF IInv, Coherent, Fresh, TypeOK, Call, Object
    <2>4. ObjectOK'
        BY <2>1, <2>2 DEF SInv, ObjectOK
    <2>5. Known(server.exps) => Known(server.exps)'
        BY <2>1, <2>2 DEF Known
    <2>6. ASSUME trouble' = {}
          PROVE  /\ server'.live /\ ~server'.fin => server'.phase \in {"Initial", "Destroyed"}
                 /\ Stopped'
        BY <2>1, <2>2, <2>6 DEF SInv, Untroubled, HeldOK, Stopped, Expired
    <2> QED BY <2>1, <2>2, <2>3, <2>4, <2>5, <2>6, WriteKeeps
<1>4. CASE DeleteBlade
    <2>1. UNCHANGED <<rec, active, nextId, trouble>>
        BY <1>4 DEF DeleteBlade, operator, cluster
    <2> QED BY <1>4, <2>1, DeleteStep DEF DeleteBlade
<1> QED BY <1>1, <1>2, <1>3, <1>4 DEF User

\* A step that writes nothing and begins no fault.
LEMMA QuietKeeps ==
    ASSUME SInv, UNCHANGED <<server, rec, nextId>>,
           active' \subseteq active, trouble \subseteq trouble'
    PROVE  SInv'
<1>1. ObjectOK' /\ NumbersOK'
    BY DEF SInv, ObjectOK, NumbersOK, Known, Current
<1>2. CallOK'
    BY DEF SInv, CallOK, StatusOK, Current
<1>3. trouble' = {} => Untroubled'
    <2>1. trouble' = {} => Untroubled
        BY DEF SInv
    <2>2. Untroubled => HeldOK' /\ Stopped' /\ Accounted'
        BY DEF Untroubled, HeldOK, Current, Stopped, Accounted, Expired
    <2>3. Untroubled => LoopStops'
        BY DEF Untroubled, LoopStops, Expired
    <2> QED BY <2>1, <2>2, <2>3 DEF Untroubled
<1> QED BY <1>1, <1>2, <1>3 DEF SInv

\* The clean-up loop and the watchers.
LEMMA BackgroundKeeps ==
    ASSUME IInv, SInv, CleanUp \/ Watcher
    PROVE  SInv'
<1> TypeOK /\ server \in Object
    BY DEF IInv, TypeOK
<1>1. ASSUME UNCHANGED <<server, rec, active, nextId, trouble>> PROVE SInv'
    BY <1>1, QuietKeeps
<1>2. CASE CleanUpList
    BY <1>2, QuietKeeps DEF CleanUpList, cluster
<1>3. CASE CleanUpPatch
    <2> DEFINE obj == [server EXCEPT !.fin = FALSE]
    <2>1. UNCHANGED <<rec, active, nextId>>
        BY <1>3 DEF CleanUpPatch, cluster
    <2>2. CASE UNCHANGED <<server, rv, watch, trouble>>
        BY <1>1, <2>1, <2>2
    <2>3. CASE /\ server.live /\ Put(obj)
               /\ trouble' = IF active = {} /\ server.dt THEN trouble
                             ELSE trouble \cup {"cleaned"}
        <3>1. /\ obj.live = server.live /\ obj.spec = server.spec
              /\ obj.exps = server.exps /\ obj.dt = server.dt /\ obj \in Object
            <4>1. obj \in Object
                BY ServerFields
            <4> QED BY <4>1 DEF Object
        <3>2. trouble' = {} => trouble = {} /\ active = {} /\ server.dt
            BY <2>3
        <3>3. active = {} => Expired(OkIds(server.exps))
            BY DEF Expired
        <3>4. Put(obj) /\ obj.spec # NoSpec
            BY <2>3, <3>1 DEF SInv, ObjectOK
        <3> HIDE DEF obj
        <3> QED BY <2>1, <2>3, <3>1, <3>2, <3>3, <3>4, PutQuiet
    <2> QED BY <1>3, <2>2, <2>3 DEF CleanUpPatch
<1>4. ASSUME NEW w \in watchers, WatcherMarks(w) PROVE SInv'
    <2> DEFINE obj == [server EXCEPT !.phase = "Destroyed"]
    <2>1. /\ UNCHANGED <<rec, active, nextId>> /\ server.live /\ Put(obj)
          /\ trouble' = IF active = {} THEN trouble ELSE trouble \cup {"watcherMarked"}
        BY <1>4 DEF WatcherMarks, operator, cluster, Current
    <2>2. /\ obj.live = server.live /\ obj.spec = server.spec
          /\ obj.exps = server.exps /\ obj.dt = server.dt
          /\ obj.phase = "Destroyed" /\ obj \in Object
        <3>1. obj \in Object
            BY ServerFields DEF Phases
        <3> QED BY <3>1 DEF Object
    <2>3. trouble' = {} => trouble = {} /\ active = {}
        BY <2>1
    <2>4. active = {} => Expired(OkIds(server.exps))
        BY DEF Expired
    <2>5. Put(obj) /\ obj.spec # NoSpec
        BY <2>1, <2>2 DEF SInv, ObjectOK
    <2> HIDE DEF obj
    <2> QED BY <2>1, <2>2, <2>3, <2>4, <2>5, PutQuiet
<1>5. ASSUME NEW w \in watchers, WatcherDeletes(w) PROVE SInv'
    <2>1. UNCHANGED <<rec, active, nextId, trouble>> /\ server.live /\ Delete
        BY <1>5 DEF WatcherDeletes, cluster
    <2> QED BY <2>1, DeleteStep
<1>6. ASSUME NEW w \in watchers, WatcherGivesUp(w) PROVE SInv'
    BY <1>1, <1>6 DEF WatcherGivesUp, cluster
<1> QED BY <1>2, <1>3, <1>4, <1>5, <1>6 DEF CleanUp, Watcher

\* A call that ends without a write: what only it knew of is over, or its loss
\* is one of Causes.
LEMMA ReturnKeeps ==
    ASSUME IInv, SInv, rec' = Idle, UNCHANGED <<server, active, nextId>>,
           \/ Lose
           \/ trouble' = trouble /\ rec.pc \notin {"create", "status"}
    PROVE  SInv'
<1>1. /\ rec'.pc = "idle" /\ rec'.cb = NoBlade /\ rec'.out = <<>>
    BY DEF Idle
<1>2. NoBlade.rv = 0 /\ (server.live => server.rv > 0)
    BY DEF NoBlade, IInv, Coherent
<1>3. ObjectOK' /\ NumbersOK' /\ CallOK'
    BY <1>1, OkEmpty DEF SInv, ObjectOK, NumbersOK, Known, CallOK
<1>4. ASSUME trouble' = {} PROVE Untroubled'
    <2>1. trouble = {} /\ Untroubled
        BY <1>4 DEF Lose, SInv
    <2>2. HeldOK' /\ Stopped'
        BY <1>1, <2>1 DEF Untroubled, HeldOK, Stopped, Expired
    <2>3. LoopStops'
        BY <1>1 DEF LoopStops
    <2>4. Accounted'
        <3>1. CASE rec.pc \notin {"create", "status"}
            BY <2>1, <3>1 DEF Untroubled, Accounted
        <3>2. CASE Lose /\ rec.pc \in {"create", "status"}
            <4>1. Unrecorded = {}
                BY <1>4, <3>2 DEF Lose
            <4> QED BY <2>1, <4>1 DEF Unrecorded, Untroubled, Accounted
        <3> QED BY <3>1, <3>2
    <2> QED BY <2>2, <2>3, <2>4 DEF Untroubled
<1> QED BY <1>3, <1>4 DEF SInv

-----------------------------------------------------------------------------
(***************************************************************************)
(* The steps of Reconcile.                                                 *)
(***************************************************************************)

\* What the branch of Reconcile starts with.
LEMMA BranchForm ==
    ASSUME NEW r, r = Branch(cache)
    PROVE  \/ r.pc = "idle" /\ r.cb = NoBlade /\ r.out = <<>>
           \/ /\ r.cb = cache /\ r.out = <<>> /\ r.with = NoSpec
              /\ \/ r.pc = "removeFin" /\ cache.phase = "Destroyed"
                 \/ r.pc = "addFin" /\ cache.phase = "Initial" /\ ~cache.fin
                 \/ /\ r.pc = "status" /\ r.phase = "Initialized"
                    /\ cache.phase = "Initial" /\ cache.fin
                 \/ /\ r.pc = "create" /\ r.phase = "Error"
                    /\ cache.live /\ ~cache.dt
                    /\ cache.phase \in {"Initialized", "Updating"}
           \/ /\ r.cb = cache /\ r.out = <<>>
              /\ r.pc = "annotate" /\ r.with # NoSpec /\ r.phase = "Updating"
              /\ cache.phase \notin {"Initial", "Initialized", "Updating",
                                     "Destroying", "Destroyed"}
           \/ /\ r.cb = cache /\ r.out = <<>>
              /\ r.pc = "destroy" /\ r.with = cache.spec /\ r.phase = "Destroyed"
              /\ cache.phase = "Destroying" \/ cache.dt
              /\ cache.phase # "Destroyed"
           \/ /\ r.cb = cache /\ r.out = cache.exps /\ r.with = NoSpec
              /\ r.pc = "status" /\ r.phase = "Destroyed"
              /\ cache.phase = "Destroying" \/ cache.dt
              /\ cache.phase # "Destroyed"
<1>1. CASE r = Idle
    BY <1>1 DEF Idle
<1>2. CASE r = DropFinalizer(cache) /\ cache.phase = "Destroyed"
    BY <1>2 DEF DropFinalizer, Call0
<1>3. CASE /\ r = Finalize(cache) /\ cache.phase # "Destroyed"
           /\ cache.phase = "Destroying" \/ cache.dt
    BY <1>3 DEF Finalize, Call0
<1>4. CASE /\ r = Forward(cache) /\ cache.phase \notin {"Destroyed", "Destroying"}
           /\ cache.live /\ ~cache.dt
    BY <1>4 DEF Forward, Call0, Idle
<1> QED BY <1>1, <1>2, <1>3, <1>4 DEF Branch

\* Reconcile begins with its copy of the cached object.
LEMMA ReconcileKeeps ==
    ASSUME IInv, SInv, Reconcile
    PROVE  SInv'
<1>1. /\ rec.pc = "idle" /\ rec' = Branch(cache)
      /\ UNCHANGED <<server, active, nextId, trouble>>
    BY DEF Reconcile, cluster
<1>2. Current(rec.cb)' => /\ rec'.cb = cache
                          /\ cache.phase = server.phase /\ cache.spec = server.spec
                          /\ cache.exps = server.exps /\ cache.fin = server.fin
                          /\ cache.dt = server.dt /\ server.live
    <2>1. rec'.cb = cache \/ rec'.cb = NoBlade
        BY <1>1, BranchForm
    <2>2. NoBlade.rv = 0 /\ (server.live => server.rv > 0) /\ Fresh(cache, server, rv)
        BY DEF NoBlade, IInv, Coherent
    <2> QED BY <1>1, <2>1, <2>2 DEF Current, Fresh
<1>3. ObjectOK'
    BY <1>1 DEF SInv, ObjectOK
<1>4. NumbersOK'
    <2>1. rec'.out = <<>> \/ rec'.out = cache.exps
        BY <1>1, BranchForm
    <2>2. Known(server.exps)' /\ Known(<<>>)'
        BY <1>1, OkEmpty DEF SInv, NumbersOK, Known
    <2> QED BY <1>1, <1>2, <2>1, <2>2 DEF NumbersOK
<1>5. CallOK'
    <2>1. Current(rec.cb)' => cache.spec # NoSpec
        BY <1>2 DEF SInv, ObjectOK
    <2>2. Current(rec.cb)' /\ rec'.pc = "status" => StatusOK'
        BY <1>1, <1>2, BranchForm DEF StatusOK
    <2>3. Current(rec.cb)' /\ rec'.pc = "create"
            => /\ rec'.cb.phase \in {"Initialized", "Updating"}
               /\ rec'.phase \in {"Running", "Error"}
        BY <1>1, <1>2, BranchForm
    <2>5. rec'.pc = "create" => rec'.with = NoSpec
        BY <1>1, BranchForm
    <2>4. Current(rec.cb)' /\ rec'.pc \in {"annotate", "destroy"}
            => /\ rec'.with # NoSpec
               /\ rec'.phase \in {"Updating", "Destroying", "Destroyed"}
        BY <1>1, <1>2, <2>1, BranchForm
    <2> QED BY <2>2, <2>3, <2>4, <2>5 DEF CallOK
<1>6. ASSUME trouble' = {} PROVE Untroubled'
    <2>1. Untroubled /\ ObjectOK
        BY <1>1, <1>6 DEF SInv
    <2>2. HeldOK'
        <3>1. server.live /\ ~server.fin => server.phase \in {"Initial", "Destroyed"}
            BY <2>1 DEF Untroubled, HeldOK
        <3>2. Current(rec.cb)' /\ rec'.pc \in {"create", "annotate", "destroy", "status"}
                => cache.fin
            BY <1>1, <1>2, <2>1, <3>1, BranchForm DEF ObjectOK
        <3> QED BY <1>1, <1>2, <3>1, <3>2 DEF HeldOK
    <2>3. LoopStops'
        <3>1. rec'.pc = "destroy" => rec'.out = <<>>
            BY <1>1, BranchForm
        <3>2. rec'.pc = "status" => rec'.with = NoSpec
            BY <1>1, BranchForm
        <3> QED BY <3>1, <3>2, OkEmpty DEF LoopStops, Expired
    <2>4. Stopped' /\ Accounted'
        BY <1>1, <2>1 DEF Untroubled, Stopped, Accounted, Expired
    <2> QED BY <2>2, <2>3, <2>4 DEF Untroubled
<1> QED BY <1>3, <1>4, <1>5, <1>6 DEF SInv

\* A turn of a loop stores the statuses collected so far.
LEMMA AdvanceForm ==
    ASSUME TypeOK, NEW out, NEW n, NEW phase, Advance(out, n, phase)
    PROVE  /\ rec'.out = out /\ rec'.phase = phase
           /\ rec'.cb = rec.cb /\ rec'.with = rec.with
           /\ rec'.pc = IF Len(out) < n THEN rec.pc ELSE "status"
BY DEF Advance, TypeOK, Call

\* The identifiers a status records are those it says are in effect.
LEMMA OkOfStatus ==
    ASSUME NEW ids, NEW ok \in SUBSET ids
    PROVE  \A k : k \in OkOf({[id |-> i, ok |-> i \in ok] : i \in ids}) <=> k \in ok
<1> DEFINE status(i) == [id |-> i, ok |-> i \in ok]
<1>1. \A i : status(i).id = i /\ (status(i).ok <=> i \in ok)
    BY Zenon
<1> HIDE DEF status
<1>2. \A k : k \in OkOf({status(i) : i \in ids}) <=> k \in ok
    BY <1>1 DEF OkOf
<1> QED BY <1>2 DEF status

\* Faults are created: new identifiers, recorded by the call when their
\* commands were answered, by no one else.
LEMMA CreateKeeps ==
    ASSUME IInv, SInv, CreateExperiment
    PROVE  SInv'
<1> TypeOK /\ rec \in Call /\ nextId \in Nat
    BY DEF IInv, TypeOK
<1>1. PICK n \in 0 .. MaxRes :
        /\ nextId' = nextId + n
        /\ \E made \in SUBSET ((nextId + 1) .. (nextId + n)) :
             \E ok \in SUBSET made, done \in BOOLEAN :
               Create((nextId + 1) .. (nextId + n), made, ok, done)
    BY DEF CreateExperiment
<1> DEFINE ids == (nextId + 1) .. (nextId + n)
<1>2. PICK made \in SUBSET ids, ok \in SUBSET ids, done \in BOOLEAN :
        Create(ids, made, ok, done)
    BY <1>1
<1> DEFINE x == {[id |-> i, ok |-> i \in ok] : i \in ids}
<1>3. n \in Nat /\ rec.pc = "create" /\ UNCHANGED server
    BY <1>1, BoundsAssumption DEF CreateExperiment
<1>4. \A i \in ids : i \in Nat /\ i > nextId /\ i <= nextId'
    BY <1>1, <1>3
<1>5. x \in SUBSET ResStatus
    <2>1. \A i \in ids : i \in Nat /\ (i \in ok) \in BOOLEAN
        BY <1>4
    <2>2. \A i \in ids : [id |-> i, ok |-> i \in ok] \in ResStatus
        BY <2>1, Zenon DEF ResStatus
    <2> QED BY <2>2, Zenon
<1>6. \A k : k \in OkOf(x) <=> k \in ok
    BY OkOfStatus
<1>7. /\ active' = active \cup {[id |-> i, spec |-> rec.cb.spec] : i \in made}
      /\ trouble' = IF made # ok THEN trouble \cup {"noReply"} ELSE trouble
      /\ Advance(Append(rec.out, x), Size[rec.cb.spec],
                 IF done THEN "Running" ELSE rec.phase)
    BY <1>2 DEF Create
<1> HIDE DEF ids, x
<1>8. /\ rec'.out = Append(rec.out, x)
      /\ rec'.phase = IF done THEN "Running" ELSE rec.phase
      /\ rec'.cb = rec.cb /\ rec'.with = rec.with
      /\ rec'.pc \in {"create", "status"}
    BY <1>3, <1>7, AdvanceForm
<1>9. \A k : k \in OkIds(rec'.out) <=> k \in OkIds(rec.out) \/ k \in ok
    BY <1>5, <1>6, <1>8, OkAppend DEF Call
<1>10. Current(rec.cb)' <=> Current(rec.cb)
    BY <1>3, <1>8 DEF Current
<1>11. \A i \in Nat : i <= nextId => i <= nextId'
    BY <1>1, <1>3
<1>12. \A e : Known(e) /\ OkIds(e) \subseteq Nat => Known(e)'
    BY <1>11 DEF Known
<1>13. OkIds(server.exps) \subseteq Nat /\ OkIds(rec.out) \subseteq Nat
    <2>1. ASSUME NEW e \in Seq(SUBSET ResStatus) PROVE OkIds(e) \subseteq Nat
        BY <2>1, OkMember DEF OkOf, ResStatus
    <2> QED BY <2>1 DEF TypeOK, Call, Object
<1>14. ObjectOK' /\ NumbersOK'
    <2>1. ObjectOK' /\ Known(server.exps)'
        BY <1>3, <1>12, <1>13 DEF SInv, ObjectOK, NumbersOK
    <2>2. Known(rec.out) => Known(rec.out)'
        BY <1>4, <1>9, <1>11, <1>13 DEF Known
    <2> QED BY <1>10, <2>1, <2>2 DEF SInv, NumbersOK
<1>15. CallOK'
    BY <1>3, <1>8, <1>10 DEF SInv, CallOK, StatusOK
<1>16. ASSUME trouble' = {} PROVE Untroubled'
    <2>1. trouble = {} /\ Untroubled /\ made = ok
        BY <1>7, <1>16 DEF SInv
    <2>2. HeldOK'
        BY <1>3, <1>8, <1>10, <2>1 DEF Untroubled, HeldOK
    <2>3. LoopStops'
        BY <1>3, <1>8 DEF SInv, CallOK, LoopStops
    <2>4. \A f \in active' : f \in active \/ f.id \in ok
        BY <1>7, <2>1
    <2>5. Stopped'
        <3>1. \A i \in ok : i \notin OkIds(server.exps)
            BY <1>4 DEF SInv, NumbersOK, Known
        <3> QED BY <1>3, <2>1, <2>4, <3>1 DEF Untroubled, Stopped, Expired
    <2>6. Accounted'
        BY <1>3, <1>8, <1>9, <2>1, <2>4 DEF Untroubled, Accounted
    <2> QED BY <2>2, <2>3, <2>5, <2>6 DEF Untroubled
<1> QED BY <1>14, <1>15, <1>16 DEF SInv

\* The next experiment is destroyed: unless that is one of Causes, none of the
\* faults it had recorded is left.
LEMMA DestroyKeeps ==
    ASSUME IInv, SInv, DestroyExperiment
    PROVE  SInv'
<1> TypeOK /\ rec \in Call /\ rec.cb \in Object
    BY DEF IInv, TypeOK, Call
<1> DEFINE cur  == rec.cb.exps[Len(rec.out) + 1]
           ids  == OkOf(cur)
           mine == {f \in active : f.id \in ids}
<1>1. PICK stopped \in SUBSET mine, failed \in SUBSET ids, lost \in BOOLEAN,
           done \in BOOLEAN : Destroy(ids, mine, stopped, failed, lost, done)
    BY DEF DestroyExperiment, OkOf
<1> DEFINE x == IF lost THEN {} ELSE {[id |-> i, ok |-> i \notin failed] : i \in ids}
<1>2. rec.pc = "destroy" /\ UNCHANGED <<server, nextId>>
    BY DEF DestroyExperiment
<1>3. /\ rec.out \in Seq(SUBSET ResStatus) /\ rec.cb.exps \in Seq(SUBSET ResStatus)
      /\ Len(rec.out) < Len(rec.cb.exps)
    BY <1>2 DEF IInv, LoopOK, Call, Object
<1>4. Len(rec.out) + 1 \in 1 .. Len(rec.cb.exps)
    BY <1>3
<1>5. cur \in SUBSET ResStatus
    BY <1>3, <1>4
<1>6. ids \subseteq Nat /\ \A k \in ids : k \in OkIds(rec.cb.exps)
    <2>1. ids \subseteq Nat
        BY <1>5 DEF OkOf, ResStatus
    <2> QED BY <1>4, <2>1, OkMember
<1>7. \A k : k \in OkOf(x) => k \in ids
    <2>1. \A k : k \notin OkOf({})
        BY DEF OkOf
    <2>2. CASE lost
        BY <2>1, <2>2
    <2>3. CASE ~lost
        <3> DEFINE status(i) == [id |-> i, ok |-> i \notin failed]
        <3>1. \A i : status(i).id = i
            BY Zenon
        <3>2. x = {status(i) : i \in ids}
            BY <2>3
        <3> HIDE DEF status, x
        <3> QED BY <3>1, <3>2 DEF OkOf
    <2> QED BY <2>2, <2>3
<1>8. x \in SUBSET ResStatus
    <2>1. \A i \in ids : i \in Nat /\ (i \notin failed) \in BOOLEAN
        BY <1>6
    <2>2. \A i \in ids : [id |-> i, ok |-> i \notin failed] \in ResStatus
        BY <2>1, Zenon DEF ResStatus
    <2> QED BY <2>2, Zenon
<1>9. /\ active' = active \ stopped
      /\ trouble' = trouble
             \cup (IF mine \ stopped \subseteq {f \in mine : f.spec # rec.with}
                   THEN {} ELSE {"destroyFailed"})
             \cup (IF {f \in mine : f.spec # rec.with} = {} THEN {} ELSE {"specMismatch"})
      /\ Advance(Append(rec.out, x), Len(rec.cb.exps),
                 IF done THEN rec.phase ELSE "Destroying")
    BY <1>1 DEF Destroy
<1> HIDE DEF x
<1>10. trouble' = {} => trouble = {} /\ mine \ stopped = {}
    BY <1>9
<1>11. trouble' = {} => \A f \in active' : f.id \notin ids
    BY <1>9, <1>10
<1> HIDE DEF ids, mine
<1>12. /\ rec'.out = Append(rec.out, x)
       /\ rec'.phase = IF done THEN rec.phase ELSE "Destroying"
       /\ rec'.cb = rec.cb /\ rec'.with = rec.with
       /\ rec'.pc = IF Len(rec'.out) < Len(rec.cb.exps) THEN "destroy" ELSE "status"
    BY <1>2, <1>9, AdvanceForm
<1>13. \A k : k \in OkIds(rec'.out) => k \in OkIds(rec.out) \/ k \in ids
    BY <1>3, <1>7, <1>8, <1>12, OkAppend
<1>14. Current(rec.cb)' <=> Current(rec.cb)
    BY <1>2, <1>12 DEF Current
<1>15. Current(rec.cb) => rec.cb.exps = server.exps
    BY DEF Current, IInv, Coherent, Fresh
<1>16. ObjectOK' /\ NumbersOK'
    <2>1. ObjectOK' /\ Known(server.exps)'
        BY <1>2 DEF SInv, ObjectOK, NumbersOK, Known
    <2>2. Current(rec.cb) => Known(rec.out)'
        BY <1>2, <1>6, <1>13, <1>15 DEF SInv, NumbersOK, Known
    <2> QED BY <1>14, <2>1, <2>2 DEF NumbersOK
<1>17. CallOK'
    BY <1>2, <1>12, <1>14 DEF SInv, CallOK, StatusOK
<1>18. ASSUME trouble' = {} PROVE Untroubled'
    <2>1. Untroubled /\ active' \subseteq active
        BY <1>9, <1>10, <1>18 DEF SInv
    <2>2. HeldOK'
        BY <1>2, <1>12, <1>14, <2>1 DEF Untroubled, HeldOK
    <2>3. Expired(OkIds(rec.out))'
        BY <1>2, <1>11, <1>13, <1>18, <2>1 DEF Untroubled, LoopStops, Expired
    <2>4. \A i \in 1 .. Len(rec'.out) : Expired(OkOf(rec.cb.exps[i]))'
        <3> SUFFICES ASSUME NEW i \in 1 .. Len(rec'.out)
                     PROVE  \A f \in active' : f.id \notin OkOf(rec'.cb.exps[i])
            BY DEF Expired
        <3>1. Len(rec'.out) = Len(rec.out) + 1
            BY <1>3, <1>8, <1>12
        <3>2. CASE i \in 1 .. Len(rec.out)
            BY <1>2, <1>12, <2>1, <3>2 DEF Untroubled, LoopStops, Expired
        <3>3. CASE i = Len(rec.out) + 1
            BY <1>11, <1>12, <1>18, <3>3 DEF ids
        <3>4. i \in 1 .. Len(rec.out) \/ i = Len(rec.out) + 1
            BY <1>3, <3>1
        <3> QED BY <3>2, <3>3, <3>4
    <2>5. rec'.pc = "status" => Expired(OkIds(rec.cb.exps))'
        <3> SUFFICES ASSUME rec'.pc = "status", NEW f \in active'
                     PROVE  f.id \notin OkIds(rec'.cb.exps)
            BY DEF Expired
        <3>1. \A i \in 1 .. Len(rec.cb.exps) : i \in 1 .. Len(rec'.out)
            BY <1>3, <1>8, <1>12
        <3>2. \A i \in 1 .. Len(rec.cb.exps) : f.id \notin OkOf(rec.cb.exps[i])
            BY <1>12, <2>4, <3>1 DEF Expired
        <3> QED BY <1>12, <3>2, OkMember
    <2>6. LoopStops'
        BY <1>12, <2>3, <2>4, <2>5 DEF LoopStops
    <2>7. Stopped' /\ Accounted'
        BY <1>2, <2>1 DEF Untroubled, Stopped, Accounted, Expired
    <2> QED BY <2>2, <2>6, <2>7 DEF Untroubled
<1> QED BY <1>16, <1>17, <1>18 DEF SInv

\* The annotation is kept, or not: the call goes on with a copy that is current
\* only if the one it came with was.
LEMMA AnnotateKeeps ==
    ASSUME IInv, SInv, Annotate
    PROVE  SInv'
<1> TypeOK /\ Coherent /\ server \in Object /\ rec \in Call /\ rec.cb \in Object
    BY DEF IInv, TypeOK, Call
<1> DEFINE next(cb) == [rec EXCEPT !.cb = cb,
                            !.pc = IF cb.exps = <<>> THEN "status" ELSE "destroy"]
           obj == [server EXCEPT !.pre = rec.cb.pre]
<1>1. /\ rec.pc = "annotate" /\ rec.out = <<>>
      /\ UNCHANGED <<active, nextId, trouble>>
    BY DEF Annotate, IInv, LoopOK, cluster
<1>2. \/ Current(rec.cb) /\ Put(obj) /\ rec' = next(server')
      \/ Current(rec.cb) /\ Put(obj) /\ rec' = next(rec.cb)
      \/ UNCHANGED <<server, rv, watch>> /\ rec' = next(rec.cb)
    BY DEF Annotate
<1>3. /\ obj \in Object /\ obj.live = server.live /\ obj.spec = server.spec
      /\ obj.fin = server.fin /\ obj.dt = server.dt
      /\ obj.phase = server.phase /\ obj.exps = server.exps
    <2>1. rec.cb.pre \in Specs \cup {NoSpec}
        BY DEF Object
    <2>2. obj \in Object
        BY <2>1, ServerFields
    <2> QED BY <2>2 DEF Object
<1> HIDE DEF obj
<1>4. /\ server'.live = server.live /\ server'.spec = server.spec
      /\ server'.fin = server.fin /\ server'.dt = server.dt
      /\ server'.phase = server.phase /\ server'.exps = server.exps
    <2>1. Current(rec.cb) => ~(obj.dt /\ ~obj.fin)
        BY <1>3 DEF SInv, ObjectOK
    <2> QED BY <1>2, <1>3, <2>1, PutResult
<1>5. /\ rec'.out = <<>> /\ rec'.with = rec.with /\ rec'.phase = rec.phase
      /\ \/ rec'.cb = rec.cb
         \/ rec'.cb = server' /\ Current(rec.cb)
      /\ \/ rec'.pc = "destroy"
         \/ rec'.pc = "status" /\ rec'.cb.exps = <<>>
    BY <1>1, <1>2 DEF Call
<1>6. Current(rec.cb)' => Current(rec.cb)
    <2>1. CASE rec'.cb = rec.cb
        <3>1. server'.live /\ rec.cb.rv = server'.rv => server' = server
            BY <1>2, <1>3, Overtaken DEF Coherent
        <3> QED BY <2>1, <3>1 DEF Current
    <2> QED BY <1>5, <2>1
<1>7. ObjectOK'
    <2>1. ~server'.live => server' = NoBlade
        BY <1>2, <1>4 DEF SInv, ObjectOK, Current
    <2> QED BY <1>4, <2>1 DEF SInv, ObjectOK
<1>8. NumbersOK'
    BY <1>1, <1>4, <1>5, OkEmpty DEF SInv, NumbersOK, Known
<1>9. CallOK'
    <2>1. Current(rec.cb)' => /\ rec'.with # NoSpec
                              /\ rec'.phase \in {"Updating", "Destroying", "Destroyed"}
        BY <1>1, <1>5, <1>6 DEF SInv, CallOK
    <2> QED BY <1>5, <2>1 DEF CallOK, StatusOK
<1>10. ASSUME trouble' = {} PROVE Untroubled'
    <2>1. Untroubled
        BY <1>1, <1>10 DEF SInv
    <2>2. HeldOK'
        BY <1>1, <1>4, <1>6, <2>1 DEF Untroubled, HeldOK
    <2>3. LoopStops'
        BY <1>5, OkEmpty DEF LoopStops, Expired
    <2>4. Stopped' /\ Accounted'
        BY <1>1, <1>4, <2>1 DEF Untroubled, Stopped, Accounted, Expired
    <2> QED BY <2>2, <2>3, <2>4 DEF Untroubled
<1> QED BY <1>7, <1>8, <1>9, <1>10 DEF SInv

\* The status is stored: what it says is what is in effect, whichever branch of
\* Reconcile it comes from.
LEMMA StatusKeeps ==
    ASSUME IInv, SInv, WriteStatus
    PROVE  SInv'
<1> TypeOK /\ Coherent /\ server \in Object /\ rec \in Call /\ rec.cb \in Object
    BY DEF IInv, TypeOK, Call
<1> DEFINE obj == [server EXCEPT !.phase = rec.phase, !.exps = rec.out]
<1>1. rec.pc = "status" /\ rec' = Idle /\ UNCHANGED <<active, nextId>>
    BY DEF WriteStatus, Return, cluster
<1>2. CASE Lose /\ UNCHANGED <<server, rv, watch>>
    BY <1>1, <1>2, ReturnKeeps
<1>3. ASSUME Current(rec.cb), Put(obj),
             trouble' = IF /\ rec.phase = "Destroyed" /\ rec.with = NoSpec
                           /\ \E f \in active : f.id \in OkIds(rec.out)
                        THEN trouble \cup {"specMismatch"} ELSE trouble
      PROVE  SInv'
    <2>1. /\ obj \in Object /\ obj.live = server.live /\ obj.spec = server.spec
          /\ obj.fin = server.fin /\ obj.dt = server.dt
          /\ obj.phase = rec.phase /\ obj.exps = rec.out
        <3>1. obj \in Object
            BY ServerFields DEF Call
        <3> QED BY <3>1 DEF Object
    <2> HIDE DEF obj
    <2>2. /\ server'.live /\ server'.spec = server.spec
          /\ server'.fin = server.fin /\ server'.dt = server.dt
          /\ server'.phase = rec.phase /\ server'.exps = rec.out /\ server.live
        <3>1. ~(obj.dt /\ ~obj.fin) /\ server.live
            BY <1>3, <2>1 DEF SInv, ObjectOK, Current
        <3>2. Put(obj)
            BY <1>3
        <3> QED BY <2>1, <3>1, <3>2, PutResult
    <2>3. rec'.pc = "idle" /\ rec'.out = <<>>
        BY <1>1 DEF Idle
    <2>4. server.phase = rec.cb.phase /\ server.exps = rec.cb.exps
        BY <1>3 DEF Current, Coherent, Fresh
    <2>5. StatusOK
        BY <1>1, <1>3 DEF SInv, CallOK
    <2>6. ObjectOK' /\ NumbersOK' /\ CallOK'
        BY <1>1, <1>3, <2>2, <2>3, OkEmpty DEF SInv, ObjectOK, NumbersOK, Known, CallOK
    <2>7. ASSUME trouble' = {} PROVE Untroubled'
        <3>1. trouble = {} /\ Untroubled
            BY <1>3, <2>7 DEF SInv
        <3>2. HeldOK'
            BY <1>1, <1>3, <2>2, <2>3, <3>1 DEF Untroubled, HeldOK
        <3>3. LoopStops'
            BY <2>3 DEF LoopStops
        <3>4. \A f \in active : f.id \in OkIds(server.exps) \/ f.id \in OkIds(rec.out)
            BY <3>1 DEF Untroubled, Accounted
        <3>5. /\ \A f \in active : f.id \in OkIds(rec.out)
              /\ rec.phase \in {"Initial", "Initialized", "Updating", "Destroyed"}
                   => \A f \in active : f.id \notin OkIds(rec.out)
            <4>1. CASE /\ rec.with = NoSpec /\ rec.phase = "Initialized"
                       /\ rec.cb.phase = "Initial" /\ rec.out = <<>>
                BY <2>4, <3>1, <3>4, <4>1, OkEmpty DEF Untroubled, Stopped, Expired
            <4>2. CASE /\ rec.with = NoSpec /\ rec.phase \in {"Running", "Error"}
                       /\ rec.cb.phase \in {"Initialized", "Updating"}
                BY <2>4, <3>1, <3>4, <4>2 DEF Untroubled, Stopped, Expired
            <4>3. CASE /\ rec.with = NoSpec /\ rec.phase = "Destroyed"
                       /\ rec.out = rec.cb.exps
                BY <1>3, <2>4, <2>7, <3>4, <4>3
            <4>4. CASE rec.with # NoSpec
                BY <1>1, <2>4, <3>1, <3>4, <4>4 DEF Untroubled, LoopStops, Expired
            <4> QED BY <2>5, <4>1, <4>2, <4>3, <4>4 DEF StatusOK
        <3>6. Stopped' /\ Accounted'
            BY <1>1, <2>2, <3>5 DEF Stopped, Accounted, Expired
        <3> QED BY <3>2, <3>3, <3>6 DEF Untroubled
    <2> QED BY <2>6, <2>7 DEF SInv
<1> QED BY <1>2, <1>3 DEF WriteStatus

\* The finalizer is set before anything is in effect and goes when all is over.
LEMMA FinalizerKeeps ==
    ASSUME IInv, SInv, WriteFinalizer
    PROVE  SInv'
<1> TypeOK /\ Coherent /\ server \in Object /\ rec \in Call /\ rec.cb \in Object
    BY DEF IInv, TypeOK, Call
<1> DEFINE obj == [server EXCEPT !.fin = (rec.pc = "addFin"), !.pre = rec.cb.pre]
<1>1. /\ rec.pc \in {"addFin", "removeFin"} /\ rec' = Idle
      /\ UNCHANGED <<active, nextId, trouble>>
    BY DEF WriteFinalizer, Return, cluster
<1>2. CASE UNCHANGED <<server, rv, watch>>
    BY <1>1, <1>2, ReturnKeeps
<1>3. CASE Current(rec.cb) /\ Put(obj)
    <2>1. /\ obj \in Object /\ obj.live = server.live /\ obj.spec = server.spec
          /\ obj.dt = server.dt
          /\ obj.phase = server.phase /\ obj.exps = server.exps
        <3>1. (rec.pc = "addFin") \in BOOLEAN /\ rec.cb.pre \in Specs \cup {NoSpec}
            BY DEF Object
        <3>2. obj \in Object
            BY <3>1, ServerFields, Zenon
        <3> QED BY <3>2 DEF Object
    <2>2. obj.fin <=> rec.pc = "addFin"
        BY DEF Object
    <2> HIDE DEF obj
    <2>3. rec.pc = "removeFin" => server.phase = "Destroyed"
        BY <1>3 DEF Current, Coherent, Fresh, IInv, NotOver
    <2>4. rec'.pc = "idle" /\ rec'.out = <<>>
        BY <1>1 DEF Idle
    <2>5. \/ server' = server
          \/ server' = NoBlade /\ server.phase = "Destroyed"
          \/ /\ ~(obj.dt /\ ~obj.fin)
             /\ server'.live /\ server'.spec = server.spec
             /\ server'.fin = obj.fin /\ server'.dt = server.dt
             /\ server'.phase = server.phase /\ server'.exps = server.exps
        <3>1. server.live /\ Put(obj)
            BY <1>3 DEF Current
        <3> QED BY <1>1, <2>1, <2>2, <2>3, <3>1, PutResult
    <2>6. ~NoBlade.live /\ ~NoBlade.dt /\ NoBlade.exps = <<>>
        BY DEF NoBlade
    <2>7. ObjectOK'
        BY <1>3, <2>1, <2>5, <2>6 DEF SInv, ObjectOK, Current
    <2>8. NumbersOK' /\ CallOK'
        BY <1>1, <2>4, <2>5, <2>6, OkEmpty DEF SInv, NumbersOK, Known, CallOK
    <2>9. ASSUME trouble' = {} PROVE Untroubled'
        <3>1. Untroubled
            BY <1>1, <2>9 DEF SInv
        <3>2. HeldOK'
            BY <1>1, <2>2, <2>3, <2>4, <2>5, <2>6, <3>1 DEF Untroubled, HeldOK
        <3>3. LoopStops'
            BY <2>4 DEF LoopStops
        <3>4. \A f \in active : f.id \in OkIds(server.exps)
            BY <1>1, <3>1 DEF Untroubled, Accounted
        <3>5. Stopped' /\ Accounted'
            BY <1>1, <2>5, <2>6, <3>1, <3>4, OkEmpty DEF Untroubled, Stopped, Accounted, Expired
        <3> QED BY <3>2, <3>3, <3>5 DEF Untroubled
    <2> QED BY <2>7, <2>8, <2>9 DEF SInv
<1> QED BY <1>2, <1>3 DEF WriteFinalizer

-----------------------------------------------------------------------------
(***************************************************************************)
(* The theorems.                                                           *)
(***************************************************************************)

\* Nothing is in effect and nothing is recorded at first.
LEMMA SafetyStart == Init => SInv
<1> SUFFICES ASSUME Init PROVE SInv
    OBVIOUS
<1>1. /\ server = NoBlade /\ rec = Idle /\ active = {}
      /\ ~server.live /\ ~server.dt /\ server.exps = <<>>
      /\ rec.pc = "idle" /\ rec.out = <<>>
    BY DEF Init, NoBlade, Idle
<1> QED BY <1>1, OkEmpty DEF SInv, ObjectOK, NumbersOK, Known, CallOK, Untroubled,
           HeldOK, LoopStops, Stopped, Accounted, Expired, Current

\* Every step keeps the account of the faults in effect.
LEMMA SafetyStep ==
    ASSUME IInv, SInv, [Next]_vars
    PROVE  SInv'
<1>1. CASE Informer
    BY <1>1, QuietKeeps DEF Informer, Deliver, Relist, Resync, Handle, cluster
<1>2. CASE Reconciler
    <2>1. CASE DestroyPanic
        BY <2>1, ReturnKeeps DEF DestroyPanic, Return, cluster
    <2> QED BY <1>2, <2>1, ReconcileKeeps, CreateKeeps, AnnotateKeeps, DestroyKeeps,
               StatusKeeps, FinalizerKeeps DEF Reconciler
<1>3. CASE Expiry
    BY <1>3, QuietKeeps DEF Expiry, FaultTimeout
<1>4. CASE Restart
    BY <1>4, ReturnKeeps DEF Restart, cluster
<1>5. CASE UNCHANGED vars
    BY <1>5, QuietKeeps DEF vars
<1> QED BY <1>1, <1>2, <1>3, <1>4, <1>5, UserKeeps, BackgroundKeeps DEF Next

\* In every reachable state every fault in effect is accounted for.
LEMMA Accounting == Spec => [](IInv /\ SInv)
<1>1. Init => IInv /\ SInv
    BY InitialState, SafetyStart
<1>2. (IInv /\ SInv) /\ [Next]_vars => (IInv /\ SInv)'
    BY InductiveStep, SafetyStep
<1> QED BY <1>1, <1>2, PTL DEF Spec

\* Deleting a blade stops its experiments: when the object is gone and no call
\* of Reconcile is under way nothing is left in effect, whatever the edits, the
\* restarts and the stale copies on the way, unless one of Causes was met.
THEOREM RemovalIsClean == Spec => []CleanRemoval
<1>1. SInv => CleanRemoval
    <2> SUFFICES ASSUME SInv, trouble = {}, ~server.live, rec.pc = "idle"
                 PROVE  active = {}
        BY DEF CleanRemoval
    <2>1. server.exps = <<>>
        BY OkEmpty DEF SInv, ObjectOK
    <2>2. \A f \in active : f.id \in OkIds(server.exps)
        BY DEF SInv, Untroubled, Accounted
    <2> QED BY <2>1, <2>2, OkEmpty
<1> QED BY <1>1, Accounting, PTL

\* Phase Destroyed is the truth: whoever wrote it, nothing that the object
\* records is in effect any more, unless one of Causes was met.
THEOREM DestroyedIsTrue == Spec => []DestroyedMeansStopped
<1>1. SInv => DestroyedMeansStopped
    BY DEF SInv, Untroubled, Stopped, Expired, DestroyedMeansStopped
<1> QED BY <1>1, Accounting, PTL

\* "firstly destroy it and re-create": the experiments of two specifications
\* are never in effect together, unless one of Causes was met.
THEOREM ExperimentsDoNotOverlap == Spec => []NoOverlap
<1>1. IInv /\ SInv => NoOverlap
    <2> SUFFICES ASSUME IInv, SInv, trouble = {}, rec.pc = "create", Current(rec.cb),
                        NEW f \in active
                 PROVE  f.id \in OkIds(rec.out)
        BY DEF NoOverlap
    <2>1. server.phase \in {"Initialized", "Updating"}
        BY DEF SInv, CallOK, Current, IInv, Coherent, Fresh
    <2> QED BY <2>1 DEF SInv, Untroubled, Stopped, Accounted, Expired
<1> QED BY <1>1, Accounting, PTL

=============================================================================
