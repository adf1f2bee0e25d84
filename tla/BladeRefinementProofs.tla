------------------------ MODULE BladeRefinementProofs ------------------------
(***************************************************************************)
(* The life of a blade implements its contract, for every value of the     *)
(* constants: the theorem behind the property ImplementsContract.          *)
(***************************************************************************)
EXTENDS BladeRefinement, BladeSafetyProofs

-----------------------------------------------------------------------------
(***************************************************************************)
(* The invariant about stale copies.  The contract wants the finalizer     *)
(* under every experiment that starts, and Reconcile starts them from a    *)
(* copy that may be old: what has to be shown is that, as long as such a   *)
(* copy is on its way, nobody drops the finalizer.                         *)
(***************************************************************************)

\* The versions that the server, the cache and the watch stream hold.
Seen == {server, cache} \cup {watch[i] : i \in 1 .. Len(watch)}

\* A version that makes Reconcile create experiments, one that makes the
\* clean-up loop give the blade up.
Starting(c) == c.live /\ ~c.dt /\ c.phase \in {"Initialized", "Updating"}
Failing(c)  == c.live /\ c.phase = "Destroying"

\* Only the last version of the watch stream is the server's.
Ordered ==
    server.live /\ watch # <<>> =>
        /\ cache.rv < server.rv
        /\ \A i \in 1 .. Len(watch) : i < Len(watch) => watch[i].rv < server.rv

\* While a call of Reconcile can still write, nothing has happened to the blade
\* since it read it.
UpToDate ==
    Current(rec.cb) =>
        \A c \in Seen : c.live /\ c.phase = rec.cb.phase /\ c.dt = rec.cb.dt

\* The phase a call has come from.
PathOK ==
    /\ rec.pc = "addFin" => rec.cb.phase = "Initial" /\ ~rec.cb.fin
    /\ Current(rec.cb) /\ rec.pc \in {"annotate", "destroy", "status"} /\ rec.with # NoSpec
         => /\ rec.phase = "Updating" => rec.cb.phase \in {"Running", "Error"}
            /\ rec.cb.phase \in {"Running", "Error", "Destroying"} \/ rec.cb.dt

\* No version to be created and version to be given up are around together.
Apart ==
    (\E c \in Seen : Failing(c))
        => rec.pc # "create" /\ \A c \in Seen : ~Starting(c)

Guarded ==
    rec.pc = "create" \/ (\E c \in Seen : Starting(c)) => server.fin

\* The blade that the clean-up loop has selected stays what it was selected
\* for, until it is gone.
Selected ==
    doomed => /\ server.live => server.dt /\ server.phase \in {"Destroying", "Destroyed"}
              /\ rec.pc # "create"
              /\ \A c \in Seen : ~Starting(c)

RInv == /\ Ordered /\ UpToDate /\ PathOK /\ Apart
        /\ trouble = {} => Guarded /\ Selected

-----------------------------------------------------------------------------
(***************************************************************************)
(* Writes and what is seen of them.                                        *)
(***************************************************************************)

\* What a write to the API server does.
Stored ==
    \/ UNCHANGED <<server, rv, watch>>
    \/ /\ rv' = rv + 1
       /\ watch' = Append(watch, server')
       /\ server'.rv = rv + 1 \/ server' = NoBlade

LEMMA PutStores ==
    ASSUME NEW obj \in Object, Put(obj)
    PROVE  Stored
<1>1. CASE obj = server
    BY <1>1 DEF Put, Stored
<1>2. CASE obj # server
    BY <1>2 DEF Put, Stored, Object
<1> QED BY <1>1, <1>2

\* A write adds the version it stores to what is seen, at the end.
LEMMA StoredSeen ==
    ASSUME IInv, Ordered, Stored, cache' = cache
    PROVE  /\ \A c \in Seen' : c \in Seen \/ c = server'
           /\ Ordered'
<1>1. /\ watch \in Seq(Object) /\ rv \in Nat /\ cache \in Object
      /\ cache.rv <= rv /\ \A i \in 1 .. Len(watch) : watch[i].rv <= rv
    BY DEF IInv, TypeOK, Coherent, Fresh
<1>2. CASE UNCHANGED <<server, rv, watch>>
    BY <1>2 DEF Seen, Ordered
<1>3. CASE /\ watch' = Append(watch, server')
           /\ server'.rv = rv + 1 \/ server' = NoBlade
    <2>1. \A i \in 1 .. Len(watch') :
             \/ i = Len(watch') /\ watch'[i] = server'
             \/ i \in 1 .. Len(watch) /\ watch'[i] = watch[i]
        BY <1>1, <1>3
    <2>2. ~NoBlade.live
        BY DEF NoBlade
    <2>3. Ordered'
        <3> SUFFICES ASSUME server'.live
                     PROVE  /\ cache'.rv < server'.rv
                            /\ \A i \in 1 .. Len(watch') :
                                  i < Len(watch') => watch'[i].rv < server'.rv
            BY DEF Ordered
        <3>1. server'.rv = rv + 1
            BY <1>3, <2>2
        <3>2. cache.rv \in Nat /\ \A i \in 1 .. Len(watch) : watch[i].rv \in Nat
            <4>1. \A i \in 1 .. Len(watch) : watch[i] \in Object
                BY <1>1
            <4>2. \A o \in Object : o.rv \in Nat
                BY DEF Object
            <4> QED BY <1>1, <4>1, <4>2
        <3> QED BY <1>1, <2>1, <3>1, <3>2
    <2>4. \A c \in Seen' : c \in Seen \/ c = server'
        BY <2>1 DEF Seen
    <2> QED BY <2>3, <2>4
<1> QED BY <1>2, <1>3 DEF Stored

\* A copy from before is current after a write only if there was none.
LEMMA StoredOvertakes ==
    ASSUME IInv, Stored, NEW c \in Object, Fresh(c, server, rv)
    PROVE  server'.live /\ c.rv = server'.rv => UNCHANGED <<server, rv, watch>>
<1>1. rv \in Nat /\ c.rv \in Nat /\ c.rv <= rv
    BY DEF IInv, TypeOK, Object, Fresh
<1>2. ~NoBlade.live
    BY DEF NoBlade
<1> QED BY <1>1, <1>2 DEF Stored

\* A call that goes on unchanged, or ends, keeps what is known of it.
LEMMA CallKept ==
    ASSUME IInv, RInv, Stored, cache' = cache, rec' = rec \/ rec' = Idle,
           server'.live => server'.rv > 0
    PROVE  UpToDate' /\ PathOK'
<1>1. CASE rec' = Idle
    <2>1. rec'.pc = "idle" /\ rec'.cb.rv = 0
        BY <1>1 DEF Idle, NoBlade
    <2>2. ~Current(rec.cb)'
        BY <2>1 DEF Current
    <2> QED BY <2>1, <2>2 DEF UpToDate, PathOK
<1>2. CASE rec' = rec
    <2>1. rec.cb \in Object /\ Fresh(rec.cb, server, rv)
        BY DEF IInv, TypeOK, Call, Coherent
    <2>2. Current(rec.cb)' => UNCHANGED <<server, rv, watch>>
        BY <1>2, <2>1, StoredOvertakes DEF Current
    <2>3. Current(rec.cb)' => Current(rec.cb)
        BY <1>2, <2>2 DEF Current
    <2>4. UpToDate'
        BY <1>2, <2>2, <2>3 DEF RInv, UpToDate, Seen
    <2>5. PathOK'
        BY <1>2, <2>3 DEF RInv, PathOK
    <2> QED BY <2>4, <2>5
<1> QED BY <1>1, <1>2

\* A write that makes the blade neither one to be created nor one to be given
\* up, and that drops no finalizer anything may still rely on.
LEMMA StoreOrder ==
    ASSUME IInv, RInv, Stored, cache' = cache, UpToDate', PathOK',
           rec'.pc = "create" => rec.pc = "create",
           trouble' = {} => trouble = {},
           doomed' => doomed,
           Failing(server') => Failing(server),
           Starting(server') => Starting(server),
           trouble' = {} /\ server.fin =>
               \/ server'.fin
               \/ rec.pc # "create" /\ \A c \in Seen : ~Starting(c),
           trouble' = {} /\ doomed' /\ server'.live =>
               /\ server.live
               /\ server.dt => server'.dt
               /\ server'.phase \in {server.phase, "Destroyed"}
    PROVE  RInv'
<1>1. (\A c \in Seen' : c \in Seen \/ c = server') /\ Ordered'
    BY StoredSeen DEF RInv
<1>2. /\ \A c \in Seen' : Failing(c) => \E d \in Seen : Failing(d)
      /\ \A c \in Seen' : Starting(c) => \E d \in Seen : Starting(d)
    <2>1. server \in Seen
        BY DEF Seen
    <2> QED BY <1>1, <2>1
<1>3. Apart'
    <2> SUFFICES ASSUME NEW c \in Seen', Failing(c)
                 PROVE  rec'.pc # "create" /\ \A d \in Seen' : ~Starting(d)
        BY DEF Apart, Failing, Starting
    <2> QED BY <1>2 DEF RInv, Apart
<1>4. ASSUME trouble' = {} PROVE Guarded' /\ Selected'
    <2>1. Guarded /\ Selected
        BY <1>4 DEF RInv
    <2>2. Guarded'
        <3> SUFFICES ASSUME rec'.pc = "create" \/ (\E c \in Seen' : Starting(c))
                     PROVE  server'.fin
            BY DEF Guarded, Starting
        <3> QED BY <1>2, <1>4, <2>1 DEF Guarded
    <2>3. Selected'
        <3> SUFFICES ASSUME doomed'
                     PROVE  /\ server'.live => /\ server'.dt
                                               /\ server'.phase \in {"Destroying", "Destroyed"}
                            /\ rec'.pc # "create"
                            /\ \A c \in Seen' : ~Starting(c)
            BY DEF Selected, Starting
        <3> QED BY <1>2, <1>4, <2>1 DEF Selected
    <2> QED BY <2>2, <2>3
<1> QED BY <1>1, <1>3, <1>4 DEF RInv

-----------------------------------------------------------------------------
(***************************************************************************)
(* The steps of everybody but Reconcile.                                   *)
(***************************************************************************)

\* A write of a user, of the clean-up loop or of a watcher.
LEMMA WriteOrder ==
    ASSUME IInv, IInv', RInv, NEW obj \in Object, Put(obj),
           UNCHANGED <<cache, rec>>, trouble' = {} => trouble = {}, doomed' => doomed,
           obj.live, Failing(obj) => Failing(server), Starting(obj) => Starting(server),
           trouble' = {} /\ server.fin =>
               \/ obj.fin
               \/ rec.pc # "create" /\ \A c \in Seen : ~Starting(c),
           trouble' = {} /\ doomed' =>
               /\ server.live
               /\ server.dt => obj.dt
               /\ obj.phase \in {server.phase, "Destroyed"}
    PROVE  RInv'
<1>1. Stored
    BY PutStores
<1>2. server'.live => server'.rv > 0
    BY DEF IInv, Coherent
<1>3. UpToDate' /\ PathOK'
    BY <1>1, <1>2, CallKept
<1>4. \/ server' = server /\ obj = server
      \/ obj.dt /\ ~obj.fin /\ server' = NoBlade
      \/ /\ server'.live = obj.live /\ server'.fin = obj.fin
         /\ server'.dt = obj.dt /\ server'.phase = obj.phase
    BY PutResult DEF IInv
<1>5. ~NoBlade.live
    BY DEF NoBlade
<1>6. /\ Failing(server') => Failing(server)
      /\ Starting(server') => Starting(server)
    BY <1>4, <1>5 DEF Failing, Starting
<1>7. trouble' = {} /\ server.fin =>
          \/ server'.fin
          \/ rec.pc # "create" /\ \A c \in Seen : ~Starting(c)
    BY <1>4
<1>8. trouble' = {} /\ doomed' /\ server'.live =>
          /\ server.live
          /\ server.dt => server'.dt
          /\ server'.phase \in {server.phase, "Destroyed"}
    BY <1>4, <1>5
<1> QED BY <1>1, <1>3, <1>6, <1>7, <1>8, StoreOrder

\* A step that leaves the object, its copies and the call alone.
LEMMA StillOrder ==
    ASSUME IInv, IInv', RInv, UNCHANGED <<server, rv, watch, cache, rec>>,
           trouble \subseteq trouble', doomed' => doomed
    PROVE  RInv'
<1>1. Stored /\ (server'.live => server'.rv > 0)
    BY DEF Stored, IInv, Coherent
<1>2. UpToDate' /\ PathOK'
    BY <1>1, CallKept
<1>3. trouble' = {} => trouble = {}
    OBVIOUS
<1> QED BY <1>1, <1>2, <1>3, StoreOrder

\* A delete call: the finalizer stays, or was not there.
LEMMA DeleteOrder ==
    ASSUME IInv, IInv', SInv, RInv, Delete, server.live,
           UNCHANGED <<cache, rec, trouble, doomed>>
    PROVE  RInv'
<1> DEFINE obj == [server EXCEPT !.dt = TRUE]
<1>1. /\ obj \in Object /\ Put(obj) /\ obj.live = server.live
      /\ obj.phase = server.phase /\ obj.fin = server.fin
    <2>1. server \in Object /\ obj \in Object
        BY ServerFields DEF IInv, TypeOK
    <2> QED BY <2>1 DEF Delete, Object
<1>2. obj.dt = TRUE
    BY DEF IInv, TypeOK, Object
<1> HIDE DEF obj
<1>3. /\ Failing(obj) => Failing(server)
      /\ ~Starting(obj)
    BY <1>1, <1>2 DEF Failing, Starting
<1>4. obj.live
    BY <1>1
<1>5. trouble' = {} /\ doomed' =>
          /\ server.live
          /\ server.dt => obj.dt
          /\ obj.phase \in {server.phase, "Destroyed"}
    BY <1>1, <1>2
<1> QED BY <1>1, <1>3, <1>4, <1>5, WriteOrder

\* The users.
LEMMA UserOrder ==
    ASSUME IInv, IInv', SInv, RInv, User
    PROVE  RInv'
<1> TypeOK /\ server \in Object
    BY DEF IInv, TypeOK
<1>1. ASSUME NEW s \in Specs, CreateBlade(s) PROVE RInv'
    <2> DEFINE obj == [NoBlade EXCEPT !.live = TRUE, !.spec = s]
    <2>1. obj.live /\ obj.phase = "Initial"
        BY DEF NoBlade
    <2>2. obj \in Object /\ Put(obj)
        BY <1>1, ServerFields DEF CreateBlade
    <2> HIDE DEF obj
    <2>3. ~Failing(obj) /\ ~Starting(obj)
        BY <2>1 DEF Failing, Starting
    <2>4. server = NoBlade /\ ~NoBlade.fin
        BY <1>1 DEF CreateBlade, SInv, ObjectOK, NoBlade
    <2>5. /\ UNCHANGED <<cache, rec, doomed>>
          /\ trouble' = {} => trouble = {} /\ ~doomed
        BY <1>1 DEF CreateBlade, operator
    <2> QED BY <2>1, <2>2, <2>3, <2>4, <2>5, WriteOrder
<1>2. ASSUME NEW s \in Specs, EditSpec(s) PROVE RInv'
    <2> DEFINE obj == [server EXCEPT !.spec = s]
    <2>1. /\ obj.live = server.live /\ obj.phase = server.phase
          /\ obj.fin = server.fin /\ obj.dt = server.dt
        BY DEF Object
    <2>2. obj \in Object /\ Put(obj) /\ server.live
        BY <1>2, ServerFields DEF EditSpec
    <2> HIDE DEF obj
    <2>3. UNCHANGED <<cache, rec, trouble, doomed>>
        BY <1>2 DEF EditSpec, operator
    <2>4. Failing(obj) = Failing(server) /\ Starting(obj) = Starting(server)
        BY <2>1 DEF Failing, Starting
    <2> QED BY <2>1, <2>2, <2>3, <2>4, WriteOrder
<1>3. CASE Touch
    <2>1. /\ server' = [server EXCEPT !.rv = rv + 1] /\ rv' = rv + 1
          /\ watch' = Append(watch, server')
          /\ UNCHANGED <<cache, rec, trouble, doomed>>
        BY <1>3 DEF Touch, operator
    <2>2. /\ server'.live = server.live /\ server'.phase = server.phase
          /\ server'.fin = server.fin /\ server'.dt = server.dt
          /\ server'.rv = rv + 1
        BY <2>1 DEF Object
    <2>3. Stored /\ (server'.live => server'.rv > 0)
        BY <2>1, <2>2 DEF Stored, IInv, Coherent
    <2>4. UpToDate' /\ PathOK'
        BY <2>1, <2>3, CallKept
    <2>5. Failing(server') = Failing(server) /\ Starting(server') = Starting(server)
        BY <2>2 DEF Failing, Starting
    <2> QED BY <2>1, <2>2, <2>3, <2>4, <2>5, StoreOrder
<1>4. CASE DeleteBlade
    <2>1. UNCHANGED <<cache, rec, trouble, doomed>>
        BY <1>4 DEF DeleteBlade, operator
    <2> QED BY <1>4, <2>1, DeleteOrder DEF DeleteBlade
<1> QED BY <1>1, <1>2, <1>3, <1>4 DEF User


\* The clean-up loop and the watchers.
LEMMA BackgroundOrder ==
    ASSUME IInv, IInv', SInv, RInv, CleanUp \/ Watcher
    PROVE  RInv'
<1> TypeOK /\ server \in Object
    BY DEF IInv, TypeOK
<1>1. CASE CleanUpList
    <2>1. /\ cache.live /\ cache.phase = "Destroying"
          /\ UNCHANGED <<server, rv, watch, cache, rec>>
          /\ trouble' = {} => /\ trouble = {}
                              /\ server.live => /\ server.dt
                                                /\ server.phase \in {"Destroying", "Destroyed"}
        BY <1>1 DEF CleanUpList, informer
    <2>2. Seen' = Seen
        BY <2>1 DEF Seen
    <2>3. Failing(cache) /\ cache \in Seen
        BY <2>1 DEF Failing, Seen
    <2>4. rec.pc # "create" /\ \A c \in Seen : ~Starting(c)
        BY <2>3 DEF RInv, Apart
    <2>5. Ordered' /\ PathOK'
        BY <2>1 DEF RInv, Ordered, PathOK, Current
    <2>6. UpToDate' /\ Apart'
        BY <2>1, <2>2 DEF RInv, UpToDate, Apart, Current, Failing, Starting
    <2>7. trouble' = {} => Guarded' /\ Selected'
        BY <2>1, <2>2, <2>4 DEF RInv, Guarded, Selected, Starting
    <2> QED BY <2>5, <2>6, <2>7 DEF RInv
<1>2. CASE CleanUpPatch
    <2> DEFINE obj == [server EXCEPT !.fin = FALSE]
    <2>1. UNCHANGED <<cache, rec>> /\ doomed /\ ~doomed'
        BY <1>2 DEF CleanUpPatch
    <2>2. CASE UNCHANGED <<server, rv, watch, trouble>>
        BY <2>1, <2>2, StillOrder
    <2>3. CASE /\ server.live /\ Put(obj)
               /\ trouble' = IF active = {} /\ server.dt THEN trouble
                             ELSE trouble \cup {"cleaned"}
        <3>1. /\ obj.live = server.live /\ obj.phase = server.phase
              /\ obj.dt = server.dt /\ obj \in Object
            <4>1. obj \in Object
                BY ServerFields
            <4> QED BY <4>1 DEF Object
        <3>2. trouble' = {} => trouble = {}
            BY <2>3
        <3>3. Put(obj) /\ obj.live
            BY <2>3, <3>1
        <3> HIDE DEF obj
        <3>4. Failing(obj) = Failing(server) /\ Starting(obj) = Starting(server)
            BY <3>1 DEF Failing, Starting
        <3>5. trouble' = {} => rec.pc # "create" /\ \A c \in Seen : ~Starting(c)
            BY <2>1, <3>2 DEF RInv, Selected
        <3> QED BY <2>1, <3>1, <3>2, <3>3, <3>4, <3>5, WriteOrder
    <2> QED BY <1>2, <2>2, <2>3 DEF CleanUpPatch
<1>3. ASSUME NEW w \in watchers, WatcherMarks(w) PROVE RInv'
    <2> DEFINE obj == [server EXCEPT !.phase = "Destroyed"]
    <2>1. /\ UNCHANGED <<cache, rec, doomed>> /\ server.live /\ Put(obj)
          /\ trouble' = IF active = {} THEN trouble ELSE trouble \cup {"watcherMarked"}
        BY <1>3 DEF WatcherMarks, operator, Current
    <2>2. /\ obj.live = server.live /\ obj.fin = server.fin /\ obj.dt = server.dt
          /\ obj.phase = "Destroyed" /\ obj \in Object
        <3>1. obj \in Object
            BY ServerFields DEF Phases
        <3> QED BY <3>1 DEF Object
    <2>3. trouble' = {} => trouble = {}
        BY <2>1
    <2>4. Put(obj) /\ obj.live
        BY <2>1, <2>2
    <2> HIDE DEF obj
    <2>5. ~Failing(obj) /\ ~Starting(obj)
        BY <2>2 DEF Failing, Starting
    <2> QED BY <2>1, <2>2, <2>3, <2>4, <2>5, WriteOrder
<1>4. ASSUME NEW w \in watchers, WatcherDeletes(w) PROVE RInv'
    <2>1. UNCHANGED <<cache, rec, trouble, doomed>> /\ server.live /\ Delete
        BY <1>4 DEF WatcherDeletes
    <2> QED BY <2>1, DeleteOrder
<1>5. ASSUME NEW w \in watchers, WatcherGivesUp(w) PROVE RInv'
    BY <1>5, StillOrder DEF WatcherGivesUp, informer
<1> QED BY <1>1, <1>2, <1>3, <1>4, <1>5 DEF CleanUp, Watcher

\* The informer only moves versions that are around already; what Handle adds
\* to the cached copy is not looked at here.
LEMMA InformerOrder ==
    ASSUME IInv, IInv', RInv, Informer
    PROVE  RInv'
<1>1. UNCHANGED <<server, rv, rec, trouble, doomed>>
    BY DEF Informer, Deliver, Relist, Resync, Handle
<1>2. watch \in Seq(Object) /\ cache \in Object
    BY DEF IInv, TypeOK
<1> DEFINE Like(c, d) == c.rv = d.rv /\ c.live = d.live /\ c.phase = d.phase /\ c.dt = d.dt
<1>3. /\ \A c \in Seen' : \E d \in Seen : Like(c, d)
      /\ Ordered'
    <2>1. CASE Deliver
        <3>1. watch # <<>> /\ watch' = Tail(watch) /\ cache' = Head(watch)
            BY <2>1 DEF Deliver, Learn
        <3>2. /\ 1 \in 1 .. Len(watch) /\ cache' = watch[1]
              /\ Len(watch') = Len(watch) - 1
              /\ \A i \in 1 .. Len(watch') : i + 1 \in 1 .. Len(watch) /\ watch'[i] = watch[i + 1]
            BY <1>2, <3>1
        <3>3. \A c \in Seen' : c \in Seen
            BY <1>1, <3>2 DEF Seen
        <3>4. Ordered'
            BY <1>1, <1>2, <3>1, <3>2 DEF RInv, Ordered
        <3> QED BY <3>3, <3>4
    <2>2. CASE Relist
        <3>1. watch' = <<>> /\ cache' = server
            BY <2>2 DEF Relist, Learn
        <3>2. \A c \in Seen' : c \in Seen
            BY <1>1, <3>1 DEF Seen
        <3> QED BY <3>1, <3>2 DEF Ordered
    <2>3. CASE Resync
        BY <1>1, <2>3 DEF Resync, Seen, RInv, Ordered
    <2>4. CASE Handle
        <3>1. watch' = watch
            BY <2>4 DEF Handle
        <3>2. Like(cache', cache)
            <4>1. cache' = cache \/ \E s : cache' = [cache EXCEPT !.pre = s]
                BY <2>4 DEF Handle
            <4> QED BY <1>2, <4>1 DEF Object
        <3>3. \A c \in Seen' : c \in Seen \/ c = cache'
            BY <1>1, <3>1 DEF Seen
        <3>4. cache \in Seen
            BY DEF Seen
        <3>5. Ordered'
            BY <1>1, <3>1, <3>2 DEF RInv, Ordered
        <3> QED BY <3>2, <3>3, <3>4, <3>5
    <2> QED BY <2>1, <2>2, <2>3, <2>4 DEF Informer
<1>4. /\ \A c \in Seen' : Failing(c) => \E d \in Seen : Failing(d)
      /\ \A c \in Seen' : Starting(c) => \E d \in Seen : Starting(d)
    BY <1>3 DEF Failing, Starting
<1>5. PathOK'
    BY <1>1 DEF RInv, PathOK, Current
<1>6. UpToDate'
    BY <1>1, <1>3 DEF RInv, UpToDate, Current
<1>7. Apart'
    <2> SUFFICES ASSUME NEW c \in Seen', Failing(c)
                 PROVE  rec'.pc # "create" /\ \A d \in Seen' : ~Starting(d)
        BY DEF Apart, Failing, Starting
    <2> QED BY <1>1, <1>4 DEF RInv, Apart
<1>8. trouble' = {} => Guarded' /\ Selected'
    <2>1. trouble = {} /\ Guarded => Guarded'
        BY <1>1, <1>4 DEF Guarded, Starting
    <2>2. trouble = {} /\ Selected => Selected'
        BY <1>1, <1>4 DEF Selected, Starting
    <2> QED BY <1>1, <2>1, <2>2 DEF RInv
<1> QED BY <1>3, <1>5, <1>6, <1>7, <1>8 DEF RInv

\* After a restart only the server's version is around.
LEMMA RestartOrder ==
    ASSUME IInv, IInv', RInv, Restart
    PROVE  RInv'
<1>1. /\ UNCHANGED <<server, rv>> /\ cache' = NoBlade /\ rec' = Idle /\ ~doomed'
      /\ watch' = IF server.live THEN <<server>> ELSE <<>>
      /\ trouble' = {} => trouble = {}
    BY DEF Restart, Lose
<1>2. ~NoBlade.live /\ NoBlade.rv = 0 /\ rec'.pc = "idle" /\ rec'.cb.rv = 0
    BY <1>1 DEF NoBlade, Idle
<1>3. server.live => server.rv > 0 /\ server.rv \in Nat
    BY DEF IInv, Coherent, TypeOK, Object
<1>4. \A c \in Seen' : c = server \/ c = NoBlade
    <2>1. \A i \in 1 .. Len(watch') : watch'[i] = server
        BY <1>1
    <2> QED BY <1>1, <2>1 DEF Seen
<1>5. Ordered'
    <2>1. \A i \in 1 .. Len(watch') : ~(i < Len(watch'))
        BY <1>1
    <2> QED BY <1>1, <1>2, <1>3, <2>1 DEF Ordered
<1>6. UpToDate' /\ PathOK'
    BY <1>1, <1>2, <1>3 DEF UpToDate, PathOK, Current
<1>7. server \in Seen
    BY DEF Seen
<1>8. Apart'
    BY <1>2, <1>4, <1>7 DEF RInv, Apart, Failing, Starting
<1>9. trouble' = {} => Guarded' /\ Selected'
    BY <1>1, <1>2, <1>4, <1>7 DEF RInv, Guarded, Selected, Starting
<1> QED BY <1>5, <1>6, <1>8, <1>9 DEF RInv


-----------------------------------------------------------------------------
(***************************************************************************)
(* The steps of Reconcile.                                                 *)
(***************************************************************************)

\* Reconcile begins with the copy in the cache.
LEMMA ReconcileOrder ==
    ASSUME IInv, RInv, Reconcile
    PROVE  RInv'
<1>1. rec' = Branch(cache) /\ UNCHANGED <<server, watch, cache, trouble, doomed>>
    BY DEF Reconcile, informer
<1>2. Seen' = Seen /\ server \in Seen /\ cache \in Seen
    BY <1>1 DEF Seen
<1>3. cache \in Object /\ cache.phase \in Phases
    BY DEF IInv, TypeOK, Object
<1>4. Ordered'
    BY <1>1 DEF RInv, Ordered
<1>5. UpToDate'
    <2> SUFFICES ASSUME Current(rec.cb)', NEW c \in Seen
                 PROVE  c.live /\ c.phase = rec'.cb.phase /\ c.dt = rec'.cb.dt
        BY <1>2 DEF UpToDate
    <2>1. server.live /\ rec'.cb.rv = server.rv
        BY <1>1 DEF Current
    <2>2. NoBlade.rv = 0 /\ server.rv > 0 /\ Fresh(cache, server, rv)
        BY <2>1 DEF NoBlade, IInv, Coherent
    <2>3. rec'.cb = cache
        BY <1>1, <2>1, <2>2, BranchForm
    <2>4. server.rv \in Nat
        BY DEF IInv, TypeOK, Object
    <2>5. watch = <<>>
        BY <2>1, <2>3, <2>4 DEF RInv, Ordered
    <2>6. c = server \/ c = cache
        BY <2>5 DEF Seen
    <2> QED BY <2>1, <2>2, <2>3, <2>6 DEF Fresh
<1>6. PathOK'
    BY <1>1, <1>3, BranchForm DEF PathOK, Phases
<1>7. rec'.pc = "create" => Starting(cache)
    BY <1>1, BranchForm DEF Starting
<1>8. Apart'
    BY <1>2, <1>7 DEF RInv, Apart, Failing, Starting
<1>9. trouble' = {} => Guarded' /\ Selected'
    BY <1>1, <1>2, <1>7 DEF RInv, Guarded, Selected, Starting
<1> QED BY <1>4, <1>5, <1>6, <1>8, <1>9 DEF RInv

\* A turn of one of the loops.
LEMMA LoopOrder ==
    ASSUME RInv, UNCHANGED <<server, watch, cache, doomed>>,
           rec'.cb = rec.cb, rec'.with = rec.with,
           rec.pc \in {"create", "destroy"}, rec'.pc \in {rec.pc, "status"},
           \/ rec.pc = "create" /\ rec.with = NoSpec
           \/ rec.pc = "destroy" /\ rec'.phase \in {rec.phase, "Destroying"},
           trouble' = {} => trouble = {}
    PROVE  RInv'
<1>1. Seen' = Seen
    BY DEF Seen
<1>2. Ordered' /\ UpToDate' /\ PathOK'
    BY <1>1 DEF RInv, Ordered, UpToDate, PathOK, Current
<1>3. Apart'
    BY <1>1 DEF RInv, Apart, Failing, Starting
<1>4. trouble' = {} => Guarded' /\ Selected'
    BY <1>1 DEF RInv, Guarded, Selected, Starting
<1> QED BY <1>2, <1>3, <1>4 DEF RInv

\* A call that ends without a write.
LEMMA ReturnOrder ==
    ASSUME IInv, RInv, UNCHANGED <<server, rv, watch, cache, doomed>>, rec' = Idle,
           trouble' = {} => trouble = {}
    PROVE  RInv'
<1>1. Stored /\ (server'.live => server'.rv > 0)
    BY DEF Stored, IInv, Coherent
<1>2. UpToDate' /\ PathOK' /\ rec'.pc = "idle"
    BY <1>1, CallKept DEF Idle
<1>3. doomed' => doomed
    OBVIOUS
<1> QED BY <1>1, <1>2, <1>3, StoreOrder

\* The annotation changes nothing that is looked at here; the call goes on with
\* its copy or with the version it has stored.
LEMMA AnnotateOrder ==
    ASSUME IInv, SInv, RInv, Annotate
    PROVE  RInv'
<1> TypeOK /\ Coherent /\ server \in Object /\ rec \in Call /\ rec.cb \in Object
    BY DEF IInv, TypeOK, Call
<1> DEFINE next(cb) == [rec EXCEPT !.cb = cb,
                            !.pc = IF cb.exps = <<>> THEN "status" ELSE "destroy"]
           obj == [server EXCEPT !.pre = rec.cb.pre]
<1>1. rec.pc = "annotate" /\ UNCHANGED <<cache, trouble, doomed>>
    BY DEF Annotate
<1>2. \/ Current(rec.cb) /\ Put(obj) /\ rec' = next(server')
      \/ Current(rec.cb) /\ Put(obj) /\ rec' = next(rec.cb)
      \/ UNCHANGED <<server, rv, watch>> /\ rec' = next(rec.cb)
    BY DEF Annotate
<1>3. /\ obj \in Object /\ obj.live = server.live
      /\ obj.fin = server.fin /\ obj.dt = server.dt /\ obj.phase = server.phase
    <2>1. rec.cb.pre \in Specs \cup {NoSpec}
        BY DEF Object
    <2>2. obj \in Object
        BY <2>1, ServerFields
    <2> QED BY <2>2 DEF Object
<1> HIDE DEF obj
<1>4. /\ server'.live = server.live /\ server'.fin = server.fin
      /\ server'.dt = server.dt /\ server'.phase = server.phase
    <2>1. Current(rec.cb) => ~(obj.dt /\ ~obj.fin)
        BY <1>3 DEF SInv, ObjectOK
    <2> QED BY <1>2, <1>3, <2>1, PutResult
<1>5. /\ rec'.with = rec.with /\ rec'.phase = rec.phase
      /\ rec'.cb = rec.cb \/ (rec'.cb = server' /\ Current(rec.cb))
      /\ rec'.pc \in {"destroy", "status"}
    BY <1>1, <1>2 DEF Call
<1>6. Stored
    <2>1. UNCHANGED <<server, rv, watch>> => Stored
        BY DEF Stored
    <2> QED BY <1>2, <1>3, <2>1, PutStores
<1>7. Current(rec.cb)' => Current(rec.cb)
    <2>1. CASE rec'.cb = rec.cb
        <3>1. server'.live /\ rec.cb.rv = server'.rv => server' = server
            BY <1>2, <1>3, Overtaken DEF Coherent
        <3> QED BY <2>1, <3>1 DEF Current
    <2> QED BY <1>5, <2>1
<1>8. server \in Seen
    BY DEF Seen
<1>9. Current(rec.cb) => rec'.cb.phase = rec.cb.phase /\ rec'.cb.dt = rec.cb.dt
    BY <1>4, <1>5, <1>8 DEF RInv, UpToDate
<1>10. UpToDate'
    <2>1. \A c \in Seen' : c \in Seen \/ c = server'
        BY <1>1, <1>6, StoredSeen DEF RInv
    <2> QED BY <1>4, <1>7, <1>8, <1>9, <2>1 DEF RInv, UpToDate
<1>11. PathOK'
    BY <1>1, <1>5, <1>7, <1>9 DEF RInv, PathOK
<1>12. Failing(server') = Failing(server) /\ Starting(server') = Starting(server)
    BY <1>4 DEF Failing, Starting
<1> QED BY <1>1, <1>4, <1>5, <1>6, <1>10, <1>11, <1>12, StoreOrder

\* A status is stored over the version it was made from: it takes no blade that
\* is failing back to one that is to be created.
LEMMA StatusOrder ==
    ASSUME IInv, IInv', SInv, RInv, WriteStatus
    PROVE  RInv'
<1> TypeOK /\ Coherent /\ server \in Object /\ rec \in Call /\ rec.cb \in Object
    BY DEF IInv, TypeOK, Call
<1> DEFINE obj == [server EXCEPT !.phase = rec.phase, !.exps = rec.out]
<1>1. /\ rec.pc = "status" /\ rec' = Idle /\ UNCHANGED <<cache, doomed>>
      /\ trouble' = {} => trouble = {}
    BY DEF WriteStatus, Return, Lose
<1>2. CASE UNCHANGED <<server, rv, watch>>
    BY <1>1, <1>2, ReturnOrder
<1>3. CASE Current(rec.cb) /\ Put(obj)
    <2>1. /\ obj \in Object /\ obj.live = server.live
          /\ obj.fin = server.fin /\ obj.dt = server.dt /\ obj.phase = rec.phase
        <3>1. obj \in Object
            BY ServerFields DEF Call
        <3> QED BY <3>1 DEF Object
    <2>2. Put(obj) /\ server.live
        BY <1>3 DEF Current
    <2> HIDE DEF obj
    <2>3. Stored
        BY <2>1, <2>2, PutStores
    <2>4. /\ server'.live /\ server'.fin = server.fin
          /\ server'.dt = server.dt /\ server'.phase = rec.phase
        <3>1. ~(obj.dt /\ ~obj.fin)
            BY <2>1 DEF SInv, ObjectOK
        <3> QED BY <2>1, <2>2, <3>1, PutResult
    <2>5. UpToDate' /\ PathOK' /\ rec'.pc = "idle"
        <3>1. server'.live => server'.rv > 0
            BY DEF IInv, Coherent
        <3> QED BY <1>1, <2>3, <3>1, CallKept DEF Idle
    <2>6. (\A c \in Seen' : c \in Seen \/ c = server') /\ Ordered'
        BY <1>1, <2>3, StoredSeen DEF RInv
    <2>7. /\ server \in Seen
          /\ \A c \in Seen : c.live /\ c.phase = rec.cb.phase /\ c.dt = rec.cb.dt
        BY <1>3 DEF RInv, UpToDate, Seen
    <2>8. /\ StatusOK /\ rec.cb.phase # "Destroyed"
          /\ rec.with # NoSpec =>
                /\ rec.phase = "Updating" => rec.cb.phase \in {"Running", "Error"}
                /\ rec.cb.phase \in {"Running", "Error", "Destroying"} \/ rec.cb.dt
        BY <1>1, <1>3 DEF SInv, CallOK, IInv, NotOver, RInv, PathOK
    <2>9. rec.phase = "Destroying" => \A c \in Seen : ~Starting(c)
        BY <2>7, <2>8 DEF StatusOK, Starting
    <2>10. rec.cb.phase = "Destroying" =>
              /\ rec.phase \in {"Destroying", "Destroyed"}
              /\ \A c \in Seen : ~Starting(c)
        BY <2>7, <2>8 DEF StatusOK, Starting
    <2>11. Apart'
        <3> SUFFICES ASSUME NEW c \in Seen', Failing(c)
                     PROVE  \A d \in Seen' : ~Starting(d)
            BY <2>5 DEF Apart, Failing, Starting
        <3>1. rec.phase = "Destroying" \/ rec.cb.phase = "Destroying"
            BY <2>4, <2>6, <2>7 DEF Failing
        <3>2. ~Starting(server')
            BY <2>4, <2>10, <3>1 DEF Starting
        <3> QED BY <2>6, <2>9, <2>10, <3>1, <3>2
    <2>12. ASSUME trouble' = {} PROVE Guarded' /\ Selected'
        <3>1. trouble = {} /\ Untroubled /\ Selected
            BY <1>1, <2>12 DEF SInv, RInv
        <3>2. server'.fin
            BY <1>1, <1>3, <2>4, <3>1 DEF Untroubled, HeldOK
        <3>3. Guarded'
            BY <3>2 DEF Guarded
        <3>4. doomed => server.dt /\ rec.cb.phase = "Destroying"
            BY <2>2, <2>7, <2>8, <3>1 DEF Selected
        <3>5. doomed => ~Starting(server') /\ \A c \in Seen : ~Starting(c)
            BY <2>4, <2>10, <3>4 DEF Starting
        <3>6. Selected'
            <4> SUFFICES ASSUME doomed
                         PROVE  /\ server'.dt /\ server'.phase \in {"Destroying", "Destroyed"}
                                /\ \A c \in Seen' : ~Starting(c)
                BY <1>1, <2>5 DEF Selected, Starting
            <4> QED BY <2>4, <2>6, <2>10, <3>4, <3>5
        <3> QED BY <3>3, <3>6
    <2> QED BY <2>5, <2>6, <2>11, <2>12 DEF RInv
<1> QED BY <1>2, <1>3 DEF WriteStatus

\* The finalizer goes from a blade that everybody sees as over.
LEMMA FinalizerOrder ==
    ASSUME IInv, IInv', SInv, RInv, WriteFinalizer
    PROVE  RInv'
<1> TypeOK /\ Coherent /\ server \in Object /\ rec \in Call /\ rec.cb \in Object
    BY DEF IInv, TypeOK, Call
<1> DEFINE obj == [server EXCEPT !.fin = (rec.pc = "addFin"), !.pre = rec.cb.pre]
<1>1. /\ rec.pc \in {"addFin", "removeFin"} /\ rec' = Idle
      /\ UNCHANGED <<cache, trouble, doomed>>
    BY DEF WriteFinalizer, Return
<1>2. CASE UNCHANGED <<server, rv, watch>>
    BY <1>1, <1>2, ReturnOrder
<1>3. CASE Current(rec.cb) /\ Put(obj)
    <2>1. /\ obj \in Object /\ obj.live = server.live
          /\ obj.dt = server.dt /\ obj.phase = server.phase
        <3>1. (rec.pc = "addFin") \in BOOLEAN /\ rec.cb.pre \in Specs \cup {NoSpec}
            BY DEF Object
        <3>2. obj \in Object
            BY <3>1, ServerFields, Zenon
        <3> QED BY <3>2 DEF Object
    <2>2. obj.fin <=> rec.pc = "addFin"
        BY DEF Object
    <2>3. Put(obj) /\ server.live
        BY <1>3 DEF Current
    <2> HIDE DEF obj
    <2>4. Stored
        BY <2>1, <2>3, PutStores
    <2>5. \/ server' = NoBlade
          \/ /\ server'.live /\ server'.dt = server.dt /\ server'.phase = server.phase
             /\ server'.fin = obj.fin
        BY <2>1, <2>3, PutResult
    <2>6. ~NoBlade.live
        BY DEF NoBlade
    <2>7. UpToDate' /\ PathOK' /\ rec'.pc = "idle"
        <3>1. server'.live => server'.rv > 0
            BY DEF IInv, Coherent
        <3> QED BY <1>1, <2>4, <3>1, CallKept DEF Idle
    <2>8. /\ Failing(server') => Failing(server)
          /\ Starting(server') => Starting(server)
        BY <2>3, <2>5, <2>6 DEF Failing, Starting
    <2>9. server.fin =>
              \/ server'.fin
              \/ rec.pc # "create" /\ \A c \in Seen : ~Starting(c)
        <3>1. CASE rec.pc = "removeFin"
            <4>1. \A c \in Seen : c.phase = "Destroyed"
                BY <1>3, <3>1 DEF RInv, UpToDate, IInv, NotOver
            <4> QED BY <3>1, <4>1 DEF Starting
        <3>2. CASE rec.pc = "addFin"
            <4>1. ~(obj.dt /\ ~obj.fin)
                BY <2>2, <3>2
            <4> QED BY <2>2, <2>1, <2>3, <3>2, <4>1, PutResult
        <3> QED BY <1>1, <3>1, <3>2
    <2>10. doomed' /\ server'.live =>
              /\ server.live
              /\ server.dt => server'.dt
              /\ server'.phase \in {server.phase, "Destroyed"}
        BY <2>3, <2>5, <2>6
    <2> QED BY <1>1, <2>4, <2>7, <2>8, <2>9, <2>10, StoreOrder
<1> QED BY <1>2, <1>3 DEF WriteFinalizer


-----------------------------------------------------------------------------
(***************************************************************************)
(* The invariant.                                                          *)
(***************************************************************************)

\* Every step keeps what is known of the copies that are around.
LEMMA OrderStep ==
    ASSUME IInv, IInv', SInv, RInv, [Next]_vars
    PROVE  RInv'
<1>1. CASE Reconciler
    <2>1. CASE CreateExperiment
        <3>1. /\ UNCHANGED <<server, watch, cache, doomed>> /\ rec.pc = "create"
              /\ rec.with = NoSpec
            BY <2>1 DEF CreateExperiment, informer, SInv, CallOK
        <3>2. /\ \E out, n, phase : Advance(out, n, phase)
              /\ trouble' = {} => trouble = {}
            BY <2>1 DEF CreateExperiment, Create
        <3>3. /\ rec'.cb = rec.cb /\ rec'.with = rec.with
              /\ rec'.pc \in {rec.pc, "status"}
            BY <3>2, AdvanceForm DEF IInv
        <3> QED BY <3>1, <3>2, <3>3, LoopOrder
    <2>2. CASE DestroyExperiment
        <3>1. UNCHANGED <<server, watch, cache, doomed>> /\ rec.pc = "destroy"
            BY <2>2 DEF DestroyExperiment, informer
        <3>2. /\ \E out, n : \E phase \in {rec.phase, "Destroying"} : Advance(out, n, phase)
              /\ trouble' = {} => trouble = {}
            <4>1. PICK ids, mine, stopped, failed, lost, done :
                      Destroy(ids, mine, stopped, failed, lost, done)
                BY <2>2 DEF DestroyExperiment
            <4>2. trouble' = {} => trouble = {}
                BY <4>1 DEF Destroy
            <4> QED BY <4>1, <4>2 DEF Destroy
        <3>3. /\ rec'.cb = rec.cb /\ rec'.with = rec.with
              /\ rec'.pc \in {rec.pc, "status"}
              /\ rec'.phase \in {rec.phase, "Destroying"}
            BY <3>2, AdvanceForm DEF IInv
        <3> QED BY <3>1, <3>2, <3>3, LoopOrder
    <2>3. CASE DestroyPanic
        BY <2>3, ReturnOrder DEF DestroyPanic, Return, informer
    <2> QED BY <1>1, <2>1, <2>2, <2>3, ReconcileOrder, AnnotateOrder, StatusOrder,
               FinalizerOrder DEF Reconciler
<1>2. CASE Expiry
    BY <1>2, StillOrder DEF Expiry, FaultTimeout, informer
<1>3. CASE UNCHANGED vars
    BY <1>3, StillOrder DEF vars
<1> QED BY <1>1, <1>2, <1>3, UserOrder, InformerOrder, BackgroundOrder, RestartOrder
        DEF Next

\* Nothing is around at first.
LEMMA OrderStart == Init => RInv
<1> SUFFICES ASSUME Init PROVE RInv
    OBVIOUS
<1>1. /\ server = NoBlade /\ cache = NoBlade /\ watch = <<>> /\ rec = Idle /\ ~doomed
      /\ ~NoBlade.live /\ rec.pc = "idle"
    BY DEF Init, NoBlade, Idle
<1>2. \A c \in Seen : ~c.live
    BY <1>1 DEF Seen
<1> QED BY <1>1, <1>2 DEF RInv, Ordered, UpToDate, PathOK, Apart, Guarded, Selected,
           Current, Failing, Starting

-----------------------------------------------------------------------------
(***************************************************************************)
(* The contract, step by step.                                             *)
(***************************************************************************)

\* Causes are only added: what the contract has excused stays excused.
LEMMA TroubleExcuses ==
    ASSUME trouble \subseteq trouble'
    PROVE  Contract!MayExcuse
BY DEF Contract!MayExcuse

\* A step that shows nothing, or nothing but a cause of divergence.
LEMMA HiddenStep ==
    ASSUME server'.live = server.live, server'.phase = server.phase,
           server'.fin = server.fin, server'.dt = server.dt,
           active' = {} <=> active = {}, trouble \subseteq trouble'
    PROVE  [Contract!Next]_Contract!cvars
<1>1. CASE trouble' = {}
    BY <1>1 DEF Contract!cvars
<1>2. CASE trouble' # {}
    BY <1>2 DEF Contract!Next, Contract!Diverge
<1> QED BY <1>1, <1>2

\* Faults end.
LEMMA StopStep ==
    ASSUME server' = server, active' \subseteq active, trouble \subseteq trouble'
    PROVE  [Contract!Next]_Contract!cvars
<1>1. CASE active' = {}
    BY <1>1, TroubleExcuses DEF Contract!Next, Contract!Stop
<1>2. CASE active' # {}
    BY <1>2, HiddenStep
<1> QED BY <1>1, <1>2

\* A delete call asks for the deletion, once.
LEMMA DeleteContract ==
    ASSUME IInv, SInv, Delete, server.live, UNCHANGED <<active, trouble>>
    PROVE  [Contract!Next]_Contract!cvars
<1> DEFINE obj == [server EXCEPT !.dt = TRUE]
<1>1. /\ obj \in Object /\ Put(obj) /\ obj.live = server.live
      /\ obj.phase = server.phase /\ obj.fin = server.fin /\ obj.dt = TRUE
    <2>1. server \in Object /\ obj \in Object
        BY ServerFields DEF IInv, TypeOK
    <2> QED BY <2>1 DEF Delete, Object
<1> HIDE DEF obj
<1>2. /\ server.dt \in BOOLEAN /\ server.phase # "Absent"
      /\ ~NoBlade.live /\ ~NoBlade.dt /\ ~NoBlade.fin
    BY DEF IInv, TypeOK, Object, Phases, NoBlade
<1>3. CASE server.dt
    <2>1. server.fin /\ server.dt = TRUE
        BY <1>2, <1>3 DEF SInv, ObjectOK
    <2>2. /\ server'.live = server.live /\ server'.phase = server.phase
          /\ server'.fin = server.fin /\ server'.dt = server.dt
        BY <1>1, <2>1, PutResult DEF IInv
    <2> QED BY <2>2, HiddenStep
<1>4. CASE ~server.dt /\ server.fin
    <2>1. /\ server'.live = server.live /\ server'.phase = server.phase
          /\ server'.fin = server.fin /\ server'.dt = TRUE
        BY <1>1, <1>4, PutResult DEF IInv
    <2> QED BY <1>2, <1>4, <2>1 DEF Contract!Next, Contract!AskDeletion, Contract!Exists
<1>5. CASE ~server.dt /\ ~server.fin
    <2>1. server' = NoBlade
        BY <1>1, <1>5, PutResult DEF IInv
    <2> QED BY <1>2, <1>5, <2>1
            DEF Contract!Next, Contract!AskDeletion, Contract!Exists, Contract!Gone
<1> QED BY <1>3, <1>4, <1>5

\* The users create the resource, ask for its deletion, or change what the
\* contract does not show.
LEMMA UserContract ==
    ASSUME IInv, SInv, User
    PROVE  [Contract!Next]_Contract!cvars
<1> TypeOK /\ server \in Object
    BY DEF IInv, TypeOK
<1>1. ASSUME NEW s \in Specs, CreateBlade(s) PROVE [Contract!Next]_Contract!cvars
    <2> DEFINE obj == [NoBlade EXCEPT !.live = TRUE, !.spec = s]
    <2>1. obj.live /\ obj.phase = "Initial" /\ ~obj.fin /\ ~obj.dt
        BY DEF NoBlade
    <2>2. obj \in Object /\ Put(obj)
        BY <1>1, ServerFields DEF CreateBlade
    <2> HIDE DEF obj
    <2>3. server = NoBlade /\ ~NoBlade.live /\ ~NoBlade.fin /\ ~NoBlade.dt
        BY <1>1 DEF CreateBlade, SInv, ObjectOK, NoBlade
    <2>4. server'.live /\ server'.phase = "Initial" /\ ~server'.fin /\ ~server'.dt
        BY <2>1, <2>2, <2>3, PutResult
    <2>5. UNCHANGED active /\ trouble \subseteq trouble'
        BY <1>1 DEF CreateBlade, cluster
    <2>6. /\ server.fin \in BOOLEAN /\ server'.fin \in BOOLEAN
          /\ server.dt \in BOOLEAN /\ server'.dt \in BOOLEAN
        <3>1. server' \in Object
            BY <2>2, PutType
        <3> QED BY <3>1 DEF Object
    <2>7. server'.fin = server.fin /\ server'.dt = server.dt
        BY <2>3, <2>4, <2>6
    <2> QED BY <2>3, <2>4, <2>5, <2>7, TroubleExcuses
            DEF Contract!Next, Contract!Appear, Contract!Exists
<1>2. ASSUME NEW s \in Specs, EditSpec(s) PROVE [Contract!Next]_Contract!cvars
    <2> DEFINE obj == [server EXCEPT !.spec = s]
    <2>1. /\ obj.live = server.live /\ obj.phase = server.phase
          /\ obj.fin = server.fin /\ obj.dt = server.dt
        BY DEF Object
    <2>2. obj \in Object /\ Put(obj) /\ UNCHANGED <<active, trouble>>
        BY <1>2, ServerFields DEF EditSpec, cluster
    <2> HIDE DEF obj
    <2>3. ~(obj.dt /\ ~obj.fin)
        BY <2>1 DEF SInv, ObjectOK
    <2>4. /\ server'.live = server.live /\ server'.phase = server.phase
          /\ server'.fin = server.fin /\ server'.dt = server.dt
        BY <2>1, <2>2, <2>3, PutResult
    <2> QED BY <2>2, <2>4, HiddenStep
<1>3. CASE Touch
    <2>1. server' = [server EXCEPT !.rv = rv + 1] /\ UNCHANGED <<active, trouble>>
        BY <1>3 DEF Touch, cluster
    <2>2. /\ server'.live = server.live /\ server'.phase = server.phase
          /\ server'.fin = server.fin /\ server'.dt = server.dt
        BY <2>1 DEF Object
    <2> QED BY <2>1, <2>2, HiddenStep
<1>4. CASE DeleteBlade
    <2>1. UNCHANGED <<active, trouble>>
        BY <1>4 DEF DeleteBlade, cluster
    <2> QED BY <1>4, <2>1, DeleteContract DEF DeleteBlade
<1> QED BY <1>1, <1>2, <1>3, <1>4 DEF User

\* The clean-up loop releases the resource it has given up; a watcher ends it.
LEMMA BackgroundContract ==
    ASSUME IInv, SInv, RInv, CleanUp \/ Watcher
    PROVE  [Contract!Next]_Contract!cvars
<1> TypeOK /\ server \in Object
    BY DEF IInv, TypeOK
<1>1. ASSUME UNCHANGED <<server, active>>, trouble \subseteq trouble'
      PROVE  [Contract!Next]_Contract!cvars
    BY <1>1, StopStep
<1>2. CASE CleanUpList
    BY <1>1, <1>2 DEF CleanUpList, cluster
<1>3. CASE CleanUpPatch
    <2> DEFINE obj == [server EXCEPT !.fin = FALSE]
    <2>1. UNCHANGED active /\ doomed
        BY <1>3 DEF CleanUpPatch, cluster
    <2>2. CASE UNCHANGED <<server, rv, watch, trouble>>
        BY <1>1, <2>1, <2>2
    <2>3. CASE /\ server.live /\ Put(obj)
               /\ trouble' = IF active = {} /\ server.dt THEN trouble
                             ELSE trouble \cup {"cleaned"}
        <3>1. /\ obj.live = server.live /\ obj.phase = server.phase
              /\ obj.dt = server.dt /\ obj.fin = FALSE /\ obj \in Object
            <4>1. obj \in Object
                BY ServerFields
            <4> QED BY <4>1 DEF Object
        <3>2. /\ trouble \subseteq trouble' /\ Put(obj)
              /\ active # {} => trouble' # {}
              /\ ~server.dt => trouble' # {}
            BY <2>3
        <3> HIDE DEF obj
        <3>3. trouble' # {} \/ (server.dt /\ server.phase \in {"Destroying", "Destroyed"})
            BY <2>1, <2>3, <3>2 DEF RInv, Selected
        <3>4. ~NoBlade.live /\ ~NoBlade.dt /\ ~NoBlade.fin
            BY DEF NoBlade
        <3>5. /\ server.fin \in BOOLEAN /\ server.dt \in BOOLEAN
              /\ server.phase # "Absent"
            BY DEF Object, Phases
        <3>6. CASE ~server.fin
            <4>1. ~server.dt /\ server.fin = FALSE
                BY <3>5, <3>6 DEF SInv, ObjectOK
            <4>2. /\ server'.live = server.live /\ server'.phase = server.phase
                  /\ server'.fin = server.fin /\ server'.dt = server.dt
                BY <3>1, <3>2, <4>1, PutResult
            <4> QED BY <2>1, <3>2, <4>2, HiddenStep
        <3>7. CASE server.fin /\ server.dt
            <4>1. server' = NoBlade
                BY <3>1, <3>2, <3>7, PutResult
            <4> QED BY <2>1, <2>3, <3>2, <3>3, <3>4, <3>5, <3>7, <4>1, TroubleExcuses
                    DEF Contract!Next, Contract!Release, Contract!Gone
        <3>8. CASE server.fin /\ ~server.dt
            <4>1. /\ server'.live = server.live /\ server'.phase = server.phase
                  /\ server'.fin = FALSE /\ server'.dt = server.dt
                BY <3>1, <3>2, <3>8, PutResult
            <4> QED BY <2>1, <2>3, <3>2, <3>8, <4>1, TroubleExcuses
                    DEF Contract!Next, Contract!Release
        <3> QED BY <3>6, <3>7, <3>8
    <2> QED BY <1>3, <2>2, <2>3 DEF CleanUpPatch
<1>4. ASSUME NEW w \in watchers, WatcherMarks(w) PROVE [Contract!Next]_Contract!cvars
    <2> DEFINE obj == [server EXCEPT !.phase = "Destroyed"]
    <2>1. /\ UNCHANGED active /\ server.live /\ Put(obj)
          /\ trouble \subseteq trouble' /\ (active # {} => trouble' # {})
        BY <1>4 DEF WatcherMarks, cluster, Current
    <2>2. /\ obj.live = server.live /\ obj.fin = server.fin /\ obj.dt = server.dt
          /\ obj.phase = "Destroyed" /\ obj \in Object
        <3>1. obj \in Object
            BY ServerFields DEF Phases
        <3> QED BY <3>1 DEF Object
    <2>3. Put(obj) /\ ~(obj.dt /\ ~obj.fin)
        BY <2>1, <2>2 DEF SInv, ObjectOK
    <2> HIDE DEF obj
    <2>4. /\ server'.live /\ server'.phase = "Destroyed"
          /\ server'.fin = server.fin /\ server'.dt = server.dt
        BY <2>1, <2>2, <2>3, PutResult
    <2>5. server.phase # "Absent"
        BY DEF Object, Phases
    <2> QED BY <2>1, <2>4, <2>5, TroubleExcuses
            DEF Contract!Next, Contract!End, Contract!Exists
<1>5. ASSUME NEW w \in watchers, WatcherDeletes(w) PROVE [Contract!Next]_Contract!cvars
    <2>1. UNCHANGED <<active, trouble>> /\ server.live /\ Delete
        BY <1>5 DEF WatcherDeletes, cluster
    <2> QED BY <2>1, DeleteContract
<1>6. ASSUME NEW w \in watchers, WatcherGivesUp(w) PROVE [Contract!Next]_Contract!cvars
    BY <1>1, <1>6 DEF WatcherGivesUp, cluster
<1> QED BY <1>2, <1>3, <1>4, <1>5, <1>6 DEF CleanUp, Watcher


\* Experiments start under the finalizer.
LEMMA CreateContract ==
    ASSUME RInv, CreateExperiment
    PROVE  [Contract!Next]_Contract!cvars
<1>1. rec.pc = "create" /\ server' = server
    BY DEF CreateExperiment
<1>2. active \subseteq active' /\ trouble \subseteq trouble'
    BY DEF CreateExperiment, Create
<1>3. CASE active' # {}
    <2>1. server.fin \/ trouble # {}
        BY <1>1 DEF RInv, Guarded
    <2> QED BY <1>1, <1>2, <1>3, <2>1, TroubleExcuses DEF Contract!Next, Contract!Start
<1>4. CASE active' = {}
    BY <1>1, <1>2, <1>4, StopStep
<1> QED BY <1>3, <1>4

\* The annotation is not shown.
LEMMA AnnotateContract ==
    ASSUME IInv, SInv, Annotate
    PROVE  [Contract!Next]_Contract!cvars
<1> TypeOK /\ server \in Object /\ rec.cb \in Object
    BY DEF IInv, TypeOK, Call
<1> DEFINE obj == [server EXCEPT !.pre = rec.cb.pre]
<1>1. /\ Put(obj) \/ UNCHANGED server
      /\ UNCHANGED <<active, trouble>>
    BY DEF Annotate, cluster
<1>2. /\ obj \in Object /\ obj.live = server.live
      /\ obj.fin = server.fin /\ obj.dt = server.dt /\ obj.phase = server.phase
    <2>1. rec.cb.pre \in Specs \cup {NoSpec}
        BY DEF Object
    <2>2. obj \in Object
        BY <2>1, ServerFields
    <2> QED BY <2>2 DEF Object
<1> HIDE DEF obj
<1>3. /\ server'.live = server.live /\ server'.phase = server.phase
      /\ server'.fin = server.fin /\ server'.dt = server.dt
    <2>1. ~(obj.dt /\ ~obj.fin)
        BY <1>2 DEF SInv, ObjectOK
    <2> QED BY <1>1, <1>2, <2>1, PutResult
<1> QED BY <1>1, <1>3, HiddenStep

\* The phases that Reconcile writes follow their order, and it writes Destroyed
\* when nothing is in effect any more.
LEMMA StatusContract ==
    ASSUME IInv, SInv, RInv, WriteStatus
    PROVE  [Contract!Next]_Contract!cvars
<1> TypeOK /\ Coherent /\ server \in Object /\ rec \in Call /\ rec.cb \in Object
    BY DEF IInv, TypeOK, Call
<1> DEFINE obj == [server EXCEPT !.phase = rec.phase, !.exps = rec.out]
<1>1. rec.pc = "status" /\ UNCHANGED active /\ trouble \subseteq trouble'
    BY DEF WriteStatus, Lose, cluster
<1>2. CASE UNCHANGED <<server, rv, watch>>
    BY <1>1, <1>2, StopStep
<1>3. ASSUME Current(rec.cb), Put(obj),
             trouble' = IF /\ rec.phase = "Destroyed" /\ rec.with = NoSpec
                           /\ \E f \in active : f.id \in OkIds(rec.out)
                        THEN trouble \cup {"specMismatch"} ELSE trouble
      PROVE  [Contract!Next]_Contract!cvars
    <2>1. /\ obj \in Object /\ obj.live = server.live
          /\ obj.fin = server.fin /\ obj.dt = server.dt /\ obj.phase = rec.phase
        <3>1. obj \in Object
            BY ServerFields DEF Call
        <3> QED BY <3>1 DEF Object
    <2>2. Put(obj) /\ server.live
        BY <1>3 DEF Current
    <2> HIDE DEF obj
    <2>3. /\ server'.live /\ server'.fin = server.fin
          /\ server'.dt = server.dt /\ server'.phase = rec.phase
        <3>1. ~(obj.dt /\ ~obj.fin)
            BY <2>1 DEF SInv, ObjectOK
        <3> QED BY <2>1, <2>2, <3>1, PutResult
    <2>4. /\ server.phase = rec.cb.phase /\ server.exps = rec.cb.exps
          /\ server.dt = rec.cb.dt /\ server.phase # "Absent"
        BY <1>3 DEF Current, Coherent, Fresh, Object, Phases
    <2>5. /\ StatusOK /\ rec.cb.phase # "Destroyed"
          /\ rec.with # NoSpec =>
                /\ rec.phase = "Updating" => rec.cb.phase \in {"Running", "Error"}
                /\ rec.cb.phase \in {"Running", "Error", "Destroying"} \/ rec.cb.dt
        BY <1>1, <1>3 DEF SInv, CallOK, IInv, NotOver, RInv, PathOK
    <2>6. ASSUME <<server.phase, rec.phase>> \in Contract!Order
          PROVE  [Contract!Next]_Contract!cvars
        <3>1. server.fin \/ trouble # {}
            BY <1>1, <1>3 DEF SInv, Untroubled, HeldOK
        <3> QED BY <1>1, <2>2, <2>3, <2>6, <3>1, TroubleExcuses
                DEF Contract!Next, Contract!Progress
    <2>7. ASSUME rec.phase = "Destroyed", active # {} => trouble' # {}
          PROVE  [Contract!Next]_Contract!cvars
        BY <1>1, <2>2, <2>3, <2>4, <2>7, TroubleExcuses
           DEF Contract!Next, Contract!End, Contract!Exists
    <2>8. CASE /\ rec.with = NoSpec /\ rec.phase = "Initialized"
               /\ rec.cb.phase = "Initial" /\ rec.out = <<>>
        BY <2>4, <2>6, <2>8 DEF Contract!Order
    <2>9. CASE /\ rec.with = NoSpec /\ rec.phase \in {"Running", "Error"}
               /\ rec.cb.phase \in {"Initialized", "Updating"}
        BY <2>4, <2>6, <2>9 DEF Contract!Order
    <2>10. CASE /\ rec.with = NoSpec /\ rec.phase = "Destroyed"
                /\ rec.out = rec.cb.exps
        <3>1. active # {} => trouble' # {}
            BY <1>3, <2>4, <2>10 DEF SInv, Untroubled, Accounted
        <3> QED BY <2>7, <2>10, <3>1
    <2>11. CASE rec.with # NoSpec /\ rec.phase = "Updating"
        BY <2>4, <2>5, <2>6, <2>11 DEF Contract!Order
    <2>12. CASE rec.with # NoSpec /\ rec.phase = "Destroying"
        <3>1. CASE rec.cb.phase \in {"Running", "Error"}
            BY <2>4, <2>6, <2>12, <3>1 DEF Contract!Order
        <3>2. CASE rec.cb.phase = "Destroying"
            BY <1>1, <2>2, <2>3, <2>4, <2>12, <3>2, HiddenStep
        <3>3. CASE rec.cb.dt
            <4>1. trouble' = trouble
                BY <1>3, <2>12
            <4> QED BY <1>1, <2>2, <2>3, <2>4, <2>5, <2>12, <3>3, <4>1
                    DEF Contract!Next, Contract!Struggle, Contract!Exists
        <3> QED BY <2>5, <2>12, <3>1, <3>2, <3>3
    <2>13. CASE rec.with # NoSpec /\ rec.phase = "Destroyed"
        <3>1. active # {} => trouble # {}
            BY <1>1, <2>4, <2>13
               DEF SInv, Untroubled, LoopStops, Accounted, Expired
        <3> QED BY <1>1, <2>7, <2>13, <3>1
    <2> QED BY <2>5, <2>8, <2>9, <2>10, <2>11, <2>12, <2>13 DEF StatusOK
<1> QED BY <1>2, <1>3 DEF WriteStatus

\* The finalizer is set first of all, and goes when nothing is in effect.
LEMMA FinalizerContract ==
    ASSUME IInv, SInv, RInv, WriteFinalizer
    PROVE  [Contract!Next]_Contract!cvars
<1> TypeOK /\ Coherent /\ server \in Object /\ rec \in Call /\ rec.cb \in Object
    BY DEF IInv, TypeOK, Call
<1> DEFINE obj == [server EXCEPT !.fin = (rec.pc = "addFin"), !.pre = rec.cb.pre]
<1>1. rec.pc \in {"addFin", "removeFin"} /\ UNCHANGED <<active, trouble>>
    BY DEF WriteFinalizer, cluster
<1>2. CASE UNCHANGED <<server, rv, watch>>
    BY <1>1, <1>2, StopStep
<1>3. CASE Current(rec.cb) /\ Put(obj)
    <2>1. /\ obj \in Object /\ obj.live = server.live
          /\ obj.dt = server.dt /\ obj.phase = server.phase
        <3>1. (rec.pc = "addFin") \in BOOLEAN /\ rec.cb.pre \in Specs \cup {NoSpec}
            BY DEF Object
        <3>2. obj \in Object
            BY <3>1, ServerFields, Zenon
        <3> QED BY <3>2 DEF Object
    <2>2. obj.fin <=> rec.pc = "addFin"
        BY DEF Object
    <2>3. Put(obj) /\ server.live
        BY <1>3 DEF Current
    <2> HIDE DEF obj
    <2>4. /\ server.fin \in BOOLEAN /\ server.dt \in BOOLEAN /\ obj.fin \in BOOLEAN
          /\ server.phase # "Absent"
        BY <2>1 DEF Object, Phases
    <2>5. ~NoBlade.live /\ ~NoBlade.dt /\ ~NoBlade.fin
        BY DEF NoBlade
    <2>6. CASE rec.pc = "addFin"
        <3>1. server.phase = "Initial" /\ ~server.fin
            BY <1>3, <2>6 DEF RInv, PathOK, Current, Coherent, Fresh
        <3>2. /\ server'.live = server.live /\ server'.phase = server.phase
              /\ server'.fin = TRUE /\ server'.dt = server.dt
            BY <2>1, <2>2, <2>3, <2>4, <2>6, <3>1, PutResult
        <3> QED BY <1>1, <2>3, <3>1, <3>2 DEF Contract!Next, Contract!Hold
    <2>7. CASE rec.pc = "removeFin"
        <3>1. server.phase = "Destroyed"
            BY <1>3, <2>7 DEF Current, Coherent, Fresh, IInv, NotOver
        <3>2. active # {} => trouble # {}
            BY <2>7, <3>1 DEF SInv, Untroubled, Stopped, Accounted, Expired
        <3>3. obj.fin = FALSE
            BY <2>2, <2>4, <2>7
        <3>4. CASE ~server.fin
            <4>1. server.fin = FALSE /\ ~server.dt
                BY <2>4, <3>4 DEF SInv, ObjectOK
            <4>2. /\ server'.live = server.live /\ server'.phase = server.phase
                  /\ server'.fin = server.fin /\ server'.dt = server.dt
                BY <2>1, <2>3, <3>3, <4>1, PutResult
            <4> QED BY <1>1, <4>2, HiddenStep
        <3>5. CASE server.fin /\ server.dt
            <4>1. server' = NoBlade
                BY <2>1, <2>3, <3>3, <3>5, PutResult
            <4> QED BY <1>1, <2>3, <2>5, <3>1, <3>2, <3>5, <4>1, TroubleExcuses
                    DEF Contract!Next, Contract!Release, Contract!Gone
        <3>6. CASE server.fin /\ ~server.dt
            <4>1. /\ server'.live = server.live /\ server'.phase = server.phase
                  /\ server'.fin = FALSE /\ server'.dt = server.dt
                BY <2>1, <2>3, <3>3, <3>6, PutResult
            <4> QED BY <1>1, <2>3, <3>1, <3>2, <3>6, <4>1, TroubleExcuses
                    DEF Contract!Next, Contract!Release
        <3> QED BY <3>4, <3>5, <3>6
    <2> QED BY <1>1, <2>6, <2>7
<1> QED BY <1>2, <1>3 DEF WriteFinalizer

-----------------------------------------------------------------------------
(***************************************************************************)
(* The theorem.                                                            *)
(***************************************************************************)

\* Every step of the blade's life is a step of the contract.
LEMMA ContractStep ==
    ASSUME IInv, SInv, RInv, [Next]_vars
    PROVE  [Contract!Next]_Contract!cvars
<1>1. CASE Informer
    BY <1>1, StopStep DEF Informer, Deliver, Relist, Resync, Handle, cluster
<1>2. CASE Reconciler
    <2>1. CASE Reconcile \/ DestroyPanic
        BY <2>1, StopStep DEF Reconcile, DestroyPanic, cluster
    <2>2. CASE DestroyExperiment
        BY <2>2, StopStep DEF DestroyExperiment, Destroy
    <2> QED BY <1>2, <2>1, <2>2, CreateContract, AnnotateContract, StatusContract,
               FinalizerContract DEF Reconciler
<1>3. CASE Expiry
    BY <1>3, StopStep DEF Expiry, FaultTimeout
<1>4. CASE Restart
    BY <1>4, StopStep DEF Restart, Lose, cluster
<1>5. CASE UNCHANGED vars
    BY <1>5, StopStep DEF vars
<1> QED BY <1>1, <1>2, <1>3, <1>4, <1>5, UserContract, BackgroundContract DEF Next

\* The life of a blade implements its contract, whatever the number of edits,
\* of blades created under the name, of restarts and of lost replies: the
\* phases follow their order, experiments start only under the finalizer, and
\* the blade is ended, or released, with experiments in effect only after one
\* of Causes has been met.
THEOREM ContractIsKept == Spec => ImplementsContract
<1>1. Init => Contract!Init
    BY DEF Init, NoBlade, Contract!Init
<1>2. Init => IInv /\ SInv /\ RInv
    BY InitialState, SafetyStart, OrderStart
<1>3. (IInv /\ SInv /\ RInv) /\ [Next]_vars => (IInv /\ SInv /\ RInv)'
    BY InductiveStep, SafetyStep, OrderStep
<1>4. (IInv /\ SInv /\ RInv) /\ [Next]_vars => [Contract!Next]_Contract!cvars
    BY ContractStep
<1> QED BY <1>1, <1>2, <1>3, <1>4, PTL DEF Spec, ImplementsContract, Contract!Spec

=============================================================================
