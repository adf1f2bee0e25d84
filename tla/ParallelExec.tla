---------------------------- MODULE ParallelExec ----------------------------
(***************************************************************************)
(* The second half of CommonExecutor.Exec and ExecCommandInPodExecutor.Exec *)
(* (the first, which makes the identifiers, and what follows are in        *)
(* ToolPodExec): the identifiers are put in a closed channel and           *)
(* ParallelizeExec runs execCommandInPod on them in a pool of goroutines.  *)
(* Each goroutine collects its result in variables shared by all.          *)
(*                                                                         *)
(* Sources: exec/model/parallelizer.go, executor_nsexec.go,                *)
(* executor_copy.go.                                                       *)
(***************************************************************************)
EXTENDS Naturals, Sequences, FiniteSets

CONSTANTS
    Count,      \* bound on the number of experiment identifiers
    maxWorkers  \* size of the goroutine pool

ASSUME CountAssumption == Count \in Nat /\ maxWorkers \in Nat \ {0}

Items == 1 .. Count

\* At most as many goroutines as there are identifiers, and maxWorkers.
Workers == 1 .. (IF Count < maxWorkers THEN Count ELSE maxWorkers)

ResStatus == [item : Items, ok : BOOLEAN]

VARIABLES
    toExec,    \* the channel, filled and closed before the goroutines start
    pc,        \* pc[w]: where goroutine w is
    item,      \* item[w]: the identifier it works on (0: none)
    execOk,    \* execOk[w]: the local variable execSuccess
    seen,      \* seen[w]: the shared variables as w read them under the lock
    lock,      \* goroutine that holds updateResultLock (0: none)
    missing,   \* history: identifiers whose pod was found not to exist
    success,   \* shared: the experiment's success
    statuses,  \* shared: the resource statuses, in order of completion
    ran,       \* identifiers whose command has been run, with its result
    returned   \* has Exec returned?

pool == <<toExec, pc, item, execOk, seen, lock, missing, success, statuses, ran, returned>>

PoolTypeOK ==
    /\ toExec \in Seq(Items)
    /\ pc \in [Workers -> {"new", "take", "check", "run", "lock", "update", "exit"}]
    /\ item \in [Workers -> Items \cup {0}]
    /\ execOk \in [Workers -> BOOLEAN]
    /\ seen \in [Workers -> [success : BOOLEAN, statuses : Seq(ResStatus)]]
    /\ lock \in Workers \cup {0}
    /\ missing \subseteq Items
    /\ success \in BOOLEAN
    /\ statuses \in Seq(ResStatus)
    /\ ran \in SUBSET ResStatus
    /\ returned \in BOOLEAN

Unseen == [success |-> TRUE, statuses |-> <<>>]

PoolInit ==
    /\ toExec = <<>>
    /\ pc = [w \in Workers |-> "new"]
    /\ item = [w \in Workers |-> 0]
    /\ execOk = [w \in Workers |-> TRUE]
    /\ seen = [w \in Workers |-> [success |-> TRUE, statuses |-> <<>>]]
    /\ lock = 0
    /\ missing = {}
    /\ success = TRUE
    /\ statuses = <<>>
    /\ ran = {}
    /\ returned = FALSE

-----------------------------------------------------------------------------
\* The channel is filled and closed, then the goroutines are started.
ParallelizeExec(workCount) ==
    /\ \A w \in Workers : pc[w] = "new"
    /\ toExec' = [i \in 1 .. workCount |-> i]
    /\ pc' = [w \in Workers |-> IF w <= workCount THEN "take" ELSE "exit"]
    /\ UNCHANGED <<item, execOk, seen, lock, missing, success, statuses, ran, returned>>

\* Mutants: identifiers are counted from zero; the identifier taken stays in
\* the channel for the next goroutine.
TakeZeroBased(w) ==
    /\ pc[w] = "take"
    /\ IF toExec = <<>>
       THEN /\ pc' = [pc EXCEPT ![w] = "exit"]
            /\ UNCHANGED <<toExec, item, execOk>>
       ELSE /\ toExec' = Tail(toExec)
            /\ item' = [item EXCEPT ![w] = Head(toExec) - 1]
            /\ execOk' = [execOk EXCEPT ![w] = TRUE]
            /\ pc' = [pc EXCEPT ![w] = "check"]
    /\ UNCHANGED <<seen, lock, missing, success, statuses, ran, returned>>
TakeShared(w) ==
    /\ pc[w] = "take"
    /\ toExec # <<>>
    /\ item' = [item EXCEPT ![w] = Head(toExec)]
    /\ execOk' = [execOk EXCEPT ![w] = TRUE]
    /\ pc' = [pc EXCEPT ![w] = "check"]
    /\ UNCHANGED <<toExec, seen, lock, missing, success, statuses, ran, returned>>

\* for workID := range toExec: the next identifier, or the goroutine ends when
\* the channel is empty and closed.
Take(w) ==
    /\ pc[w] = "take"
    /\ IF toExec = <<>>
       THEN /\ pc' = [pc EXCEPT ![w] = "exit"]
            /\ UNCHANGED <<toExec, item, execOk>>
       ELSE /\ toExec' = Tail(toExec)
            /\ item' = [item EXCEPT ![w] = Head(toExec)]
            /\ execOk' = [execOk EXCEPT ![w] = TRUE]
            /\ pc' = [pc EXCEPT ![w] = "check"]
    /\ UNCHANGED <<seen, lock, missing, success, statuses, ran, returned>>

\* The command is run, or not: the identifier carries an error, or the lookup
\* of its pod fails.
GoesOn(w) ==
    /\ pc' = [pc EXCEPT ![w] = "run"]
    /\ UNCHANGED <<execOk, missing, success>>

Fails(w) ==
    /\ pc' = [pc EXCEPT ![w] = "lock"]
    /\ execOk' = [execOk EXCEPT ![w] = FALSE]
    /\ UNCHANGED <<missing, success>>

\* The pod of the identifier does not exist: the shared flag is set, without
\* the lock, and the command is run all the same.
Vanished(w) ==
    /\ pc' = [pc EXCEPT ![w] = "run"]
    /\ missing' = missing \cup {item[w]}
    /\ success' = TRUE
    /\ UNCHANGED execOk

\* broken: the identifiers that carry an error; podless: none names a pod.
Check(w, broken, podless) ==
    /\ pc[w] = "check"
    /\ IF item[w] \in broken THEN Fails(w)
       ELSE \/ GoesOn(w)
            \/ ~podless /\ (Fails(w) \/ Vanished(w))
    /\ UNCHANGED <<toExec, item, seen, lock, statuses, ran, returned>>

\* execCommands: the command is run through the pods/exec channel; there: can
\* the pod it is sent to be reached at all?
Run(w, there) ==
    /\ pc[w] = "run"
    /\ \E ok \in IF there THEN BOOLEAN ELSE {FALSE} :
         /\ execOk' = [execOk EXCEPT ![w] = ok]
         /\ ran' = ran \cup {[item |-> item[w], ok |-> ok]}
    /\ pc' = [pc EXCEPT ![w] = "lock"]
    /\ UNCHANGED <<toExec, item, seen, lock, missing, success, statuses, returned>>

\* Mutant: the results are collected without the lock.
LockNone(w) ==
    /\ pc[w] = "lock"
    /\ seen' = [seen EXCEPT ![w] = [success |-> success, statuses |-> statuses]]
    /\ pc' = [pc EXCEPT ![w] = "update"]
    /\ UNCHANGED <<toExec, item, execOk, lock, missing, success, statuses, ran, returned>>

\* updateResultLock.Lock(), then the shared variables are read.
Lock(w) ==
    /\ pc[w] = "lock"
    /\ lock = 0
    /\ lock' = w
    /\ seen' = [seen EXCEPT ![w] = [success |-> success, statuses |-> statuses]]
    /\ pc' = [pc EXCEPT ![w] = "update"]
    /\ UNCHANGED <<toExec, item, execOk, missing, success, statuses, ran, returned>>

\* Mutants: the flag keeps only the last result; the goroutine ends with the
\* lock in its hands.
UpdateLast(w) ==
    /\ pc[w] = "update"
    /\ statuses' = Append(seen[w].statuses, [item |-> item[w], ok |-> execOk[w]])
    /\ success' = execOk[w]
    /\ lock' = 0
    /\ pc' = [pc EXCEPT ![w] = "take"]
    /\ UNCHANGED <<toExec, item, execOk, seen, missing, ran, returned>>
UpdateKeepsLock(w) ==
    /\ pc[w] = "update"
    /\ statuses' = Append(seen[w].statuses, [item |-> item[w], ok |-> execOk[w]])
    /\ success' = (seen[w].success /\ execOk[w])
    /\ pc' = [pc EXCEPT ![w] = "take"]
    /\ UNCHANGED <<toExec, item, execOk, seen, lock, missing, ran, returned>>

\* Both are written from what was read, and the lock is released.
Update(w) ==
    /\ pc[w] = "update"
    /\ statuses' = Append(seen[w].statuses, [item |-> item[w], ok |-> execOk[w]])
    /\ success' = (seen[w].success /\ execOk[w])
    /\ lock' = 0
    /\ pc' = [pc EXCEPT ![w] = "take"]
    /\ seen' = [seen EXCEPT ![w] = Unseen]
    /\ item' = [item EXCEPT ![w] = 0]
    /\ execOk' = [execOk EXCEPT ![w] = TRUE]
    /\ UNCHANGED <<toExec, missing, ran, returned>>

\* wg.Wait() ends when every goroutine has; Exec returns the statuses.
Return ==
    /\ ~returned
    /\ \A w \in Workers : pc[w] = "exit"
    /\ returned' = TRUE
    /\ UNCHANGED <<toExec, pc, item, execOk, seen, lock, missing, success, statuses, ran>>

=============================================================================
