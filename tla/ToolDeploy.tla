----------------------------- MODULE ToolDeploy -----------------------------
(***************************************************************************)
(* Deployment of the chaosblade tool in one target container.  Every       *)
(* create or destroy of an experiment first sees to it that the files its  *)
(* action needs are there: by commands run in the container, a test for    *)
(* every file and a copy (tar through the pods/exec stream) or a download  *)
(* (curl, and tar for archives) of what the test does not find.  Several   *)
(* blades may aim at the same container at the same time.                  *)
(*                                                                         *)
(* Sources: exec/model/executor_copy.go (deployChaosBlade), executor.go    *)
(* (generateCreateCommands, generateDestroyCommands, getDeployMode),       *)
(* deploy.go, copy.go, download.go, channel/client.go.                     *)
(***************************************************************************)
EXTENDS Naturals, Sequences

CONSTANTS
    Calls,        \* calls of deployChaosBlade for this container
    Files,        \* files of the tool, "blade", "yaml" and "chaos_os" among them
    Packed,       \* files that are downloaded as a tar.gz
    Mode,         \* Mode[c]: "copy", "download", or "none" (download, no url)
    Override,     \* calls that deploy what is there already
    Programs,     \* Programs[c]: sequence of further files the action needs
    Shipped,      \* files the operator's image and the download site have
    MaxRestarts,  \* bound on restarts of the container
    Faults        \* may commands and streams fail?

ASSUME FilesAssumption == {"blade", "yaml", "chaos_os"} \subseteq Files
ASSUME CallsAssumption ==
    /\ Mode \in [Calls -> {"copy", "download", "none"}]
    /\ Programs \in [Calls -> Seq(Files)]
ASSUME LimitsAssumption == MaxRestarts \in Nat /\ Faults \in BOOLEAN

Needs(c) == <<"blade", "yaml", "chaos_os">> \o Programs[c]

VARIABLES
    dir,       \* does the directory of the tool exist?
    files,     \* what is in the container under the name of each file
    archive,   \* and under the name of its archive
    pc,        \* where each call is
    at,        \* at[c]: index in Needs(c) of the file it is busy with
    restarts,  \* restarts of the container so far
    spoiled,   \* history: files a deployment has left incomplete
    clean      \* history: calls during which no other has written, whose container
               \* was not restarted and that had nothing swallowed

vars == <<dir, files, archive, pc, at, restarts, spoiled, clean>>

Contents == {"none", "part", "full"}

TypeOK ==
    /\ dir \in BOOLEAN
    /\ files \in [Files -> Contents]
    /\ archive \in [Files -> Contents]
    /\ pc \in [Calls -> {"idle", "dir", "mkdir", "check", "deploy", "write",
                         "unpack", "unpacking", "done", "failed"}]
    /\ at \in [Calls -> Nat \ {0}]
    /\ \A c \in Calls : pc[c] \in {"deploy", "write", "unpack", "unpacking"} => at[c] <= Len(Needs(c))
    /\ restarts \in 0 .. MaxRestarts
    /\ spoiled \subseteq Files
    /\ clean \subseteq Calls

Init ==
    /\ dir = FALSE
    /\ files = [f \in Files |-> "none"]
    /\ archive = [f \in Files |-> "none"]
    /\ pc = [c \in Calls |-> "idle"]
    /\ at = [c \in Calls |-> 1]
    /\ restarts = 0
    /\ spoiled = {}
    /\ clean = {}

File(c) == Needs(c)[at[c]]

Active(c) == pc[c] \notin {"idle", "done", "failed"}

\* Does c have the file f open for writing (not its archive)?
Writes(c, f) == /\ pc[c] = "unpacking" \/ (pc[c] = "write" /\ ~(Mode[c] = "download" /\ f \in Packed))
                /\ File(c) = f

Writing(c) == pc[c] \in {"write", "unpacking"}

Goto(c, where) == pc' = [pc EXCEPT ![c] = where]

\* Mutant: the next file is deployed without a look at what is left to do.
AdvanceUnchecked(c) == at' = [at EXCEPT ![c] = @ + 1] /\ Goto(c, "deploy")

\* The file is dealt with: the next one.
Advance(c) == at' = [at EXCEPT ![c] = @ + 1] /\ Goto(c, "check")

Abort(c) == Goto(c, "failed") /\ UNCHANGED at

-----------------------------------------------------------------------------
\* getDeployMode fails when a download has no url.
Start(c) ==
    /\ pc[c] = "idle"
    /\ Goto(c, IF Mode[c] = "none" THEN "failed" ELSE "dir")
    /\ clean' = IF \E d \in Calls : Writing(d) THEN clean ELSE clean \cup {c}
    /\ UNCHANGED <<dir, files, archive, at, restarts, spoiled>>

\* CheckFileExists on the directory; a failure of the command counts as absence.
CheckDir(c) ==
    /\ pc[c] = "dir"
    /\ \/ dir /\ Goto(c, "check")
       \/ (~dir \/ Faults) /\ Goto(c, "mkdir")
    /\ UNCHANGED <<dir, files, archive, at, restarts, spoiled, clean>>

CreateDir(c) ==
    /\ pc[c] = "mkdir"
    /\ \/ dir' = TRUE /\ Goto(c, "check")
       \/ Faults /\ dir' \in {dir, TRUE} /\ Goto(c, "failed")
    /\ UNCHANGED <<files, archive, at, restarts, spoiled, clean>>

\* Mutants: any file found is taken for all of them; override is not looked at.
CheckFirst(c) ==
    /\ pc[c] = "check"
    /\ at[c] <= Len(Needs(c))
    /\ \/ /\ c \notin Override
          /\ files[File(c)] # "none"
          /\ Goto(c, "done") /\ UNCHANGED at
       \/ /\ c \in Override \/ files[File(c)] = "none" \/ Faults
          /\ Goto(c, "deploy") /\ UNCHANGED at
    /\ UNCHANGED <<dir, files, archive, restarts, spoiled, clean>>
CheckNoOverride(c) ==
    /\ pc[c] = "check"
    /\ at[c] <= Len(Needs(c))
    /\ IF files[File(c)] # "none" THEN Advance(c) ELSE Goto(c, "deploy") /\ UNCHANGED at
    /\ UNCHANGED <<dir, files, archive, restarts, spoiled, clean>>

\* CheckFileExists is asked whether the name exists, not what is in it.
CheckFile(c) ==
    /\ pc[c] = "check"
    /\ at[c] <= Len(Needs(c))
    /\ \/ /\ c \notin Override
          /\ files[File(c)] # "none"
          /\ Advance(c)
       \/ /\ c \in Override \/ files[File(c)] = "none" \/ Faults
          /\ Goto(c, "deploy") /\ UNCHANGED at
    /\ UNCHANGED <<dir, files, archive, restarts, spoiled, clean>>

Return(c) ==
    /\ pc[c] = "check"
    /\ at[c] > Len(Needs(c))
    /\ Goto(c, "done")
    /\ UNCHANGED <<dir, files, archive, at, restarts, spoiled, clean>>

-----------------------------------------------------------------------------
(***************************************************************************)
(* DeployToPod.                                                            *)
(***************************************************************************)

\* The other calls under way are no longer alone.
Interferes(c) == clean' = clean \ {d \in Calls \ {c} : Active(d)}

\* What a finished write of f leaves: another writer may be halfway through it.
Finished(c, f) == IF \E d \in Calls \ {c} : Writes(d, f) THEN {"part", "full"} ELSE {"full"}

\* The command has begun to write: the file, or the archive of a download.
Open(c) ==
    /\ IF Mode[c] = "download" /\ File(c) \in Packed
       THEN archive' = [archive EXCEPT ![File(c)] = "part"] /\ UNCHANGED files
       ELSE files' = [files EXCEPT ![File(c)] = "part"] /\ UNCHANGED archive
    /\ Interferes(c)

\* The command starts.  Of a file the operator does not have, copy makes an
\* empty archive, which the container's tar accepts without a word, and the
\* download site an error page, stored under the name of the file before the
\* code of the answer is looked at.
Begin(c) ==
    /\ pc[c] = "deploy"
    /\ \/ /\ dir /\ File(c) \in Shipped
          /\ Open(c)
          /\ Goto(c, "write")
          /\ UNCHANGED <<at, spoiled>>
       \/ /\ dir /\ File(c) \notin Shipped /\ Mode[c] = "copy"
          /\ spoiled' = spoiled \cup {File(c)}
          /\ clean' = clean \ {c}
          /\ Advance(c)
          /\ UNCHANGED <<files, archive>>
       \/ /\ dir /\ File(c) \notin Shipped /\ Mode[c] = "download"
          /\ Open(c)
          /\ spoiled' = IF File(c) \in Packed THEN spoiled ELSE spoiled \cup {File(c)}
          /\ Abort(c)
       \/ /\ ~dir \/ Faults
          /\ Abort(c)
          /\ UNCHANGED <<files, archive, spoiled, clean>>
    /\ UNCHANGED <<dir, restarts>>

\* The command ends.  An archive is unpacked next.  A break leaves the file
\* incomplete; what the command says on its error output makes it a failure
\* whatever it has done; an error of makeTar, on the operator's side, is only
\* logged, and the file counts as deployed.
Write(c) ==
    /\ pc[c] = "write"
    /\ LET f == File(c)
       IN \/ /\ Mode[c] = "download" /\ f \in Packed
             /\ \/ archive' = [archive EXCEPT ![f] = "full"] /\ Goto(c, "unpack") /\ UNCHANGED at
                \/ Faults /\ Abort(c) /\ UNCHANGED archive
             /\ UNCHANGED <<files, spoiled, clean>>
          \/ /\ ~(Mode[c] = "download" /\ f \in Packed)
             /\ \/ /\ \E x \in Finished(c, f) : files' = [files EXCEPT ![f] = x]
                   /\ Advance(c) \/ (Faults /\ Abort(c))
                   /\ UNCHANGED <<spoiled, clean>>
                \/ /\ Faults
                   /\ spoiled' = spoiled \cup {f}
                   /\ \/ Abort(c) /\ UNCHANGED clean
                      \/ Mode[c] = "copy" /\ Advance(c) /\ clean' = clean \ {c}
                   /\ UNCHANGED files
             /\ UNCHANGED archive
    /\ UNCHANGED <<dir, restarts>>

\* uncompress, of the archive as it is by now.
UnpackBegin(c) ==
    /\ pc[c] = "unpack"
    /\ \/ /\ archive[File(c)] = "full"
          /\ files' = [files EXCEPT ![File(c)] = "part"]
          /\ Interferes(c)
          /\ Goto(c, "unpacking") /\ UNCHANGED <<at, spoiled>>
       \/ /\ archive[File(c)] # "full" \/ Faults
          /\ \/ UNCHANGED <<files, spoiled>>
             \/ /\ archive[File(c)] = "part"
                /\ files' = [files EXCEPT ![File(c)] = "part"]
                /\ spoiled' = spoiled \cup {File(c)}
          /\ Interferes(c)
          /\ Abort(c)
    /\ UNCHANGED <<dir, archive, restarts>>

UnpackEnd(c) ==
    /\ pc[c] = "unpacking"
    /\ \/ /\ \E x \in Finished(c, File(c)) : files' = [files EXCEPT ![File(c)] = x]
          /\ Advance(c) \/ (Faults /\ Abort(c))
          /\ UNCHANGED spoiled
       \/ /\ Faults
          /\ spoiled' = spoiled \cup {File(c)}
          /\ Abort(c)
          /\ UNCHANGED files
    /\ UNCHANGED <<dir, archive, restarts, clean>>

-----------------------------------------------------------------------------
\* The container is restarted from its image: the tool is gone with all else,
\* and the commands that were writing break off.
ContainerRestart ==
    /\ restarts < MaxRestarts
    /\ restarts' = restarts + 1
    /\ dir' = FALSE
    /\ files' = [f \in Files |-> "none"]
    /\ archive' = [f \in Files |-> "none"]
    /\ pc' = [c \in Calls |-> IF Writing(c) THEN "failed" ELSE pc[c]]
    /\ spoiled' = {}
    /\ clean' = clean \ {c \in Calls : Active(c)}
    /\ UNCHANGED at

Deploy(c) == \/ Start(c) \/ CheckDir(c) \/ CreateDir(c) \/ CheckFile(c) \/ Return(c)
             \/ Begin(c) \/ Write(c) \/ UnpackBegin(c) \/ UnpackEnd(c)

Next == ContainerRestart \/ \E c \in Calls : Deploy(c)

Spec == Init /\ [][Next]_vars

-----------------------------------------------------------------------------
\* When the deployment of a call is reported successful, without a restart of
\* the container in between, every file its action needs is complete, but for
\* those that an earlier deployment has spoiled or that another call is still
\* writing: the test before the copy sees no more than a name.
CompleteUnlessSpoiled ==
    [][\A c \in Calls : pc[c] # "done" /\ pc'[c] = "done" /\ restarts = 0
          => \A k \in DOMAIN Needs(c) :
                LET f == Needs(c)[k]
                IN  files[f] = "full" \/ f \in spoiled \/ \E d \in Calls : Writes(d, f)]_vars

\* An override repairs what earlier deployments have spoiled: when its call
\* succeeds undisturbed every file its action needs is complete.
OverrideRepairs ==
    [][\A c \in Override : pc[c] # "done" /\ pc'[c] = "done" /\ c \in clean
          => \A k \in DOMAIN Needs(c) : files[Needs(c)[k]] = "full"]_vars

=============================================================================
