-------------------------- MODULE ToolDeployProofs --------------------------
(***************************************************************************)
(* Theorems about ToolDeploy, for any calls, files, programs and number of *)
(* restarts of the container.                                              *)
(***************************************************************************)
EXTENDS ToolDeploy, SequenceTheorems, TLAPS

\* A call has dealt with no file before it has found or made the directory, and
\* is not called clean before it has begun.
BeginsAtFirst ==
    \A c \in Calls : /\ pc[c] \in {"idle", "dir", "mkdir"} => at[c] = 1
                     /\ pc[c] = "idle" => c \notin clean

\* An incomplete file is still being written, or a deployment has spoiled it
\* (DeployToPod).
PartIsExplained ==
    \A f \in Files : files[f] = "part" => f \in spoiled \/ \E d \in Calls : Writes(d, f)

\* What a call has passed by is there in some form (CheckFileExists).
PassedIsThere ==
    restarts = 0 => \A c \in Calls : \A k \in DOMAIN Needs(c) :
        k < at[c] => files[Needs(c)[k]] # "none" \/ Needs(c)[k] \in spoiled

\* While an undisturbed call is under way no other writes.
CleanIsAlone ==
    \A c \in clean : Active(c) => \A d \in Calls \ {c} : ~Writing(d)

\* An undisturbed override has completed all that it has dealt with, but for a
\* file it needs twice and is writing again.
OverrideProgress ==
    \A c \in Override \cap clean : Active(c) =>
        \A k \in DOMAIN Needs(c) :
            k < at[c] => files[Needs(c)[k]] = "full" \/ Writes(c, Needs(c)[k])

IInv == /\ TypeOK /\ BeginsAtFirst /\ PartIsExplained /\ PassedIsThere
        /\ CleanIsAlone /\ OverrideProgress

-----------------------------------------------------------------------------
(***************************************************************************)
(* The constants.                                                          *)
(***************************************************************************)

\* What a call needs are files, three at least.
LEMMA NeedsType ==
    ASSUME NEW c \in Calls
    PROVE  /\ Needs(c) \in Seq(Files)
           /\ DOMAIN Needs(c) = 1 .. Len(Needs(c)) /\ Len(Needs(c)) \in Nat
           /\ \A k \in DOMAIN Needs(c) : Needs(c)[k] \in Files
<1>1. Programs[c] \in Seq(Files)
  BY CallsAssumption
<1>2. <<"blade", "yaml", "chaos_os">> \in Seq(Files)
  BY FilesAssumption
<1>3. Needs(c) \in Seq(Files)
  BY <1>1, <1>2, ConcatProperties DEF Needs
<1> QED BY <1>3

\* The file a call is busy with (the loop of deployChaosBlade).
LEMMA FileType ==
    ASSUME TypeOK, NEW c \in Calls, at[c] <= Len(Needs(c))
    PROVE  File(c) \in Files /\ at[c] \in DOMAIN Needs(c)
<1>1. at[c] \in DOMAIN Needs(c)
  BY NeedsType DEF TypeOK
<1> QED BY <1>1, NeedsType DEF File

LEMMA TypeStep == TypeOK /\ [Next]_vars => TypeOK'
<1> SUFFICES ASSUME TypeOK, [Next]_vars PROVE TypeOK'
  OBVIOUS
<1> USE LimitsAssumption DEF TypeOK
<1> DEFINE Places == {"idle", "dir", "mkdir", "check", "deploy", "write", "unpack", "unpacking", "done", "failed"}
           Busy   == {"deploy", "write", "unpack", "unpacking"}
\* What is left to show when one call has moved.
<1>1. ASSUME NEW c \in Calls,
             dir' \in BOOLEAN, files' \in [Files -> Contents], archive' \in [Files -> Contents],
             NEW p \in Places, pc' = [pc EXCEPT ![c] = p],
             at' = at \/ (at' = [at EXCEPT ![c] = @ + 1] /\ p = "check"),
             p \in Busy => at[c] <= Len(Needs(c)),
             restarts' = restarts, spoiled' \subseteq Files, clean' \subseteq Calls
      PROVE  TypeOK'
  <2>1. at' \in [Calls -> Nat \ {0}]
    BY <1>1
  <2>2. pc' \in [Calls -> Places]
    BY <1>1
  <2>3. ASSUME NEW d \in Calls, pc'[d] \in Busy
        PROVE  at'[d] <= Len(Needs(d))
    BY <1>1, <2>3
  <2> QED BY <1>1, <2>1, <2>2, <2>3
<1>2. ASSUME NEW c \in Calls, pc[c] \in Busy
      PROVE  File(c) \in Files /\ at[c] <= Len(Needs(c))
  BY <1>2, FileType
<1>3. CASE UNCHANGED vars
  BY <1>3 DEF vars
<1>4. CASE ContainerRestart
  <2>1. files' \in [Files -> Contents] /\ archive' \in [Files -> Contents]
    BY <1>4 DEF ContainerRestart, Contents
  <2>2. pc' \in [Calls -> Places] /\ \A c \in Calls : pc'[c] \in Busy => pc[c] \in Busy
    BY <1>4 DEF ContainerRestart, Writing
  <2>3. restarts' \in 0 .. MaxRestarts
    BY <1>4 DEF ContainerRestart
  <2>4. at' = at /\ dir' \in BOOLEAN /\ spoiled' \subseteq Files /\ clean' \subseteq Calls
    BY <1>4 DEF ContainerRestart
  <2> QED BY <2>1, <2>2, <2>3, <2>4
<1>5. ASSUME NEW c \in Calls, Start(c) \/ CheckDir(c) \/ CreateDir(c) \/ Return(c)
      PROVE  TypeOK'
  <2>1. PICK p \in {"failed", "dir", "check", "mkdir", "done"} : pc' = [pc EXCEPT ![c] = p]
    BY <1>5 DEF Start, CheckDir, CreateDir, Return, Goto
  <2>2. /\ UNCHANGED <<files, archive, at, restarts, spoiled>> /\ dir' \in BOOLEAN /\ clean' \subseteq Calls
    BY <1>5 DEF Start, CheckDir, CreateDir, Return
  <2> QED BY <1>1, <2>1, <2>2
<1>6. ASSUME NEW c \in Calls, CheckFile(c)
      PROVE  TypeOK'
  <2>1. at[c] <= Len(Needs(c)) /\ UNCHANGED <<dir, files, archive, restarts, spoiled, clean>>
    BY <1>6 DEF CheckFile
  <2>2. CASE Advance(c)
    BY <1>1, <2>1, <2>2 DEF Advance, Goto
  <2>3. CASE Goto(c, "deploy") /\ UNCHANGED at
    BY <1>1, <2>1, <2>3 DEF Goto
  <2> QED BY <1>6, <2>2, <2>3 DEF CheckFile
<1>7. ASSUME NEW c \in Calls, Begin(c)
      PROVE  TypeOK'
  <2>1. File(c) \in Files /\ at[c] <= Len(Needs(c))
    BY <1>2, <1>7 DEF Begin
  <2>2. /\ files' \in [Files -> Contents] /\ archive' \in [Files -> Contents]
        /\ spoiled' \subseteq Files /\ clean' \subseteq Calls /\ UNCHANGED <<dir, restarts>>
    BY <1>7, <2>1 DEF Begin, Open, Interferes, Contents
  <2>3. CASE Advance(c)
    BY <1>1, <2>2, <2>3 DEF Advance, Goto
  <2>4. CASE Goto(c, "write") /\ UNCHANGED at
    BY <1>1, <2>1, <2>2, <2>4 DEF Goto
  <2>5. CASE Abort(c)
    BY <1>1, <2>2, <2>5 DEF Abort, Goto
  <2> QED BY <1>7, <2>3, <2>4, <2>5 DEF Begin
<1>8. ASSUME NEW c \in Calls, Write(c)
      PROVE  TypeOK'
  <2>1. File(c) \in Files /\ at[c] <= Len(Needs(c))
    BY <1>2, <1>8 DEF Write
  <2>2. /\ files' \in [Files -> Contents] /\ archive' \in [Files -> Contents]
        /\ spoiled' \subseteq Files /\ clean' \subseteq Calls /\ UNCHANGED <<dir, restarts>>
    BY <1>8, <2>1 DEF Write, Finished, Contents
  <2>3. CASE Advance(c)
    BY <1>1, <2>2, <2>3 DEF Advance, Goto
  <2>4. CASE Goto(c, "unpack") /\ UNCHANGED at
    BY <1>1, <2>1, <2>2, <2>4 DEF Goto
  <2>5. CASE Abort(c)
    BY <1>1, <2>2, <2>5 DEF Abort, Goto
  <2> QED BY <1>8, <2>3, <2>4, <2>5 DEF Write
<1>9. ASSUME NEW c \in Calls, UnpackBegin(c) \/ UnpackEnd(c)
      PROVE  TypeOK'
  <2>1. File(c) \in Files /\ at[c] <= Len(Needs(c))
    BY <1>2, <1>9 DEF UnpackBegin, UnpackEnd
  <2>2. /\ files' \in [Files -> Contents] /\ archive' \in [Files -> Contents]
        /\ spoiled' \subseteq Files /\ clean' \subseteq Calls /\ UNCHANGED <<dir, restarts>>
    BY <1>9, <2>1 DEF UnpackBegin, UnpackEnd, Interferes, Finished, Contents
  <2>3. CASE Advance(c)
    BY <1>1, <2>2, <2>3 DEF Advance, Goto
  <2>4. CASE Goto(c, "unpacking") /\ UNCHANGED at
    BY <1>1, <2>1, <2>2, <2>4 DEF Goto
  <2>5. CASE Abort(c)
    BY <1>1, <2>2, <2>5 DEF Abort, Goto
  <2> QED BY <1>9, <2>3, <2>4, <2>5 DEF UnpackBegin, UnpackEnd
<1> QED BY <1>3, <1>4, <1>5, <1>6, <1>7, <1>8, <1>9 DEF Next, Deploy

-----------------------------------------------------------------------------
(***************************************************************************)
(* The steps.                                                              *)
(***************************************************************************)

\* What a step of the deployment c does to the other ones: a file is never
\* taken away, and who writes is alone or takes "clean" from the others.
Spares(c) ==
    /\ restarts' = restarts /\ spoiled \subseteq spoiled' /\ clean' \subseteq clean \cup {c}
    /\ \A d \in Calls \ {c} : pc'[d] = pc[d] /\ at'[d] = at[d]
    /\ \A f \in Files : files[f] # "none" => files'[f] # "none"
    /\ \/ Writing(c)
       \/ files' = files /\ ~Writing(c)'
       \/ \A d \in Calls \ {c} : Active(d) => d \notin clean'

\* What it does to c itself.
Minds(c) ==
    /\ pc'[c] # "idle" /\ (pc'[c] \in {"dir", "mkdir"} => at'[c] = 1)
    /\ \A f \in Files : (Writes(c, f) \/ files'[f] # files[f]) /\ files'[f] = "part"
                          => f \in spoiled' \/ \E d \in Calls : Writes(d, f)'
    /\ \/ at'[c] = at[c]
       \/ /\ at[c] \in DOMAIN Needs(c) /\ at'[c] = at[c] + 1
          /\ files'[File(c)] # "none" \/ File(c) \in spoiled'
    /\ c \in clean' /\ Active(c)' => \A d \in Calls \ {c} : ~Writing(d)
    /\ c \in Override \cap clean' /\ Active(c)' =>
         \A k \in DOMAIN Needs(c) :
            k < at'[c] => files'[Needs(c)[k]] = "full" \/ Writes(c, Needs(c)[k])'

\* Together they are all that the invariant asks of a step.
LEMMA StepKeeps ==
    ASSUME IInv, TypeOK', NEW c \in Calls, Spares(c), Minds(c)
    PROVE  IInv'
<1>i. BeginsAtFirst /\ PartIsExplained /\ PassedIsThere /\ CleanIsAlone /\ OverrideProgress
  BY DEF IInv
<1>1. ASSUME NEW d \in Calls, d # c
      PROVE  /\ pc'[d] = pc[d] /\ at'[d] = at[d] /\ Active(d)' = Active(d) /\ Writing(d)' = Writing(d)
             /\ \A f \in Files : Writes(d, f)' = Writes(d, f)
  BY <1>1 DEF Spares, Active, Writing, Writes, File, Needs
<1>2. BeginsAtFirst'
  BY <1>i, <1>1 DEF BeginsAtFirst, Spares, Minds
<1>3. PartIsExplained'
  <2> SUFFICES ASSUME NEW f \in Files, files'[f] = "part"
               PROVE  f \in spoiled' \/ \E d \in Calls : Writes(d, f)'
    BY DEF PartIsExplained
  <2>1. CASE Writes(c, f) \/ files'[f] # files[f]
    BY <2>1 DEF Minds
  <2>2. CASE ~Writes(c, f) /\ files'[f] = files[f]
    <3>1. f \in spoiled \/ \E d \in Calls : d # c /\ Writes(d, f)
      BY <1>i, <2>2 DEF PartIsExplained
    <3> QED BY <1>1, <3>1 DEF Spares
  <2> QED BY <2>1, <2>2
<1>4. PassedIsThere'
  <2> SUFFICES ASSUME restarts' = 0, NEW d \in Calls, NEW k \in DOMAIN Needs(d), k < at'[d]
               PROVE  files'[Needs(d)[k]] # "none" \/ Needs(d)[k] \in spoiled'
    BY DEF PassedIsThere, Needs
  <2>1. Needs(d)[k] \in Files
    BY NeedsType
  <2>2. CASE k < at[d]
    <3>1. files[Needs(d)[k]] # "none" \/ Needs(d)[k] \in spoiled
      BY <1>i, <2>2 DEF PassedIsThere, Spares
    <3> QED BY <2>1, <3>1 DEF Spares
  <2>3. CASE ~(k < at[d])
    <3>1. d = c
      BY <1>1, <2>3
    <3>2. at'[c] = at[c] + 1 /\ (files'[File(c)] # "none" \/ File(c) \in spoiled')
      BY <2>3, <3>1 DEF Minds
    <3>3. k = at[c]
      BY <2>3, <3>1, <3>2, NeedsType DEF IInv, TypeOK
    <3> QED BY <3>1, <3>2, <3>3 DEF File
  <2> QED BY <2>2, <2>3
<1>5. CleanIsAlone'
  <2> SUFFICES ASSUME NEW d \in clean', Active(d)', NEW e \in Calls \ {d}, Writing(e)'
               PROVE  FALSE
    BY DEF CleanIsAlone
  <2>1. d \in Calls
    BY DEF TypeOK
  <2>2. CASE d = c
    BY <1>1, <2>2 DEF Minds
  <2>3. CASE d # c
    <3>1. d \in clean /\ Active(d) /\ ~Writing(e)
      BY <1>i, <1>1, <2>1, <2>3 DEF Spares, CleanIsAlone
    <3>2. e = c
      BY <1>1, <3>1
    <3> QED BY <2>1, <2>3, <3>1, <3>2 DEF Spares
  <2> QED BY <2>2, <2>3
<1>6. OverrideProgress'
  <2> SUFFICES ASSUME NEW d \in Override \cap clean', Active(d)', NEW k \in DOMAIN Needs(d), k < at'[d]
               PROVE  files'[Needs(d)[k]] = "full" \/ Writes(d, Needs(d)[k])'
    BY DEF OverrideProgress, Needs
  <2>1. d \in Calls /\ Needs(d)[k] \in Files
    <3>1. d \in Calls
      BY DEF TypeOK
    <3> QED BY <3>1, NeedsType
  <2>2. CASE d = c
    BY <2>2 DEF Minds
  <2>3. CASE d # c
    <3>1. d \in clean /\ Active(d) /\ k < at[d]
      BY <1>1, <2>1, <2>3 DEF Spares
    <3>2. ~Writing(c)
      BY <1>i, <2>1, <2>3, <3>1 DEF CleanIsAlone
    <3>3. files' = files
      BY <2>1, <2>3, <3>1, <3>2 DEF Spares
    <3>4. files[Needs(d)[k]] = "full" \/ Writes(d, Needs(d)[k])
      BY <1>i, <3>1 DEF OverrideProgress
    <3> QED BY <1>1, <2>1, <2>3, <3>3, <3>4
  <2> QED BY <2>2, <2>3
<1> QED BY <1>2, <1>3, <1>4, <1>5, <1>6 DEF IInv

\* Steps that touch no file: the start, the directory and the return.
LEMMA QuietStep ==
    ASSUME IInv, NEW c \in Calls, Start(c) \/ CheckDir(c) \/ CreateDir(c) \/ Return(c)
    PROVE  Spares(c) /\ Minds(c)
<1>t. TypeOK /\ BeginsAtFirst /\ CleanIsAlone /\ OverrideProgress
  BY DEF IInv
<1>1. /\ UNCHANGED <<files, at, restarts, spoiled>>
      /\ clean' \subseteq clean \cup {c}
      /\ pc[c] \in {"idle", "dir", "mkdir", "check"}
  BY DEF Start, CheckDir, CreateDir, Return
<1>2. PICK p \in {"failed", "dir", "check", "mkdir", "done"} : pc' = [pc EXCEPT ![c] = p]
  BY DEF Start, CheckDir, CreateDir, Return, Goto
<1>3. /\ \A d \in Calls \ {c} : pc'[d] = pc[d] /\ at'[d] = at[d]
      /\ pc'[c] = p
      /\ pc[c] = "check" => p = "done"
  BY <1>t, <1>1, <1>2 DEF TypeOK, Start, CheckDir, CreateDir, Return, Goto
<1>4. Spares(c)
  BY <1>1, <1>3 DEF Spares, Writing
<1>5. \A f \in Files : ~Writes(c, f)
  BY <1>1 DEF Writes
<1>6. Active(c) \/ pc[c] = "idle"
  BY <1>1 DEF Active
<1>7. c \in clean' /\ Active(c)' => \A d \in Calls \ {c} : ~Writing(d)
  <2>1. CASE pc[c] = "idle"
    <3>1. Start(c)
      BY <2>1 DEF Start, CheckDir, CreateDir, Return
    <3>2. CASE \E d \in Calls : Writing(d)
      <4>1. pc[c] = "idle" /\ clean' = clean
        BY <3>1, <3>2 DEF Start
      <4> QED BY <1>t, <4>1 DEF BeginsAtFirst
    <3>3. CASE ~\E d \in Calls : Writing(d)
      BY <3>3
    <3> QED BY <3>2, <3>3
  <2>2. CASE Active(c) /\ pc[c] # "idle"
    <3>1. clean' = clean
      BY <2>2 DEF Start, CheckDir, CreateDir, Return
    <3> QED BY <1>t, <2>2, <3>1 DEF CleanIsAlone
  <2> QED BY <1>6, <2>1, <2>2
<1>8. pc'[c] # "idle" /\ (pc'[c] \in {"dir", "mkdir"} => at'[c] = 1)
  BY <1>2, <1>t, <1>1, <1>3 DEF BeginsAtFirst
<1>9. Active(c)' => at'[c] = 1
  BY <1>t, <1>1, <1>3 DEF BeginsAtFirst, Active
<1>10. Active(c)' => \A k \in DOMAIN Needs(c) : ~(k < at'[c])
  BY <1>9, NeedsType
<1> QED BY <1>1, <1>4, <1>5, <1>7, <1>8, <1>10 DEF Minds

\* The test for the file (CheckFileExists): an override never takes a file that
\* is there for a good one.
LEMMA CheckStep ==
    ASSUME IInv, NEW c \in Calls, CheckFile(c)
    PROVE  Spares(c) /\ Minds(c)
<1>t. TypeOK /\ BeginsAtFirst /\ CleanIsAlone /\ OverrideProgress
  BY DEF IInv
<1>1. /\ UNCHANGED <<files, restarts, spoiled, clean>> /\ pc[c] = "check"
      /\ at[c] \in DOMAIN Needs(c)
  BY <1>t, FileType DEF CheckFile
<1>2. \/ /\ at' = [at EXCEPT ![c] = @ + 1] /\ pc' = [pc EXCEPT ![c] = "check"]
         /\ c \notin Override /\ files[File(c)] # "none"
      \/ at' = at /\ pc' = [pc EXCEPT ![c] = "deploy"]
  BY DEF CheckFile, Advance, Goto
<1>3. /\ \A d \in Calls \ {c} : pc'[d] = pc[d] /\ at'[d] = at[d]
      /\ pc'[c] \in {"check", "deploy"}
      /\ \/ at'[c] = at[c]
         \/ at'[c] = at[c] + 1 /\ c \notin Override /\ files[File(c)] # "none"
  BY <1>t, <1>2 DEF TypeOK
<1>4. Spares(c)
  BY <1>1, <1>3 DEF Spares, Writing
<1>5. (\A f \in Files : ~Writes(c, f)) /\ Active(c)
  BY <1>1 DEF Writes, Active
<1>6. c \in clean' /\ Active(c)' => \A d \in Calls \ {c} : ~Writing(d)
  BY <1>t, <1>1, <1>5 DEF CleanIsAlone
<1>7. c \in Override \cap clean' /\ Active(c)' =>
        \A k \in DOMAIN Needs(c) :
            k < at'[c] => files'[Needs(c)[k]] = "full" \/ Writes(c, Needs(c)[k])'
  <2> SUFFICES ASSUME c \in Override \cap clean', NEW k \in DOMAIN Needs(c), k < at'[c]
               PROVE  files'[Needs(c)[k]] = "full"
    OBVIOUS
  <2>1. at'[c] = at[c] /\ c \in Override \cap clean
    BY <1>1, <1>3
  <2>2. Needs(c)[k] \in Files
    BY NeedsType
  <2> QED BY <1>t, <1>1, <1>5, <2>1, <2>2 DEF OverrideProgress
<1> QED BY <1>1, <1>3, <1>4, <1>5, <1>6, <1>7 DEF Minds

\* A command begins to write, or fails at once (DeployToPod).
LEMMA BeginStep ==
    ASSUME IInv, NEW c \in Calls, Begin(c)
    PROVE  Spares(c) /\ Minds(c)
<1>t. TypeOK /\ CleanIsAlone /\ OverrideProgress
  BY DEF IInv
<1>1. pc[c] = "deploy" /\ at[c] \in DOMAIN Needs(c) /\ File(c) \in Files /\ restarts' = restarts
  BY <1>t, FileType DEF Begin, TypeOK
<1>2. (\A f \in Files : ~Writes(c, f)) /\ Active(c) /\ ~Writing(c)
  BY <1>1 DEF Writes, Active, Writing
<1> DEFINE alone == clean' = clean \ {d \in Calls \ {c} : Active(d)}
           packed == Mode[c] = "download" /\ File(c) \in Packed
<1>3. /\ \A d \in Calls \ {c} : pc'[d] = pc[d] /\ at'[d] = at[d]
      /\ pc'[c] \in {"write", "check", "failed"}
      /\ spoiled \subseteq spoiled' /\ clean' \subseteq clean
  BY <1>t DEF TypeOK, Begin, Goto, Advance, Abort, Open, Interferes
<1>4. ASSUME Open(c)
      PROVE  alone /\ (files' = files \/ (files' = [files EXCEPT ![File(c)] = "part"] /\ ~packed))
  BY <1>4 DEF Open, Interferes
\* The four ways it goes: it writes, nothing is copied, an error page is stored,
\* or it fails.
<1>5. \/ pc'[c] = "write" /\ at'[c] = at[c] /\ Open(c)
      \/ /\ pc'[c] = "check" /\ at'[c] = at[c] + 1 /\ files' = files
         /\ File(c) \in spoiled' /\ c \notin clean'
      \/ pc'[c] = "failed" /\ at'[c] = at[c] /\ Open(c) /\ (packed \/ File(c) \in spoiled')
      \/ pc'[c] = "failed" /\ at'[c] = at[c] /\ files' = files
  BY <1>t DEF TypeOK, Begin, Goto, Advance, Abort
<1> HIDE DEF alone, packed
<1>6. files' # files => /\ files' = [files EXCEPT ![File(c)] = "part"] /\ alone /\ ~packed
                        /\ at'[c] = at[c] /\ (pc'[c] = "write" \/ File(c) \in spoiled')
  BY <1>4, <1>5
<1>7. Writing(c)' => alone
  BY <1>4, <1>5 DEF Writing
<1>8. ASSUME pc'[c] = "write", ~packed, NEW f, f = File(c)
      PROVE  Writes(c, f)'
  BY <1>5, <1>8 DEF Writes, File, Needs, packed
<1>9. \A f \in Files : f # File(c) => files'[f] = files[f]
  BY <1>t, <1>6 DEF TypeOK
<1>10. \A f \in Files : files[f] # "none" => files'[f] # "none"
  BY <1>1, <1>t, <1>6 DEF TypeOK
<1>11. Spares(c)
  BY <1>1, <1>3, <1>6, <1>7, <1>10 DEF Spares, alone
<1>12. ASSUME NEW f \in Files, Writes(c, f) \/ files'[f] # files[f]
       PROVE  f \in spoiled' \/ \E d \in Calls : Writes(d, f)'
  BY <1>2, <1>6, <1>8, <1>9, <1>12
<1>13. c \in clean' /\ Active(c)' => \A d \in Calls \ {c} : ~Writing(d)
  BY <1>t, <1>2, <1>3 DEF CleanIsAlone
<1>14. ASSUME c \in Override \cap clean', Active(c)', NEW k \in DOMAIN Needs(c), k < at'[c]
       PROVE  files'[Needs(c)[k]] = "full" \/ Writes(c, Needs(c)[k])'
  <2>1. pc'[c] = "write" /\ at'[c] = at[c] /\ c \in clean
    BY <1>3, <1>5, <1>14 DEF Active
  <2>2. Needs(c)[k] \in Files
    BY NeedsType
  <2>3. files[Needs(c)[k]] = "full"
    BY <1>t, <1>2, <1>14, <2>1, <2>2 DEF OverrideProgress
  <2>4. CASE files'[Needs(c)[k]] = files[Needs(c)[k]]
    BY <2>3, <2>4
  <2>5. CASE files'[Needs(c)[k]] # files[Needs(c)[k]]
    BY <1>6, <1>8, <1>9, <2>1, <2>2, <2>5
  <2> QED BY <2>4, <2>5
<1>15. pc'[c] # "idle" /\ (pc'[c] \in {"dir", "mkdir"} => at'[c] = 1)
  BY <1>3
<1>16. \/ at'[c] = at[c]
       \/ /\ at[c] \in DOMAIN Needs(c) /\ at'[c] = at[c] + 1
          /\ files'[File(c)] # "none" \/ File(c) \in spoiled'
  BY <1>1, <1>5
<1>17. \A f \in Files : (Writes(c, f) \/ files'[f] # files[f]) /\ files'[f] = "part"
                            => f \in spoiled' \/ \E d \in Calls : Writes(d, f)'
  BY <1>12
<1>18. c \in Override \cap clean' /\ Active(c)' =>
         \A k \in DOMAIN Needs(c) :
            k < at'[c] => files'[Needs(c)[k]] = "full" \/ Writes(c, Needs(c)[k])'
  BY <1>14
<1> QED BY <1>11, <1>13, <1>15, <1>16, <1>17, <1>18 DEF Minds

\* What a finished write leaves incomplete another one is writing (Finished).
LEMMA FinishedPart ==
    ASSUME NEW c \in Calls, NEW f, NEW x \in Finished(c, f)
    PROVE  /\ x \in {"part", "full"}
           /\ x = "part" => \E d \in Calls \ {c} : Writes(d, f)
  BY DEF Finished

\* A command that writes the file itself ends, or breaks off; the second half
\* of a download of an archive does the same.
LEMMA EndStep ==
    ASSUME IInv, NEW c \in Calls,
           \/ Write(c) /\ ~(Mode[c] = "download" /\ File(c) \in Packed)
           \/ UnpackEnd(c)
    PROVE  Spares(c) /\ Minds(c)
<1>t. TypeOK /\ CleanIsAlone /\ OverrideProgress
  BY DEF IInv
<1>1. /\ pc[c] \in {"write", "unpacking"} /\ at[c] \in DOMAIN Needs(c) /\ File(c) \in Files
      /\ restarts' = restarts
  BY <1>t, FileType DEF Write, UnpackEnd, TypeOK
<1>2. Active(c) /\ Writing(c) /\ \A f \in Files : Writes(c, f) => f = File(c)
  BY <1>1 DEF Writes, Active, Writing
\* It ends, with or without success; or it breaks off, noticed or not.
<1>3. \/ /\ \E x \in Finished(c, File(c)) : files' = [files EXCEPT ![File(c)] = x]
         /\ Advance(c) \/ Abort(c)
         /\ UNCHANGED <<spoiled, clean>>
      \/ /\ files' = files /\ spoiled' = spoiled \cup {File(c)}
         /\ \/ Abort(c) /\ UNCHANGED clean
            \/ Advance(c) /\ clean' = clean \ {c}
  BY DEF Write, UnpackEnd
<1>4. /\ \A d \in Calls \ {c} : pc'[d] = pc[d] /\ at'[d] = at[d]
      /\ \/ Advance(c) /\ pc'[c] = "check" /\ at'[c] = at[c] + 1
         \/ Abort(c) /\ pc'[c] = "failed" /\ at'[c] = at[c]
      /\ spoiled \subseteq spoiled' /\ clean' \subseteq clean
  BY <1>t, <1>3 DEF TypeOK, Goto, Advance, Abort
<1>5. \A f \in Files : f # File(c) => files'[f] = files[f]
  BY <1>t, <1>3 DEF TypeOK
<1>6. \/ /\ files'[File(c)] \in {"part", "full"}
         /\ files'[File(c)] = "part" => \E d \in Calls \ {c} : Writes(d, File(c))
      \/ files' = files /\ File(c) \in spoiled' /\ (c \in clean' => pc'[c] = "failed")
  <2>1. CASE \E x \in Finished(c, File(c)) : files' = [files EXCEPT ![File(c)] = x]
    <3> PICK x \in Finished(c, File(c)) : files' = [files EXCEPT ![File(c)] = x]
      BY <2>1
    <3>1. files'[File(c)] = x
      BY <1>1, <1>t DEF TypeOK
    <3> QED BY <3>1, FinishedPart
  <2>2. CASE files' = files /\ spoiled' = spoiled \cup {File(c)} /\ (Advance(c) => clean' = clean \ {c})
    BY <1>4, <2>2
  <2>3. CASE files' = files /\ spoiled' = spoiled \cup {File(c)} /\ Abort(c)
    BY <1>t, <2>3 DEF Abort, Goto, TypeOK
  <2> QED BY <1>3, <2>1, <2>2, <2>3
<1>7. \A f \in Files : files[f] # "none" => files'[f] # "none"
  BY <1>5, <1>6
<1>8. Spares(c)
  BY <1>1, <1>2, <1>4, <1>7 DEF Spares
<1>9. \A f \in Files : (Writes(c, f) \/ files'[f] # files[f]) /\ files'[f] = "part"
                           => f \in spoiled' \/ \E d \in Calls : Writes(d, f)'
  <2> SUFFICES ASSUME NEW f \in Files, Writes(c, f) \/ files'[f] # files[f], files'[f] = "part", f \notin spoiled'
               PROVE  \E d \in Calls : Writes(d, f)'
    OBVIOUS
  <2>1. f = File(c)
    BY <1>2, <1>5
  <2>2. PICK d \in Calls \ {c} : Writes(d, f)
    BY <1>6, <2>1
  <2>3. Writes(d, f)'
    BY <1>4, <2>2 DEF Writes, File, Needs
  <2> QED BY <2>3
<1>10. c \in clean' /\ Active(c)' => \A d \in Calls \ {c} : ~Writing(d)
  BY <1>t, <1>2, <1>4 DEF CleanIsAlone
<1>11. ASSUME c \in Override \cap clean', Active(c)', NEW k \in DOMAIN Needs(c), k < at'[c]
       PROVE  files'[Needs(c)[k]] = "full"
  <2>1. pc'[c] = "check" /\ at'[c] = at[c] + 1 /\ c \in clean
    BY <1>4, <1>11 DEF Active
  <2>2. files'[File(c)] = "full"
    <3>1. ~(\E d \in Calls \ {c} : Writes(d, File(c)))
      BY <1>10, <1>11 DEF Writes, Writing
    <3> QED BY <1>6, <1>11, <2>1, <3>1
  <2>3. Needs(c)[k] \in Files
    BY NeedsType
  <2>4. CASE Needs(c)[k] = File(c)
    BY <2>2, <2>4
  <2>5. CASE Needs(c)[k] # File(c)
    <3>1. k # at[c] /\ k \in Nat /\ at[c] \in Nat
      BY <1>t, <2>5, NeedsType DEF File, TypeOK
    <3>2. k < at[c]
      BY <1>11, <2>1, <3>1
    <3>3. files[Needs(c)[k]] = "full"
      BY <1>t, <1>2, <1>11, <2>1, <2>3, <2>5, <3>2 DEF OverrideProgress
    <3> QED BY <1>5, <2>3, <2>5, <3>3
  <2> QED BY <2>4, <2>5
<1>12. c \in Override \cap clean' /\ Active(c)' =>
         \A k \in DOMAIN Needs(c) :
            k < at'[c] => files'[Needs(c)[k]] = "full" \/ Writes(c, Needs(c)[k])'
  BY <1>11
<1>13. pc'[c] # "idle" /\ (pc'[c] \in {"dir", "mkdir"} => at'[c] = 1)
  BY <1>4
<1>14. \/ at'[c] = at[c]
       \/ /\ at[c] \in DOMAIN Needs(c) /\ at'[c] = at[c] + 1
          /\ files'[File(c)] # "none" \/ File(c) \in spoiled'
  BY <1>1, <1>4, <1>6
<1> QED BY <1>8, <1>9, <1>10, <1>12, <1>13, <1>14 DEF Minds

\* An archive is complete, or its download has failed: the file of that name is
\* as it was.
LEMMA ArchiveStep ==
    ASSUME IInv, NEW c \in Calls, Write(c), Mode[c] = "download", File(c) \in Packed
    PROVE  Spares(c) /\ Minds(c)
<1>t. TypeOK /\ CleanIsAlone /\ OverrideProgress
  BY DEF IInv
<1>1. /\ pc[c] = "write" /\ UNCHANGED <<files, spoiled, clean, restarts>>
      /\ (Goto(c, "unpack") /\ UNCHANGED at) \/ Abort(c)
  BY DEF Write
<1>2. /\ \A d \in Calls \ {c} : pc'[d] = pc[d] /\ at'[d] = at[d]
      /\ pc'[c] \in {"unpack", "failed"} /\ at'[c] = at[c]
  BY <1>t, <1>1 DEF TypeOK, Goto, Abort
<1>3. (\A f \in Files : ~Writes(c, f)) /\ Active(c) /\ Writing(c)
  BY <1>1 DEF Writes, Active, Writing
<1>4. Spares(c)
  BY <1>1, <1>2, <1>3 DEF Spares
<1>5. c \in clean' /\ Active(c)' => \A d \in Calls \ {c} : ~Writing(d)
  BY <1>t, <1>1, <1>3 DEF CleanIsAlone
<1>6. c \in Override \cap clean' /\ Active(c)' =>
         \A k \in DOMAIN Needs(c) :
            k < at'[c] => files'[Needs(c)[k]] = "full" \/ Writes(c, Needs(c)[k])'
  <2> SUFFICES ASSUME c \in Override \cap clean', NEW k \in DOMAIN Needs(c), k < at'[c]
               PROVE  files'[Needs(c)[k]] = "full"
    OBVIOUS
  <2>1. Needs(c)[k] \in Files
    BY NeedsType
  <2> QED BY <1>t, <1>1, <1>2, <1>3, <2>1 DEF OverrideProgress
<1> QED BY <1>1, <1>2, <1>3, <1>4, <1>5, <1>6 DEF Minds

\* The archive is unpacked, as it is by now, or cannot be (uncompress).
LEMMA UnpackStep ==
    ASSUME IInv, NEW c \in Calls, UnpackBegin(c)
    PROVE  Spares(c) /\ Minds(c)
<1> DEFINE alone == clean' = clean \ {d \in Calls \ {c} : Active(d)}
<1>t. TypeOK /\ CleanIsAlone /\ OverrideProgress
  BY DEF IInv
<1>1. pc[c] = "unpack" /\ at[c] \in DOMAIN Needs(c) /\ File(c) \in Files /\ restarts' = restarts
  BY <1>t, FileType DEF UnpackBegin, TypeOK
<1>2. (\A f \in Files : ~Writes(c, f)) /\ Active(c)
  BY <1>1 DEF Writes, Active
<1>3. alone /\ spoiled \subseteq spoiled'
  BY DEF UnpackBegin, Interferes
<1>4. \/ /\ files' = [files EXCEPT ![File(c)] = "part"]
         /\ Goto(c, "unpacking") /\ UNCHANGED at
      \/ /\ files' = files \/ (files' = [files EXCEPT ![File(c)] = "part"] /\ File(c) \in spoiled')
         /\ Abort(c)
  BY DEF UnpackBegin
<1> HIDE DEF alone
<1>5. /\ \A d \in Calls \ {c} : pc'[d] = pc[d] /\ at'[d] = at[d]
      /\ pc'[c] \in {"unpacking", "failed"} /\ at'[c] = at[c]
      /\ \A f \in Files : f # File(c) => files'[f] = files[f]
      /\ files'[File(c)] # files[File(c)] => files'[File(c)] = "part"
      /\ files'[File(c)] # files[File(c)] => pc'[c] = "unpacking" \/ File(c) \in spoiled'
  BY <1>t, <1>1, <1>4 DEF TypeOK, Goto, Abort
<1>6. ASSUME pc'[c] = "unpacking", NEW f, f = File(c)
      PROVE  Writes(c, f)'
  BY <1>5, <1>6 DEF Writes, File, Needs
<1>7. \A f \in Files : files[f] # "none" => files'[f] # "none"
  BY <1>5
<1>8. Spares(c)
  BY <1>1, <1>3, <1>5, <1>7 DEF Spares, alone
<1>9. \A f \in Files : (Writes(c, f) \/ files'[f] # files[f]) /\ files'[f] = "part"
                           => f \in spoiled' \/ \E d \in Calls : Writes(d, f)'
  BY <1>2, <1>5, <1>6
<1>10. c \in clean' /\ Active(c)' => \A d \in Calls \ {c} : ~Writing(d)
  BY <1>t, <1>2, <1>3 DEF CleanIsAlone, alone
<1>11. c \in Override \cap clean' /\ Active(c)' =>
         \A k \in DOMAIN Needs(c) :
            k < at'[c] => files'[Needs(c)[k]] = "full" \/ Writes(c, Needs(c)[k])'
  <2> SUFFICES ASSUME c \in Override \cap clean', Active(c)', NEW k \in DOMAIN Needs(c), k < at'[c]
               PROVE  files'[Needs(c)[k]] = "full" \/ Writes(c, Needs(c)[k])'
    OBVIOUS
  <2>1. Needs(c)[k] \in Files /\ pc'[c] = "unpacking" /\ c \in clean
    BY <1>3, <1>5, NeedsType DEF Active, alone
  <2>2. files[Needs(c)[k]] = "full"
    BY <1>t, <1>2, <1>5, <2>1 DEF OverrideProgress
  <2>3. CASE Needs(c)[k] = File(c)
    BY <1>6, <2>1, <2>3
  <2>4. CASE Needs(c)[k] # File(c)
    BY <1>5, <2>1, <2>2, <2>4
  <2> QED BY <2>3, <2>4
<1>12. pc'[c] # "idle" /\ (pc'[c] \in {"dir", "mkdir"} => at'[c] = 1)
  BY <1>5
<1> QED BY <1>5, <1>8, <1>9, <1>10, <1>11, <1>12 DEF Minds

\* A restart takes the files, and the writers with them.
LEMMA RestartStep ==
    ASSUME IInv, TypeOK', ContainerRestart
    PROVE  IInv'
<1>t. TypeOK /\ BeginsAtFirst
  BY DEF IInv
<1>1. /\ files' = [f \in Files |-> "none"] /\ at' = at
      /\ pc' = [c \in Calls |-> IF Writing(c) THEN "failed" ELSE pc[c]]
      /\ clean' = clean \ {c \in Calls : Active(c)} /\ restarts' # 0
  BY <1>t DEF ContainerRestart, TypeOK
<1>2. PartIsExplained'
  BY <1>1 DEF PartIsExplained
<1>3. PassedIsThere'
  BY <1>1 DEF PassedIsThere
<1>4. \A c \in Calls : Active(c)' => Active(c)
  BY <1>1 DEF Active
<1>5. \A c \in clean' : c \in Calls /\ ~Active(c)'
  BY <1>t, <1>1, <1>4 DEF TypeOK
<1>6. BeginsAtFirst'
  BY <1>t, <1>1 DEF BeginsAtFirst
<1> QED BY <1>2, <1>3, <1>5, <1>6 DEF IInv, CleanIsAlone, OverrideProgress

LEMMA InductiveStep == IInv /\ [Next]_vars => IInv'
<1> SUFFICES ASSUME IInv, [Next]_vars PROVE IInv'
  OBVIOUS
<1>t. TypeOK'
  BY TypeStep DEF IInv
<1>1. CASE UNCHANGED vars
  <2>1. BeginsAtFirst' /\ PassedIsThere'
    BY <1>1 DEF IInv, BeginsAtFirst, PassedIsThere, Needs, vars
  <2>2. \A c \in Calls : /\ Active(c)' = Active(c) /\ Writing(c)' = Writing(c)
                         /\ \A f : Writes(c, f)' = Writes(c, f)
    BY <1>1 DEF Active, Writing, Writes, File, Needs, vars
  <2>3. PartIsExplained'
    BY <1>1, <2>2 DEF IInv, PartIsExplained, vars
  <2>4. CleanIsAlone'
    BY <1>1, <2>2 DEF IInv, TypeOK, CleanIsAlone, vars
  <2>5. OverrideProgress'
    <3> SUFFICES ASSUME NEW c \in Override \cap clean, Active(c), NEW k \in DOMAIN Needs(c), k < at[c]
                 PROVE  files[Needs(c)[k]] = "full" \/ Writes(c, Needs(c)[k])'
      BY <1>1, <2>2 DEF IInv, TypeOK, OverrideProgress, Needs, vars
    <3> QED BY <2>2 DEF IInv, TypeOK, OverrideProgress
  <2> QED BY <1>t, <2>1, <2>3, <2>4, <2>5 DEF IInv
<1>2. CASE ContainerRestart
  BY <1>t, <1>2, RestartStep
<1>3. ASSUME NEW c \in Calls, Deploy(c)
      PROVE  IInv'
  <2>1. Spares(c) /\ Minds(c)
    BY <1>3, QuietStep, CheckStep, BeginStep, EndStep, ArchiveStep, UnpackStep DEF Deploy
  <2> QED BY <1>t, <2>1, StepKeeps
<1> QED BY <1>1, <1>2, <1>3 DEF Next

LEMMA InitialState == Init => IInv
<1> SUFFICES ASSUME Init PROVE IInv
  OBVIOUS
<1>1. TypeOK
  <2>1. 0 \in 0 .. MaxRestarts /\ 1 \in Nat \ {0}
    BY LimitsAssumption
  <2> QED BY <2>1 DEF Init, TypeOK, Contents
<1>2. BeginsAtFirst /\ PartIsExplained /\ CleanIsAlone /\ OverrideProgress
  BY DEF Init, BeginsAtFirst, PartIsExplained, CleanIsAlone, OverrideProgress
<1>3. PassedIsThere
  <2>1. \A c \in Calls : at[c] = 1
    BY DEF Init
  <2>2. \A c \in Calls : \A k \in DOMAIN Needs(c) : ~(k < 1)
    BY NeedsType
  <2> QED BY <2>1, <2>2 DEF PassedIsThere
<1> QED BY <1>1, <1>2, <1>3 DEF IInv

LEMMA Invariance == Spec => []IInv
  BY InitialState, InductiveStep, PTL DEF Spec

-----------------------------------------------------------------------------
(***************************************************************************)
(* The theorems.                                                           *)
(***************************************************************************)

\* Type correctness; no call works on a file past the last it needs (the loop of
\* deployChaosBlade).
THEOREM TypeCorrect == Spec => []TypeOK
<1>1. IInv => TypeOK
  BY DEF IInv
<1> QED BY <1>1, Invariance, PTL

\* A call is done when it was looking for another file and there was none.
LEMMA DoneStep ==
    ASSUME IInv, [Next]_vars, NEW c \in Calls, pc[c] # "done", pc'[c] = "done"
    PROVE  /\ pc[c] = "check" /\ files' = files
           /\ \A k \in DOMAIN Needs(c) : k < at[c]
<1>t. pc \in [Calls -> {"idle", "dir", "mkdir", "check", "deploy", "write", "unpack", "unpacking", "done", "failed"}]
  BY DEF IInv, TypeOK
<1>1. ASSUME ContainerRestart \/ UNCHANGED vars
      PROVE  FALSE
  BY <1>t, <1>1 DEF ContainerRestart, vars
<1>2. ASSUME NEW d \in Calls, Deploy(d)
      PROVE  c = d /\ Return(c)
  <2>1. CASE Return(d)
    BY <1>t, <2>1 DEF Return, Goto
  <2>2. CASE Start(d) \/ CheckDir(d) \/ CreateDir(d) \/ CheckFile(d)
    BY <1>t, <2>2 DEF Start, CheckDir, CreateDir, CheckFile, Advance, Goto
  <2>3. CASE Begin(d) \/ Write(d) \/ UnpackBegin(d) \/ UnpackEnd(d)
    BY <1>t, <2>3 DEF Begin, Write, UnpackBegin, UnpackEnd, Advance, Abort, Goto
  <2> QED BY <1>2, <2>1, <2>2, <2>3 DEF Deploy
<1>3. Return(c)
  BY <1>1, <1>2 DEF Next
<1>4. at[c] \in Nat /\ at[c] > Len(Needs(c)) /\ Len(Needs(c)) \in Nat /\ DOMAIN Needs(c) = 1 .. Len(Needs(c))
  BY <1>3, NeedsType DEF Return, IInv, TypeOK
<1> QED BY <1>3, <1>4 DEF Return

\* A call that has found or deployed all its files has them complete, unless a
\* deployment has spoiled them or is still writing them (deployChaosBlade).
THEOREM DeployedIsComplete == Spec => CompleteUnlessSpoiled
<1> DEFINE A == \A c \in Calls : pc[c] # "done" /\ pc'[c] = "done" /\ restarts = 0
                  => \A k \in DOMAIN Needs(c) :
                        LET f == Needs(c)[k]
                        IN  files[f] = "full" \/ f \in spoiled \/ \E d \in Calls : Writes(d, f)
<1>1. IInv /\ [Next]_vars => A
  <2> SUFFICES ASSUME IInv, [Next]_vars, NEW c \in Calls, pc[c] # "done", pc'[c] = "done", restarts = 0,
                      NEW k \in DOMAIN Needs(c), files[Needs(c)[k]] # "full", Needs(c)[k] \notin spoiled
               PROVE  \E d \in Calls : Writes(d, Needs(c)[k])
    OBVIOUS
  <2>1. Needs(c)[k] \in Files /\ k < at[c]
    BY NeedsType, DoneStep
  <2>2. files[Needs(c)[k]] # "none"
    BY <2>1 DEF IInv, PassedIsThere
  <2>3. files[Needs(c)[k]] = "part"
    BY <2>1, <2>2 DEF IInv, TypeOK, Contents
  <2> QED BY <2>1, <2>3 DEF IInv, PartIsExplained
<1> QED BY <1>1, Invariance, PTL DEF Spec, CompleteUnlessSpoiled

\* An override that was alone and met no swallowed failure leaves every file
\* complete, whatever was there before (deployChaosBlade, DeployToPod).
THEOREM OverrideCompletes == Spec => OverrideRepairs
<1> DEFINE A == \A c \in Override : pc[c] # "done" /\ pc'[c] = "done" /\ c \in clean
                  => \A k \in DOMAIN Needs(c) : files[Needs(c)[k]] = "full"
<1>1. IInv /\ [Next]_vars => A
  <2> SUFFICES ASSUME IInv, [Next]_vars, NEW c \in Override, pc[c] # "done", pc'[c] = "done", c \in clean,
                      NEW k \in DOMAIN Needs(c)
               PROVE  files[Needs(c)[k]] = "full"
    OBVIOUS
  <2>1. c \in Calls
    BY DEF IInv, TypeOK
  <2>2. pc[c] = "check" /\ k < at[c]
    BY <2>1, DoneStep
  <2>3. Active(c) /\ ~Writes(c, Needs(c)[k])
    BY <2>2 DEF Active, Writes
  <2> QED BY <2>2, <2>3 DEF IInv, OverrideProgress
<1> QED BY <1>1, Invariance, PTL DEF Spec, OverrideRepairs

=============================================================================
