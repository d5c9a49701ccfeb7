--------------------------- MODULE RunStoreProofs ---------------------------
(***************************************************************************)
(* What concurrent saves, rotations and crashes cannot do to the store,    *)
(* for any number of processes, seconds, suffixes and settings; and what a *)
(* listing that a reader makes beside them says of an artifact.            *)
(***************************************************************************)
EXTENDS RunReader, FiniteSetTheorems, TLAPS

USE DEF At, Goto, Logs, fixed, dirVars, historyVars

(* The name a process saves under is a name. *)
LEMMA NameOfType ==
    ASSUME TypeOK, NEW s \in Savers
    PROVE  /\ NameOf(s) \in Names
           /\ NameOf(s).sec = second[s]
           /\ [name |-> NameOf(s), by |-> s] \in Line
BY DEF TypeOK, NameOf, Names, Line

(* Type correctness. *)
THEOREM TypeCorrect == Spec => []TypeOK
<1>1. Init => TypeOK
  BY SettingsAssumption DEF Init, TypeOK, Suffixes, Names, Line
<1>2. TypeOK /\ [Next]_vars => TypeOK'
  <2> SUFFICES ASSUME TypeOK, [Next]_vars PROVE TypeOK'
    OBVIOUS
  <2>1. ASSUME NEW s \in Savers, NEW p \in {"failed", "crashed"}, Leave(s, p),
               UNCHANGED <<fixed, dirVars, historyVars>>
        PROVE  TypeOK'
    BY <2>1 DEF TypeOK, Leave, Suffixes
  <2>2. ASSUME NEW s \in Savers, BeginSave(s) PROVE TypeOK'
    BY <2>2 DEF TypeOK, BeginSave
  <2>3. ASSUME NEW s \in Savers, StatName(s) PROVE TypeOK'
    <3>1. file[NameOf(s)] # None => NextSuffix(suffix[s]) \in Suffixes
      BY <2>3, SuffixAssumption DEF StatName, TypeOK, NextSuffix, Suffixes
    <3> QED
      BY <2>3, <3>1 DEF TypeOK, StatName
  <2>4. ASSUME NEW s \in Savers, TooManyNamed(s) \/ FailEarly(s) \/ WriteFails(s) \/ Crash(s)
        PROVE  TypeOK'
    BY <2>1, <2>4 DEF TooManyNamed, FailEarly, WriteFails, Crash
  <2>5. ASSUME NEW s \in Savers, OpenTmp(s) PROVE TypeOK'
    BY <2>5, NameOfType DEF TypeOK, OpenTmp
  <2>6. ASSUME NEW s \in Savers, WriteTmp(s) PROVE TypeOK'
    <3>1. content' \in [Savers -> SUBSET Savers]
      <4>1. CASE inode[s] = None
        <5>1. PICK bytes : content' = [content EXCEPT ![None] = bytes]
          BY <2>6, <4>1 DEF WriteTmp
        <5> QED
          BY <5>1, NoneAssumption DEF TypeOK
      <4>2. CASE inode[s] # None
        <5>1. PICK bytes \in {{s}, content[inode[s]] \cup {s}} :
                content' = [content EXCEPT ![inode[s]] = bytes]
          BY <2>6 DEF WriteTmp
        <5>2. inode[s] \in Savers /\ bytes \subseteq Savers
          BY <4>2, <5>1 DEF TypeOK
        <5> QED
          BY <5>1, <5>2 DEF TypeOK
      <4> QED
        BY <4>1, <4>2
    <3> QED
      BY <2>6, <3>1 DEF TypeOK, WriteTmp
  <2>7. ASSUME NEW s \in Savers, RenameTmp(s) PROVE TypeOK'
    BY <2>7, NameOfType DEF TypeOK, RenameTmp
  <2>8. ASSUME NEW s \in Savers, RenameFails(s) PROVE TypeOK'
    BY <2>8, NameOfType DEF TypeOK, RenameFails, Leave, Suffixes
  <2>9. ASSUME NEW s \in Savers, AppendIndex(s) PROVE TypeOK'
    BY <2>9, NameOfType DEF TypeOK, AppendIndex, AfterIndex
  <2>10. ASSUME NEW s \in Savers, ListDir(s) PROVE TypeOK'
    BY <2>10 DEF TypeOK, ListDir, Oldest, Visible
  <2>11. ASSUME NEW s \in Savers, RemoveOne(s) PROVE TypeOK'
    BY <2>11 DEF TypeOK, RemoveOne
  <2>12. ASSUME NEW s \in Savers, PruneRead(s) PROVE TypeOK'
    BY <2>12 DEF TypeOK, PruneRead
  <2>17. ASSUME NEW s \in Savers, PruneReadFails(s) PROVE TypeOK'
    <3>1. unpruned' \in BOOLEAN
      BY <2>17 DEF PruneReadFails
    <3> QED
      BY <2>17, <3>1 DEF TypeOK, PruneReadFails
  <2>13. ASSUME NEW s \in Savers, PruneWrite(s) PROVE TypeOK'
    BY <2>13 DEF TypeOK, PruneWrite
  <2>14. ASSUME NEW s \in Savers, PruneRename(s) PROVE TypeOK'
    BY <2>14 DEF TypeOK, PruneRename
  <2>15. ASSUME NEW s \in Savers, MaintenanceFails(s) PROVE TypeOK'
    BY <2>15 DEF TypeOK, MaintenanceFails
  <2>16. CASE UNCHANGED vars
    BY <2>16 DEF TypeOK, vars, procVars
  <2> QED
    BY <2>2, <2>3, <2>4, <2>5, <2>6, <2>7, <2>8, <2>9, <2>10, <2>11, <2>12, <2>13, <2>14,
       <2>15, <2>16, <2>17 DEF Next, SaveStep, Idles
<1> QED
  BY <1>1, <1>2, PTL DEF Spec

-----------------------------------------------------------------------------
(* The newest names survive. *)

(* Enough newer names than n were published for a rotation to remove it. *)
Outnumbered(n) == maxRuns > 0 /\ Cardinality(NewerIn(n, PublishedNames)) >= maxRuns

(* What stale listings and overlapping rotations can at worst do: whatever *)
(* is gone, or about to go, has been outnumbered, and stays so because     *)
(* names are only ever added to the published ones.                        *)
RotationExplained ==
    /\ IsFiniteSet(PublishedNames)
    /\ Visible \subseteq PublishedNames
    /\ \A s \in Savers : At(s, "list") => maxRuns > 0
    /\ \A n \in PublishedNames \ Visible : Outnumbered(n)
    /\ \A s \in Savers : \A n \in pending[s] : Outnumbered(n)

(* A name that has been outnumbered stays so when another is published. *)
LEMMA OutnumberedStays ==
    ASSUME TypeOK, IsFiniteSet(PublishedNames'), maxRuns' = maxRuns,
           PublishedNames \subseteq PublishedNames',
           NEW n, Outnumbered(n)
    PROVE  Outnumbered(n)'
<1>1. NewerIn(n, PublishedNames) \subseteq NewerIn(n, PublishedNames')
  BY DEF NewerIn
<1>2. IsFiniteSet(NewerIn(n, PublishedNames'))
  BY FS_Subset DEF NewerIn
<1>3. /\ Cardinality(NewerIn(n, PublishedNames)) <= Cardinality(NewerIn(n, PublishedNames'))
      /\ Cardinality(NewerIn(n, PublishedNames)) \in Nat
      /\ Cardinality(NewerIn(n, PublishedNames')) \in Nat
  BY <1>1, <1>2, FS_Subset, FS_CardinalityType
<1>4. maxRuns \in Nat
  BY SettingsAssumption DEF TypeOK
<1> QED
  BY <1>3, <1>4 DEF Outnumbered, NewerIn

(* A step keeps the explanation. *)
LEMMA RotationInductive ==
    ASSUME TypeOK, RotationExplained, [Next]_vars
    PROVE  RotationExplained'
<1> USE DEF RotationExplained
<1>1. ASSUME UNCHANGED <<published, file, maxRuns>>,
             \A s \in Savers : pending'[s] \subseteq pending[s],
             \A s \in Savers : pc'[s] = "list" => pc[s] = "list"
      PROVE  RotationExplained'
  BY <1>1 DEF PublishedNames, Visible, Outnumbered, NewerIn
<1>2. ASSUME NEW s \in Savers, RenameTmp(s) PROVE RotationExplained'
  <2>1. PublishedNames' = PublishedNames \cup {NameOf(s)}
    <3> DEFINE line == [name |-> NameOf(s), by |-> s]
    <3>1. published' = published \cup {line} /\ line.name = NameOf(s)
      BY <1>2 DEF RenameTmp
    <3> HIDE DEF line
    <3> QED
      BY <3>1 DEF PublishedNames
  <2>2. IsFiniteSet(PublishedNames')
    BY <2>1, FS_AddElement
  <2>3. Visible' = Visible \cup {NameOf(s)}
    BY <1>2, NameOfType DEF RenameTmp, Visible, TypeOK
  <2>4. maxRuns' = maxRuns /\ pending' = pending
    BY <1>2 DEF RenameTmp
  <2>5. \A n : Outnumbered(n) => Outnumbered(n)'
    BY <2>1, <2>2, <2>4, OutnumberedStays
  <2>6. \A t \in Savers : At(t, "list")' => maxRuns' > 0
    BY <1>2, <2>4 DEF RenameTmp, TypeOK
  <2>7. \A n \in PublishedNames' \ Visible' : Outnumbered(n)'
    BY <2>1, <2>3, <2>5
  <2>8. \A t \in Savers : \A n \in pending'[t] : Outnumbered(n)'
    BY <2>4, <2>5
  <2> QED
    BY <2>1, <2>2, <2>3, <2>6, <2>7, <2>8
<1>3. ASSUME NEW s \in Savers, ListDir(s) PROVE RotationExplained'
  <2>1. maxRuns \in Nat /\ maxRuns > 0
    BY <1>3, SettingsAssumption DEF ListDir, TypeOK
  <2>2. ASSUME NEW n \in Oldest(Visible) PROVE Outnumbered(n)
    <3>1. NewerIn(n, Visible) \subseteq NewerIn(n, PublishedNames)
      BY DEF NewerIn
    <3>2. IsFiniteSet(NewerIn(n, PublishedNames))
      BY FS_Subset DEF NewerIn
    <3>3. /\ Cardinality(NewerIn(n, Visible)) <= Cardinality(NewerIn(n, PublishedNames))
          /\ Cardinality(NewerIn(n, Visible)) \in Nat
          /\ Cardinality(NewerIn(n, PublishedNames)) \in Nat
      BY <3>1, <3>2, FS_Subset, FS_CardinalityType
    <3>4. Cardinality(NewerIn(n, Visible)) >= maxRuns
      BY <2>2 DEF Oldest
    <3> QED
      BY <2>1, <3>3, <3>4 DEF Outnumbered
  <2>3. UNCHANGED <<published, file, maxRuns>>
    BY <1>3 DEF ListDir
  <2>4. \A n : Outnumbered(n)' <=> Outnumbered(n)
    BY <2>3 DEF Outnumbered, PublishedNames, NewerIn
  <2>5. \A t \in Savers : \A n \in pending'[t] : Outnumbered(n)'
    BY <1>3, <2>2, <2>4 DEF ListDir, TypeOK
  <2>6. \A t \in Savers : At(t, "list")' => maxRuns' > 0
    BY <1>3, <2>1, <2>3 DEF ListDir, TypeOK
  <2> QED
    BY <2>3, <2>4, <2>5, <2>6 DEF PublishedNames, Visible
<1>4. ASSUME NEW s \in Savers, RemoveOne(s) PROVE RotationExplained'
  <2>1. PICK n \in pending[s] :
          /\ pending' = [pending EXCEPT ![s] = @ \ {n}]
          /\ file' = [file EXCEPT ![n] = None] \/ file' = file
    BY <1>4 DEF RemoveOne
  <2>2. UNCHANGED <<published, maxRuns, pc>>
    BY <1>4 DEF RemoveOne
  <2>3. \A m : Outnumbered(m)' <=> Outnumbered(m)
    BY <2>2 DEF Outnumbered, PublishedNames, NewerIn
  <2>4. Visible' \subseteq Visible /\ Visible \subseteq Visible' \cup {n}
    BY <2>1 DEF Visible, TypeOK
  <2>5. Outnumbered(n)
    BY <2>1
  <2>6. \A m \in PublishedNames' \ Visible' : Outnumbered(m)'
    BY <2>2, <2>3, <2>4, <2>5 DEF PublishedNames
  <2>7. \A t \in Savers : \A m \in pending'[t] : Outnumbered(m)'
    BY <2>1, <2>3 DEF TypeOK
  <2> QED
    BY <2>2, <2>4, <2>6, <2>7 DEF PublishedNames
<1>5. ASSUME NEW s \in Savers, AppendIndex(s) PROVE RotationExplained'
  <2>1. maxRuns \in Nat
    BY SettingsAssumption DEF TypeOK
  <2>2. UNCHANGED <<published, file, maxRuns, pending>>
    BY <1>5 DEF AppendIndex
  <2>3. \A t \in Savers : At(t, "list")' => maxRuns' > 0
    BY <1>5, <2>1, <2>2 DEF AppendIndex, AfterIndex, TypeOK
  <2> QED
    BY <2>2, <2>3 DEF PublishedNames, Visible, Outnumbered, NewerIn
<1>6. ASSUME NEW s \in Savers,
             \/ BeginSave(s) \/ StatName(s) \/ TooManyNamed(s) \/ FailEarly(s) \/ OpenTmp(s)
             \/ WriteTmp(s) \/ WriteFails(s) \/ RenameFails(s) \/ PruneRead(s) \/ PruneReadFails(s)
             \/ PruneWrite(s) \/ PruneRename(s) \/ MaintenanceFails(s) \/ Crash(s)
      PROVE  RotationExplained'
  BY <1>1, <1>6 DEF TypeOK, BeginSave, StatName, TooManyNamed, FailEarly, OpenTmp, WriteTmp,
     WriteFails, RenameFails, PruneRead, PruneReadFails, PruneWrite, PruneRename, MaintenanceFails, Crash, Leave
<1>7. CASE UNCHANGED vars
  BY <1>1, <1>7 DEF vars, procVars
<1> HIDE DEF RotationExplained
<1>8. ASSUME NEW s \in Savers, SaveStep(s) \/ Crash(s) PROVE RotationExplained'
  BY <1>2, <1>3, <1>4, <1>5, <1>6, <1>8 DEF SaveStep
<1> QED
  BY <1>7, <1>8 DEF Next, Idles

(* The explanation of rotations holds throughout. *)
THEOREM RotationCorrect == Spec => []RotationExplained
<1>1. Init => RotationExplained
  <2> SUFFICES ASSUME Init PROVE RotationExplained
    OBVIOUS
  <2>1. PublishedNames = {} /\ Visible = {}
    BY DEF Init, PublishedNames, Visible
  <2>2. \A s \in Savers : ~At(s, "list") /\ pending[s] = {}
    BY DEF Init
  <2> QED
    BY <2>1, <2>2, FS_EmptySet DEF RotationExplained
<1>2. TypeOK /\ RotationExplained /\ [Next]_vars => RotationExplained'
  BY RotationInductive
<1> QED
  BY <1>1, <1>2, TypeCorrect, PTL DEF Spec

(* No rotation ever removes one of the newest max_runs names published. *)
THEOREM NewestSurviveCorrect == Spec => []NewestSurvive
<1>1. TypeOK /\ RotationExplained => NewestSurvive
  <2> SUFFICES ASSUME TypeOK, RotationExplained,
                      NEW n \in PublishedNames, n \notin Visible
               PROVE  /\ maxRuns # 0
                      /\ ~(Cardinality(NewerIn(n, PublishedNames)) < maxRuns)
    BY DEF NewestSurvive
  <2>1. Outnumbered(n)
    BY DEF RotationExplained
  <2>2. IsFiniteSet(NewerIn(n, PublishedNames))
    BY FS_Subset DEF RotationExplained, NewerIn
  <2>3. maxRuns \in Nat /\ Cardinality(NewerIn(n, PublishedNames)) \in Nat
    BY <2>2, FS_CardinalityType, SettingsAssumption DEF TypeOK
  <2> QED
    BY <2>1, <2>3 DEF Outnumbered
<1> QED
  BY <1>1, TypeCorrect, RotationCorrect, PTL

-----------------------------------------------------------------------------
(* Artifacts are whole. *)

(* Before its rename a process has published nothing. *)
Unpublished(s) == pc[s] \in {"absent", "idle", "stat", "open", "write", "rename"}

(* Inodes never leave the second of the process that created them, so the  *)
(* inode of a process that shares its second with no other is written by   *)
(* it alone, and is published only once it is whole.                       *)
ArtifactsExplained ==
    /\ \A n \in Names : tmp[n] # None => second[tmp[n]] = n.sec
    /\ \A n \in Names : file[n] # None => second[file[n]] = n.sec
    /\ \A s \in Savers : inode[s] # None => second[inode[s]] = second[s]
    /\ \A s \in Savers : At(s, "write") => inode[s] # None
    /\ \A s \in Savers : AloneInSecond(s) =>
        /\ content[s] \subseteq {s}
        /\ At(s, "rename") => content[s] = {s}
        /\ \A n \in Names : file[n] = s => content[s] = {s} /\ ~Unpublished(s)

(* Opening and writing: the only steps that change what inodes hold.       *)
LEMMA OpenKeepsArtifacts ==
    ASSUME TypeOK, ArtifactsExplained, NEW s \in Savers, OpenTmp(s)
    PROVE  ArtifactsExplained'
<1> DEFINE i == IF tmp[NameOf(s)] = None THEN s ELSE tmp[NameOf(s)]
<1>1. NameOf(s) \in Names /\ NameOf(s).sec = second[s]
  BY NameOfType
<1>2. i \in Savers /\ second[i] = second[s] /\ i # None
  BY <1>1, NoneAssumption DEF ArtifactsExplained, TypeOK
<1>3. /\ inode' = [inode EXCEPT ![s] = i]
      /\ content' = [content EXCEPT ![i] = {}]
      /\ tmp' = [tmp EXCEPT ![NameOf(s)] = i]
      /\ pc' = [pc EXCEPT ![s] = "write"]
      /\ pc[s] = "open"
      /\ UNCHANGED <<second, file>>
  BY <1>2 DEF OpenTmp
<1> HIDE DEF i
<1>4. \A n \in Names : tmp'[n] # None => second'[tmp'[n]] = n.sec
  BY <1>1, <1>2, <1>3 DEF ArtifactsExplained, TypeOK
<1>5. \A t \in Savers : inode'[t] # None => second'[inode'[t]] = second'[t]
  BY <1>2, <1>3 DEF ArtifactsExplained, TypeOK
<1>6. \A t \in Savers : At(t, "write")' => inode'[t] # None
  BY <1>2, <1>3 DEF ArtifactsExplained, TypeOK
<1>7. ASSUME NEW t \in Savers, AloneInSecond(t)'
      PROVE  /\ content'[t] \subseteq {t}
             /\ At(t, "rename")' => content'[t] = {t}
             /\ \A n \in Names : file'[n] = t => content'[t] = {t} /\ ~Unpublished(t)'
  <2>1. AloneInSecond(t)
    BY <1>3, <1>7 DEF AloneInSecond
  <2>2. CASE t = i
    <3>1. t = s
      BY <1>2, <2>1, <2>2 DEF AloneInSecond
    <3>2. \A n \in Names : file[n] # t
      BY <1>3, <2>1, <3>1 DEF ArtifactsExplained, Unpublished
    <3> QED
      BY <1>2, <1>3, <2>2, <3>1, <3>2 DEF TypeOK
  <2>3. CASE t # i
    <3>1. content'[t] = content[t]
      BY <1>3, <2>3 DEF TypeOK
    <3>2. t # s => pc'[t] = pc[t]
      BY <1>3 DEF TypeOK
    <3>3. t = s => pc[t] = "open" /\ pc'[t] = "write"
      BY <1>3 DEF TypeOK
    <3> QED
      BY <1>3, <2>1, <3>1, <3>2, <3>3 DEF ArtifactsExplained, Unpublished
  <2> QED
    BY <2>2, <2>3
<1>8. \A n \in Names : file'[n] # None => second'[file'[n]] = n.sec
  BY <1>3 DEF ArtifactsExplained
<1> QED
  BY <1>4, <1>5, <1>6, <1>7, <1>8 DEF ArtifactsExplained

LEMMA WriteKeepsArtifacts ==
    ASSUME TypeOK, ArtifactsExplained, NEW s \in Savers, WriteTmp(s)
    PROVE  ArtifactsExplained'
<1> DEFINE i == inode[s]
<1>1. i \in Savers /\ second[i] = second[s]
  BY NoneAssumption DEF ArtifactsExplained, TypeOK, WriteTmp
<1>2. PICK bytes \in {{s}, content[i] \cup {s}} : content' = [content EXCEPT ![i] = bytes]
  BY DEF WriteTmp
<1>3. /\ inode' = [inode EXCEPT ![s] = None]
      /\ pc' = [pc EXCEPT ![s] = "rename"]
      /\ pc[s] = "write"
      /\ UNCHANGED <<second, tmp, file>>
  BY DEF WriteTmp
<1>4. /\ \A t \in Savers : inode'[t] # None => second'[inode'[t]] = second'[t]
      /\ \A t \in Savers : At(t, "write")' => inode'[t] # None
  BY <1>3 DEF ArtifactsExplained, TypeOK
<1>5. ASSUME NEW t \in Savers, AloneInSecond(t)'
      PROVE  /\ content'[t] \subseteq {t}
             /\ At(t, "rename")' => content'[t] = {t}
             /\ \A n \in Names : file'[n] = t => content'[t] = {t} /\ ~Unpublished(t)'
  <2>1. AloneInSecond(t)
    BY <1>3, <1>5 DEF AloneInSecond
  <2>2. CASE t = s
    <3>1. i = t
      BY <1>1, <2>1, <2>2 DEF AloneInSecond
    <3>2. bytes = {t}
      BY <1>2, <2>1, <2>2, <3>1 DEF ArtifactsExplained
    <3>3. content'[t] = {t}
      BY <1>1, <1>2, <3>1, <3>2 DEF TypeOK
    <3>4. \A n \in Names : file[n] # t
      BY <1>3, <2>1, <2>2 DEF ArtifactsExplained, Unpublished
    <3> QED
      BY <1>3, <3>3, <3>4
  <2>3. CASE t # s
    <3>1. i # t
      BY <1>1, <2>1, <2>3 DEF AloneInSecond
    <3>2. content'[t] = content[t] /\ pc'[t] = pc[t]
      BY <1>2, <1>3, <2>3, <3>1 DEF TypeOK
    <3> QED
      BY <1>3, <2>1, <3>2 DEF ArtifactsExplained, Unpublished
  <2> QED
    BY <2>2, <2>3
<1>6. /\ \A n \in Names : tmp'[n] # None => second'[tmp'[n]] = n.sec
      /\ \A n \in Names : file'[n] # None => second'[file'[n]] = n.sec
  BY <1>3 DEF ArtifactsExplained
<1> QED
  BY <1>4, <1>5, <1>6 DEF ArtifactsExplained

LEMMA RenameKeepsArtifacts ==
    ASSUME TypeOK, ArtifactsExplained, NEW s \in Savers, RenameTmp(s)
    PROVE  ArtifactsExplained'
<1> DEFINE i == tmp[NameOf(s)]
<1>1. NameOf(s) \in Names /\ NameOf(s).sec = second[s]
  BY NameOfType
<1>2. i # None /\ second[i] = second[s] /\ i \in Savers
  BY <1>1 DEF ArtifactsExplained, TypeOK, RenameTmp
<1>3. /\ file' = [file EXCEPT ![NameOf(s)] = i]
      /\ tmp' = [tmp EXCEPT ![NameOf(s)] = None]
      /\ pc' = [pc EXCEPT ![s] = "index"]
      /\ pc[s] = "rename"
      /\ UNCHANGED <<second, inode, content>>
  BY DEF RenameTmp
<1> HIDE DEF i
<1>4. /\ \A n \in Names : tmp'[n] # None => second'[tmp'[n]] = n.sec
      /\ \A n \in Names : file'[n] # None => second'[file'[n]] = n.sec
  BY <1>1, <1>2, <1>3 DEF ArtifactsExplained, TypeOK
<1>5. /\ \A t \in Savers : inode'[t] # None => second'[inode'[t]] = second'[t]
      /\ \A t \in Savers : At(t, "write")' => inode'[t] # None
  BY <1>3 DEF ArtifactsExplained, TypeOK
<1>6. ASSUME NEW t \in Savers, AloneInSecond(t)'
      PROVE  /\ content'[t] \subseteq {t}
             /\ At(t, "rename")' => content'[t] = {t}
             /\ \A n \in Names : file'[n] = t => content'[t] = {t} /\ ~Unpublished(t)'
  <2>1. AloneInSecond(t)
    BY <1>3, <1>6 DEF AloneInSecond
  <2>2. CASE t = s
    BY <1>3, <2>1, <2>2 DEF ArtifactsExplained, Unpublished, TypeOK
  <2>3. CASE t # s
    <3>1. i # t
      BY <1>2, <2>1, <2>3 DEF AloneInSecond
    <3>2. pc'[t] = pc[t] /\ \A n \in Names : file'[n] = t => file[n] = t
      BY <1>1, <1>3, <2>3, <3>1 DEF TypeOK
    <3> QED
      BY <1>3, <2>1, <3>2 DEF ArtifactsExplained, Unpublished
  <2> QED
    BY <2>2, <2>3
<1> QED
  BY <1>4, <1>5, <1>6 DEF ArtifactsExplained

(* Every other step removes entries of the directory at most, and moves a  *)
(* process forward.                                                        *)
LEMMA OthersKeepArtifacts ==
    ASSUME TypeOK, ArtifactsExplained, UNCHANGED <<second, content>>,
           \A n \in Names : tmp'[n] \in {tmp[n], None} /\ file'[n] \in {file[n], None},
           \A s \in Savers : inode'[s] \in {inode[s], None},
           \A s \in Savers : pc'[s] = "write" => pc[s] = "write" /\ inode'[s] = inode[s],
           \A s \in Savers : pc'[s] = "rename" => pc[s] = "rename",
           \A s \in Savers : Unpublished(s)' => Unpublished(s)
    PROVE  ArtifactsExplained'
<1>1. \A s \in Savers : AloneInSecond(s)' => AloneInSecond(s)
  BY DEF AloneInSecond
<1>2. \A n \in Names, s \in Savers : file'[n] = s => file[n] = s
  BY NoneAssumption
<1>3. \A n \in Names : /\ tmp'[n] # None => second'[tmp'[n]] = n.sec
                       /\ file'[n] # None => second'[file'[n]] = n.sec
  BY DEF ArtifactsExplained
<1>4. \A s \in Savers : /\ inode'[s] # None => second'[inode'[s]] = second'[s]
                        /\ At(s, "write")' => inode'[s] # None
  BY DEF ArtifactsExplained
<1>5. \A s \in Savers : AloneInSecond(s)' =>
        /\ content'[s] \subseteq {s}
        /\ At(s, "rename")' => content'[s] = {s}
        /\ \A n \in Names : file'[n] = s => content'[s] = {s} /\ ~Unpublished(s)'
  BY <1>1, <1>2 DEF ArtifactsExplained
<1> QED
  BY <1>3, <1>4, <1>5 DEF ArtifactsExplained

LEMMA ArtifactsInductive ==
    ASSUME TypeOK, ArtifactsExplained, [Next]_vars
    PROVE  ArtifactsExplained'
<1>1. ASSUME NEW s \in Savers,
             \/ BeginSave(s) \/ StatName(s) \/ TooManyNamed(s) \/ FailEarly(s)
             \/ WriteFails(s) \/ RenameFails(s) \/ AppendIndex(s) \/ ListDir(s)
             \/ RemoveOne(s) \/ PruneRead(s) \/ PruneReadFails(s) \/ PruneWrite(s) \/ PruneRename(s)
             \/ MaintenanceFails(s) \/ Crash(s)
      PROVE  ArtifactsExplained'
  <2>1. UNCHANGED <<second, content>>
    BY <1>1 DEF BeginSave, StatName, TooManyNamed, FailEarly, WriteFails, RenameFails,
       AppendIndex, ListDir, RemoveOne, PruneRead, PruneReadFails, PruneWrite, PruneRename, MaintenanceFails, Crash
  <2>2. \A n \in Names : tmp'[n] \in {tmp[n], None} /\ file'[n] \in {file[n], None}
    BY <1>1 DEF BeginSave, StatName, TooManyNamed, FailEarly, WriteFails, RenameFails, TypeOK,
       AppendIndex, ListDir, RemoveOne, PruneRead, PruneReadFails, PruneWrite, PruneRename, MaintenanceFails, Crash
  <2>3. inode' = inode \/ inode' = [inode EXCEPT ![s] = None]
    BY <1>1 DEF BeginSave, StatName, TooManyNamed, FailEarly, WriteFails, RenameFails, Leave,
       AppendIndex, ListDir, RemoveOne, PruneRead, PruneReadFails, PruneWrite, PruneRename, MaintenanceFails, Crash
  <2>4. \/ pc' = pc /\ inode' = inode
        \/ \E p \in {"failed", "crashed", "list", "saved", "remove", "prune", "swap"} :
             pc' = [pc EXCEPT ![s] = p]
        \/ pc[s] = "idle" /\ pc' = [pc EXCEPT ![s] = "stat"] /\ inode' = inode
        \/ pc[s] = "stat" /\ pc' = [pc EXCEPT ![s] = "open"] /\ inode' = inode
    BY <1>1 DEF BeginSave, StatName, TooManyNamed, FailEarly, WriteFails, RenameFails, Leave,
       AppendIndex, AfterIndex, ListDir, RemoveOne, PruneRead, PruneReadFails, PruneWrite, PruneRename,
       MaintenanceFails, Crash
  <2>5. \A t \in Savers : inode'[t] \in {inode[t], None}
    BY <2>3 DEF TypeOK
  <2>6. \A t \in Savers : pc'[t] = "write" => pc[t] = "write" /\ inode'[t] = inode[t]
    BY <2>3, <2>4 DEF TypeOK
  <2>7. \A t \in Savers : pc'[t] = "rename" => pc[t] = "rename"
    BY <2>4 DEF TypeOK
  <2>8. \A t \in Savers : Unpublished(t)' => Unpublished(t)
    BY <2>4 DEF TypeOK, Unpublished
  <2> HIDE DEF ArtifactsExplained
  <2> QED
    BY <2>1, <2>2, <2>5, <2>6, <2>7, <2>8, OthersKeepArtifacts, Zenon
<1>2. CASE UNCHANGED vars
  BY <1>2, OthersKeepArtifacts DEF vars, procVars, Unpublished
<1>3. ASSUME NEW s \in Savers, SaveStep(s) \/ Crash(s) PROVE ArtifactsExplained'
  BY <1>1, <1>3, OpenKeepsArtifacts, WriteKeepsArtifacts, RenameKeepsArtifacts DEF SaveStep
<1> QED
  BY <1>2, <1>3 DEF Next, Idles

(* The explanation of artifacts holds throughout. *)
THEOREM ArtifactsExplainedCorrect == Spec => []ArtifactsExplained
<1>1. Init => ArtifactsExplained
  BY NoneAssumption DEF Init, ArtifactsExplained
<1>2. TypeOK /\ ArtifactsExplained /\ [Next]_vars => ArtifactsExplained'
  BY ArtifactsInductive
<1> QED
  BY <1>1, <1>2, TypeCorrect, PTL DEF Spec

(* Only processes of one second write into one inode. *)
ContentExplained == \A i \in Savers : \A t \in content[i] : second[t] = second[i]

LEMMA ContentInductive ==
    ASSUME TypeOK, ArtifactsExplained, ContentExplained, [Next]_vars
    PROVE  ContentExplained'
<1>1. ASSUME UNCHANGED <<second, content>> PROVE ContentExplained'
  BY <1>1 DEF ContentExplained
<1>2. ASSUME NEW s \in Savers, OpenTmp(s) PROVE ContentExplained'
  <2>1. PICK i : content' = [content EXCEPT ![i] = {}]
    BY <1>2 DEF OpenTmp
  <2>2. second' = second
    BY <1>2 DEF OpenTmp
  <2> QED
    BY <2>1, <2>2 DEF ContentExplained, TypeOK
<1>3. ASSUME NEW s \in Savers, WriteTmp(s) PROVE ContentExplained'
  <2>1. inode[s] \in Savers /\ second[inode[s]] = second[s]
    BY <1>3, NoneAssumption DEF ArtifactsExplained, TypeOK, WriteTmp
  <2>2. PICK bytes \in {{s}, content[inode[s]] \cup {s}} :
          content' = [content EXCEPT ![inode[s]] = bytes]
    BY <1>3 DEF WriteTmp
  <2>3. \A t \in bytes : second[t] = second[inode[s]]
    BY <2>1, <2>2 DEF ContentExplained
  <2>4. second' = second
    BY <1>3 DEF WriteTmp
  <2> QED
    BY <2>1, <2>2, <2>3, <2>4 DEF ContentExplained, TypeOK
<1>4. ASSUME NEW s \in Savers, SaveStep(s) \/ Crash(s), ~OpenTmp(s), ~WriteTmp(s)
      PROVE  UNCHANGED <<second, content>>
  BY <1>4 DEF SaveStep, BeginSave, StatName, TooManyNamed, FailEarly, WriteFails, RenameTmp,
     RenameFails, AppendIndex, ListDir, RemoveOne, PruneRead, PruneReadFails, PruneWrite, PruneRename,
     MaintenanceFails, Crash
<1>5. CASE UNCHANGED vars
  BY <1>1, <1>5 DEF vars
<1> QED
  BY <1>1, <1>2, <1>3, <1>4, <1>5 DEF Next, Idles

(* The explanation of contents holds throughout. *)
THEOREM ContentCorrect == Spec => []ContentExplained
<1>1. Init => ContentExplained
  BY DEF Init, ContentExplained
<1>2. TypeOK /\ ArtifactsExplained /\ ContentExplained /\ [Next]_vars => ContentExplained'
  BY ContentInductive
<1> QED
  BY <1>1, <1>2, TypeCorrect, ArtifactsExplainedCorrect, PTL DEF Spec

(* A reader sees whole artifacts, each of the run its name says, of every  *)
(* run that shares its second with no other, and no byte of another second *)
(* in any.                                                                 *)
THEOREM ArtifactsWholeCorrect == Spec => []ArtifactsWhole
<1>1. TypeOK /\ ArtifactsExplained /\ ContentExplained => ArtifactsWhole
  <2> SUFFICES ASSUME TypeOK, ArtifactsExplained, ContentExplained, NEW n \in Visible
               PROVE  /\ \A s \in Savers : AloneInSecond(s) /\ n.sec = second[s] => content[file[n]] = {s}
                      /\ \A t \in content[file[n]] : second[t] = n.sec
    BY DEF ArtifactsWhole
  <2>1. n \in Names /\ file[n] # None /\ file[n] \in Savers
    BY DEF Visible, TypeOK
  <2>2. second[file[n]] = n.sec
    BY <2>1 DEF ArtifactsExplained
  <2>3. ASSUME NEW s \in Savers, AloneInSecond(s), n.sec = second[s] PROVE content[file[n]] = {s}
    <3>1. file[n] = s
      BY <2>1, <2>2, <2>3 DEF AloneInSecond
    <3> QED
      BY <2>1, <2>3, <3>1 DEF ArtifactsExplained
  <2>4. \A t \in content[file[n]] : second[t] = n.sec
    BY <2>1, <2>2 DEF ContentExplained
  <2> QED
    BY <2>3, <2>4
<1> QED
  BY <1>1, TypeCorrect, ArtifactsExplainedCorrect, ContentCorrect, PTL

-----------------------------------------------------------------------------
(* The id a save returned stays readable. *)

LineOf(s) == [name |-> NameOf(s), by |-> s]

(* A process publishes once, under the name it returns, which is of its    *)
(* second.                                                                 *)
PublishersExplained ==
    /\ \A l \in published : l.name.sec = second[l.by] /\ ~Unpublished(l.by)
    /\ \A l, m \in published : l.by = m.by => l = m
    /\ \A s \in Savers : ~Unpublished(s) /\ pc[s] \notin {"failed", "crashed"} => LineOf(s) \in published

(* A step keeps the explanation. *)
LEMMA PublishersInductive ==
    ASSUME TypeOK, PublishersExplained, [Next]_vars
    PROVE  PublishersExplained'
<1>1. ASSUME UNCHANGED <<published, second>>,
             \A s \in Savers : Unpublished(s)' => Unpublished(s),
             \A s \in Savers : /\ ~Unpublished(s)'
                               /\ pc'[s] \notin {"failed", "crashed"}
                               => /\ ~Unpublished(s)
                                  /\ pc[s] \notin {"failed", "crashed"}
                                  /\ suffix'[s] = suffix[s]
      PROVE  PublishersExplained'
  <2>1. \A l \in published' : l.name.sec = second'[l.by] /\ ~Unpublished(l.by)'
    BY <1>1 DEF PublishersExplained, TypeOK, Line
  <2>2. \A l, m \in published' : l.by = m.by => l = m
    BY <1>1 DEF PublishersExplained
  <2>3. \A s \in Savers : ~Unpublished(s)' /\ pc'[s] \notin {"failed", "crashed"} => LineOf(s)' \in published'
    BY <1>1 DEF PublishersExplained, LineOf, NameOf
  <2> QED
    BY <2>1, <2>2, <2>3 DEF PublishersExplained
<1>2. ASSUME NEW s \in Savers, RenameTmp(s) PROVE PublishersExplained'
  <2>1. /\ published' = published \cup {LineOf(s)}
        /\ pc' = [pc EXCEPT ![s] = "index"]
        /\ UNCHANGED <<second, suffix>>
        /\ Unpublished(s)
    BY <1>2 DEF RenameTmp, LineOf, Unpublished
  <2>2. LineOf(s).by = s /\ LineOf(s).name.sec = second[s]
    BY DEF LineOf, NameOf
  <2>3. \A l \in published : l.by # s /\ l.by \in Savers
    BY <2>1 DEF PublishersExplained, TypeOK, Line
  <2>4. \A t \in Savers : LineOf(t)' = LineOf(t)
    BY <2>1 DEF LineOf, NameOf
  <2>5. ~Unpublished(s)' /\ \A t \in Savers : t # s => pc'[t] = pc[t]
    BY <2>1 DEF Unpublished, TypeOK
  <2>6. \A l \in published' : l.name.sec = second'[l.by] /\ ~Unpublished(l.by)'
    BY <2>1, <2>2, <2>3, <2>5 DEF PublishersExplained, Unpublished
  <2>7. \A l, m \in published' : l.by = m.by => l = m
    BY <2>1, <2>2, <2>3 DEF PublishersExplained
  <2>8. \A t \in Savers : ~Unpublished(t)' /\ pc'[t] \notin {"failed", "crashed"} => LineOf(t)' \in published'
    BY <2>1, <2>4, <2>5 DEF PublishersExplained, Unpublished
  <2> QED
    BY <2>6, <2>7, <2>8 DEF PublishersExplained
<1>3. ASSUME NEW s \in Savers,
             \/ BeginSave(s) \/ StatName(s) \/ TooManyNamed(s) \/ FailEarly(s) \/ OpenTmp(s)
             \/ WriteTmp(s) \/ WriteFails(s) \/ RenameFails(s) \/ AppendIndex(s)
             \/ ListDir(s) \/ RemoveOne(s) \/ PruneRead(s) \/ PruneReadFails(s) \/ PruneWrite(s)
             \/ PruneRename(s) \/ MaintenanceFails(s) \/ Crash(s)
      PROVE  PublishersExplained'
  <2>1. UNCHANGED <<published, second>>
    BY <1>3 DEF BeginSave, StatName, TooManyNamed, FailEarly, OpenTmp, WriteTmp, WriteFails,
       RenameFails, AppendIndex, ListDir, RemoveOne, PruneRead, PruneReadFails, PruneWrite, PruneRename,
       MaintenanceFails, Crash
  <2>2. \/ pc' = pc /\ suffix' = suffix
        \/ \E p \in {"failed", "crashed"} : pc' = [pc EXCEPT ![s] = p] /\ suffix' = [suffix EXCEPT ![s] = 0]
        \/ Unpublished(s) /\ suffix' = [suffix EXCEPT ![s] = suffix'[s]] /\ pc' = [pc EXCEPT ![s] = pc'[s]]
           /\ pc'[s] \in {"stat", "open", "write", "rename"}
        \/ pc[s] \in {"index", "list", "remove", "prune", "swap"} /\ suffix' = suffix
           /\ \E p \in {"list", "remove", "prune", "swap", "saved"} : pc' = [pc EXCEPT ![s] = p]
    BY <1>3 DEF BeginSave, StatName, TooManyNamed, FailEarly, OpenTmp, WriteTmp, WriteFails,
       RenameFails, AppendIndex, AfterIndex, ListDir, RemoveOne, PruneRead, PruneReadFails, PruneWrite, PruneRename,
       MaintenanceFails, Crash, Leave, Unpublished, TypeOK
  <2>3. \A t \in Savers : Unpublished(t)' => Unpublished(t)
    BY <2>2 DEF TypeOK, Unpublished
  <2>4. \A t \in Savers : /\ ~Unpublished(t)'
                          /\ pc'[t] \notin {"failed", "crashed"}
                          => /\ ~Unpublished(t)
                             /\ pc[t] \notin {"failed", "crashed"}
                             /\ suffix'[t] = suffix[t]
    BY <2>2 DEF TypeOK, Unpublished
  <2> QED
    BY <1>1, <2>1, <2>3, <2>4
<1>4. CASE UNCHANGED vars
  BY <1>1, <1>4 DEF vars, procVars, Unpublished
<1>5. ASSUME NEW s \in Savers, SaveStep(s) \/ Crash(s) PROVE PublishersExplained'
  BY <1>2, <1>3, <1>5 DEF SaveStep
<1> QED
  BY <1>4, <1>5 DEF Next, Idles

(* The explanation of publishers holds throughout. *)
THEOREM PublishersCorrect == Spec => []PublishersExplained
<1>1. Init => PublishersExplained
  BY DEF Init, PublishersExplained, Unpublished
<1>2. TypeOK /\ PublishersExplained /\ [Next]_vars => PublishersExplained'
  BY PublishersInductive
<1> QED
  BY <1>1, <1>2, TypeCorrect, PTL DEF Spec

(* Whoever published a newer name than a process alone in its second runs  *)
(* later: names cannot outnumber later runs.                               *)
LEMMA NewerAreLaterPublished ==
    ASSUME TypeOK, RotationExplained, PublishersExplained,
           NEW k \in published, AloneInSecond(k.by)
    PROVE  Cardinality(NewerIn(k.name, PublishedNames))
             <= Cardinality({t \in Publishers : second[t] > second[k.by]})
<1> DEFINE Newer == NewerIn(k.name, PublishedNames)
           Later == {t \in Publishers : second[t] > second[k.by]}
           By(n) == CHOOSE l \in published : l.name = n
<1>1. \A n \in Newer : By(n) \in published /\ By(n).name = n
  BY DEF NewerIn, PublishedNames
<1>2. ASSUME NEW n \in Newer PROVE By(n).by \in Later
  <2> DEFINE l == By(n)
  <2>1. l \in published /\ l.name = n
    BY <1>1
  <2> HIDE DEF By
  <2>2. l.by \in Savers /\ l.by \in Publishers /\ n \in Names /\ n.sec = second[l.by]
    BY <2>1 DEF PublishersExplained, TypeOK, Line, Publishers
  <2>3. k.by \in Savers /\ k.name \in Names /\ k.name.sec = second[k.by]
    BY DEF PublishersExplained, TypeOK, Line
  <2>4. Less(k.name, n)
    BY DEF NewerIn
  <2>5. second[k.by] \in Nat /\ second[l.by] \in Nat
    BY <2>2, <2>3, SecondsAssumption DEF TypeOK
  <2>6. n.suffix \in Nat /\ k.name.suffix \in Nat
    BY <2>2, <2>3, SuffixAssumption DEF Names, Suffixes
  <2>7. CASE second[l.by] = second[k.by]
    <3>1. l.by = k.by
      BY <2>2, <2>7 DEF AloneInSecond
    <3>2. n = k.name
      BY <2>1, <3>1 DEF PublishersExplained
    <3> QED
      BY <2>3, <2>4, <2>5, <2>6, <3>2 DEF Less
  <2>8. CASE second[l.by] # second[k.by]
    BY <2>2, <2>3, <2>4, <2>5, <2>8 DEF Less
  <2> QED
    BY <2>7, <2>8
<1>3. IsFiniteSet(Newer) /\ IsFiniteSet(Later)
  <2>1. Later \subseteq Savers
    BY DEF Publishers, TypeOK, Line
  <2> QED
    BY <2>1, SaversAssumption, FS_Subset DEF RotationExplained, NewerIn
<1>4. Cardinality(Newer) \in Nat /\ Cardinality(Later) \in Nat
  BY <1>3, FS_CardinalityType
<1>5. SUFFICES ASSUME Cardinality(Later) < Cardinality(Newer) PROVE FALSE
  BY <1>4
<1> DEFINE f == [n \in Newer |-> By(n).by]
<1>6. f \in [Newer -> Later]
  BY <1>2
<1>7. PICK m, n \in Newer : m # n /\ f[m] = f[n]
  <2> HIDE DEF f, Newer, Later
  <2> QED
    BY <1>3, <1>5, <1>6, FS_PigeonHole
<1>8. By(m) = By(n)
  <2>1. By(m).by = By(n).by
    BY <1>7
  <2> QED
    BY <1>1, <2>1 DEF PublishersExplained
<1> QED
  BY <1>1, <1>7, <1>8

LEMMA NewerAreLater ==
    ASSUME TypeOK, RotationExplained, PublishersExplained,
           NEW s \in Savers, AloneInSecond(s), LineOf(s) \in published
    PROVE  Cardinality(NewerIn(NameOf(s), PublishedNames)) <= LaterRuns(s)
<1>1. LineOf(s).by = s /\ LineOf(s).name = NameOf(s)
  BY DEF LineOf
<1> QED
  BY <1>1, NewerAreLaterPublished DEF LaterRuns

(* Runs that were published are counted by a number. *)
LEMMA LaterRunsType ==
    ASSUME TypeOK, NEW s
    PROVE  /\ IsFiniteSet({t \in Publishers : second[t] > second[s]})
           /\ LaterRuns(s) \in Nat
<1>1. {t \in Publishers : second[t] > second[s]} \subseteq Savers
  BY DEF Publishers, TypeOK, Line
<1> QED
  BY <1>1, SaversAssumption, FS_Subset, FS_CardinalityType DEF LaterRuns

(* What SaveRun returned, LoadRun reads, until max_runs later runs.        *)
THEOREM AcknowledgedReadableCorrect == Spec => []AcknowledgedReadable
<1>1. TypeOK /\ RotationExplained /\ PublishersExplained /\ NewestSurvive /\ ArtifactsWhole
      => AcknowledgedReadable
  <2> SUFFICES ASSUME TypeOK, RotationExplained, PublishersExplained, NewestSurvive, ArtifactsWhole,
                      NEW s \in Savers, At(s, "saved"), AloneInSecond(s),
                      maxRuns = 0 \/ LaterRuns(s) < maxRuns
               PROVE  NameOf(s) \in Visible /\ content[file[NameOf(s)]] = {s}
    BY DEF AcknowledgedReadable
  <2>1. LineOf(s) \in published
    BY DEF PublishersExplained, Unpublished
  <2>2. NameOf(s) \in PublishedNames
    BY <2>1 DEF PublishedNames, LineOf
  <2>3. Cardinality(NewerIn(NameOf(s), PublishedNames)) <= LaterRuns(s)
    BY <2>1, NewerAreLater
  <2>4. /\ Cardinality(NewerIn(NameOf(s), PublishedNames)) \in Nat
        /\ LaterRuns(s) \in Nat
        /\ maxRuns \in Nat
    <3>1. IsFiniteSet(NewerIn(NameOf(s), PublishedNames))
      BY FS_Subset DEF RotationExplained, NewerIn
    <3> QED
      BY <3>1, LaterRunsType, FS_CardinalityType, SettingsAssumption DEF TypeOK
  <2>5. NameOf(s) \in Visible
    BY <2>2, <2>3, <2>4 DEF NewestSurvive
  <2> QED
    BY <2>5, NameOfType DEF ArtifactsWhole
<1> QED
  BY <1>1, TypeCorrect, RotationCorrect, PublishersCorrect, NewestSurviveCorrect,
     ArtifactsWholeCorrect, PTL

(* A run saved in a second of its own is not removed by its own rotation   *)
(* while none that started later has been saved: what is said at           *)
(* jsonstore.go:295 fails only for runs that share a second.               *)
THEOREM RemovesOldestWhenAlone ==
    Spec => [](last # None /\ AloneInSecond(last) => RemovesOldest)
<1>1. TypeOK /\ PublishersExplained /\ NewestSurvive
      => (last # None /\ AloneInSecond(last) => RemovesOldest)
  <2> SUFFICES ASSUME TypeOK, PublishersExplained, NewestSurvive,
                      last \in Savers, AloneInSecond(last), At(last, "saved"),
                      \A n \in PublishedNames : n.sec <= second[last]
               PROVE  NameOf(last) \in Visible
    BY DEF RemovesOldest, TypeOK
  <2>1. LineOf(last) \in published /\ LineOf(last).by = last /\ LineOf(last).name = NameOf(last)
    BY DEF PublishersExplained, Unpublished, LineOf
  <2>2. NameOf(last) \in PublishedNames /\ NameOf(last) \in Names /\ NameOf(last).sec = second[last]
    BY <2>1, NameOfType DEF PublishedNames
  <2>3. NewerIn(NameOf(last), PublishedNames) = {}
    <3> SUFFICES ASSUME NEW m \in PublishedNames, Less(NameOf(last), m) PROVE FALSE
      BY DEF NewerIn
    <3>1. PICK l \in published : l.name = m
      BY DEF PublishedNames
    <3>2. l.by \in Savers /\ m.sec = second[l.by] /\ m \in Names
      BY <3>1 DEF PublishersExplained, TypeOK, Line
    <3>3. m.sec \in Nat /\ second[last] \in Nat /\ m.suffix \in Nat
      <4>1. m.sec \in Seconds /\ m.suffix \in Suffixes /\ second[last] \in Seconds
        BY <3>2 DEF TypeOK, Names
      <4>2. m.suffix \in Nat
        BY <4>1, SuffixAssumption DEF Suffixes
      <4> QED
        BY <4>1, <4>2, SecondsAssumption
    <3>4. m.sec = second[last]
      BY <2>2, <3>3 DEF Less
    <3>5. m = NameOf(last)
      BY <2>1, <3>1, <3>2, <3>4 DEF AloneInSecond, PublishersExplained
    <3> QED
      BY <3>3, <3>5 DEF Less
  <2>4. maxRuns = 0 \/ Cardinality(NewerIn(NameOf(last), PublishedNames)) < maxRuns
    BY <2>3, FS_EmptySet, SettingsAssumption DEF TypeOK
  <2> QED
    BY <2>2, <2>4 DEF NewestSurvive
<1> QED
  BY <1>1, TypeCorrect, PublishersCorrect, NewestSurviveCorrect, PTL

-----------------------------------------------------------------------------
(* Rotation bounds the number of artifacts. *)

(* At most k names of a finite set have fewer than k newer ones: the       *)
(* number of newer names tells two names apart.                            *)
LEMMA KeptAreFew ==
    ASSUME NEW V \in SUBSET Names, IsFiniteSet(V), NEW k \in Nat
    PROVE  Cardinality({n \in V : Cardinality(NewerIn(n, V)) < k}) <= k
<1> DEFINE W == {n \in V : Cardinality(NewerIn(n, V)) < k}
           rank == [n \in W |-> Cardinality(NewerIn(n, V)) + 1]
<1>0. \A n \in V : n \in Names /\ n.sec \in Nat /\ n.suffix \in Nat
  <2> TAKE n \in V
  <2>1. n \in Names
    OBVIOUS
  <2>2. n.sec \in Seconds /\ n.suffix \in Suffixes
    BY <2>1 DEF Names
  <2>3. n.suffix \in Nat
    BY <2>2, SuffixAssumption DEF Suffixes
  <2> QED
    BY <2>1, <2>2, <2>3, SecondsAssumption
<1>1. \A n \in V : IsFiniteSet(NewerIn(n, V)) /\ Cardinality(NewerIn(n, V)) \in Nat
  BY FS_Subset, FS_CardinalityType DEF NewerIn
<1>2. ASSUME NEW m \in V, NEW n \in V, Less(m, n)
      PROVE  Cardinality(NewerIn(n, V)) < Cardinality(NewerIn(m, V))
  <2>1. NewerIn(n, V) \subseteq NewerIn(m, V)
    <3> SUFFICES ASSUME NEW q \in V, Less(n, q) PROVE Less(m, q)
      BY DEF NewerIn
    <3> QED
      BY <1>0, <1>2 DEF Less
  <2>2. n \in NewerIn(m, V) /\ n \notin NewerIn(n, V)
    BY <1>0, <1>2 DEF Less, NewerIn
  <2>3. NewerIn(n, V) # NewerIn(m, V)
    BY <2>2
  <2> QED
    BY <1>1, <2>1, <2>3, FS_Subset
<1>3. ASSUME NEW m \in V, NEW n \in V, m # n PROVE Less(m, n) \/ Less(n, m)
  <2>1. m.sec # n.sec \/ m.suffix # n.suffix
    BY <1>0, <1>3 DEF Names
  <2> QED
    BY <1>0, <2>1 DEF Less
<1>4. rank \in [W -> 1..k]
  BY <1>1
<1>5. \A m, n \in W : m # n => rank[m] # rank[n]
  BY <1>1, <1>2, <1>3
<1>6. IsFiniteSet(W) /\ Cardinality(W) \in Nat
  BY FS_Subset, FS_CardinalityType
<1>7. IsFiniteSet(1..k) /\ Cardinality(1..k) = k
  BY FS_Interval
<1> HIDE DEF W, rank
<1>8. ~(Cardinality(1..k) < Cardinality(W))
  BY <1>4, <1>5, <1>6, <1>7, FS_PigeonHole
<1> QED
  BY <1>6, <1>7, <1>8 DEF W

(* Nothing died and no rotation or index error was logged. *)
Smooth == logged = {} /\ \A s \in Savers : pc[s] # "crashed"

Rotated(s) == pc[s] \in {"remove", "prune", "swap", "saved"}

(* While all goes well, either somebody who has published has yet to list  *)
(* the directory, or what remains once somebody has removed what it listed *)
(* is within the bound.                                                    *)
BoundExplained ==
    /\ \A s \in Savers : pending[s] # {} => At(s, "remove")
    /\ Smooth /\ maxRuns > 0 =>
        \/ \E s \in Savers : pc[s] \in {"index", "list"}
        \/ \E s \in Savers : Rotated(s) /\ Cardinality(Visible \ pending[s]) <= maxRuns
        \/ Cardinality(Visible) <= maxRuns

(* A step keeps the explanation. *)
LEMMA BoundInductive ==
    ASSUME TypeOK, RotationExplained, BoundExplained, [Next]_vars
    PROVE  BoundExplained'
<1>1. IsFiniteSet(Visible) /\ maxRuns \in Nat /\ Visible \subseteq Names
  BY FS_Subset, SettingsAssumption DEF RotationExplained, TypeOK, Visible
<1>2. \A S \in SUBSET Visible : Cardinality(S) \in Nat
  BY <1>1, FS_Subset, FS_CardinalityType
<1>3. ASSUME UNCHANGED <<file, maxRuns>>, logged \subseteq logged',
             \A s \in Savers : pc[s] = "crashed" => pc'[s] = "crashed",
             \A s \in Savers : pending'[s] # {} => pending'[s] = pending[s] /\ At(s, "remove")',
             \A s \in Savers : \/ pc'[s] = "crashed"
                               \/ logged' # {}
                               \/ /\ pc[s] \in {"index", "list"} => pc'[s] \in {"index", "list"}
                                  /\ Rotated(s) => Rotated(s)' /\ pending'[s] = pending[s]
      PROVE  BoundExplained'
  <2>1. Visible' = Visible
    BY <1>3 DEF Visible
  <2>2. Smooth' => Smooth
    BY <1>3 DEF Smooth
  <2> QED
    BY <1>3, <2>1, <2>2 DEF BoundExplained, Smooth
<1>4. ASSUME NEW s \in Savers, RenameTmp(s) PROVE BoundExplained'
  <2>1. pc' = [pc EXCEPT ![s] = "index"] /\ pending' = pending /\ pc[s] = "rename"
    BY <1>4 DEF RenameTmp
  <2>2. pc'[s] = "index"
    BY <2>1 DEF TypeOK
  <2>3. \A t \in Savers : pending'[t] # {} => At(t, "remove")'
    BY <2>1 DEF BoundExplained, TypeOK
  <2> QED
    BY <2>2, <2>3 DEF BoundExplained
<1>5. ASSUME NEW s \in Savers, AppendIndex(s) PROVE BoundExplained'
  <2>1. /\ pc[s] = "index" /\ pc' = [pc EXCEPT ![s] = AfterIndex]
        /\ UNCHANGED <<file, maxRuns, pending>>
        /\ logged \subseteq logged'
    BY <1>5 DEF AppendIndex
  <2>2. \A t \in Savers : pending'[t] # {} => At(t, "remove")'
    BY <2>1 DEF BoundExplained, TypeOK
  <2>3. maxRuns > 0 => pc'[s] = "list"
    BY <2>1 DEF TypeOK, AfterIndex
  <2> QED
    BY <2>1, <2>2, <2>3 DEF BoundExplained
<1>6. ASSUME NEW s \in Savers, ListDir(s) PROVE BoundExplained'
  <2>1. /\ pc[s] = "list"
        /\ pending' = [pending EXCEPT ![s] = Oldest(Visible)]
        /\ pc' = [pc EXCEPT ![s] = IF Oldest(Visible) = {} THEN "saved" ELSE "remove"]
        /\ UNCHANGED <<file, maxRuns, logged>>
    BY <1>6 DEF ListDir
  <2>2. \A t \in Savers : pending'[t] # {} => At(t, "remove")'
    BY <2>1 DEF BoundExplained, TypeOK
  <2>3. Rotated(s)' /\ pending'[s] = Oldest(Visible) /\ Visible' = Visible
    BY <2>1 DEF TypeOK, Rotated, Visible
  <2>4. Visible \ Oldest(Visible) = {n \in Visible : Cardinality(NewerIn(n, Visible)) < maxRuns}
    <3>1. \A n \in Visible : Cardinality(NewerIn(n, Visible)) \in Nat
      BY <1>2 DEF NewerIn
    <3> QED
      BY <1>1, <3>1 DEF Oldest
  <2>5. Cardinality(Visible \ Oldest(Visible)) <= maxRuns
    BY <1>1, <2>4, KeptAreFew
  <2> QED
    BY <2>1, <2>2, <2>3, <2>5 DEF BoundExplained
<1>7. ASSUME NEW s \in Savers, RemoveOne(s) PROVE BoundExplained'
  <2>1. PICK n \in pending[s] :
          /\ pending' = [pending EXCEPT ![s] = @ \ {n}]
          /\ \/ file' = [file EXCEPT ![n] = None] /\ UNCHANGED logged
             \/ Logs(s)
    BY <1>7 DEF RemoveOne
  <2>2. UNCHANGED <<pc, maxRuns>> /\ pc[s] = "remove"
    BY <1>7 DEF RemoveOne
  <2>3. \A t \in Savers : pending'[t] # {} => At(t, "remove")'
    BY <2>1, <2>2 DEF BoundExplained, TypeOK
  <2>4. CASE Logs(s)
    BY <2>3, <2>4 DEF BoundExplained, Smooth
  <2>5. CASE file' = [file EXCEPT ![n] = None] /\ UNCHANGED logged
    <3>1. Visible' = Visible \ {n}
      BY <2>1, <2>5 DEF Visible, TypeOK
    <3>2. Smooth' => Smooth
      BY <2>2, <2>5 DEF Smooth
    <3>3. \A t \in Savers : Visible' \ pending'[t] \subseteq Visible \ pending[t]
      BY <2>1, <3>1 DEF TypeOK
    <3>4. \A t \in Savers : Cardinality(Visible \ pending[t]) <= maxRuns
                            => Cardinality(Visible' \ pending'[t]) <= maxRuns
      <4> TAKE t \in Savers
      <4> DEFINE before == Visible \ pending[t]
                 after == Visible' \ pending'[t]
      <4>1. IsFiniteSet(before) /\ after \subseteq before
        BY <1>1, <3>3, FS_Subset
      <4> HIDE DEF before, after
      <4>2. /\ Cardinality(after) <= Cardinality(before)
            /\ Cardinality(before) \in Nat
            /\ Cardinality(after) \in Nat
        BY <4>1, FS_Subset, FS_CardinalityType
      <4>3. Cardinality(before) <= maxRuns => Cardinality(after) <= maxRuns
        BY <1>1, <4>2
      <4> QED
        BY <4>3 DEF before, after
    <3>5. Cardinality(Visible) <= maxRuns => Cardinality(Visible') <= maxRuns
      <4> DEFINE before == Visible
                 after == Visible'
      <4>1. IsFiniteSet(before) /\ after \subseteq before
        BY <1>1, <3>1
      <4> HIDE DEF before, after
      <4>2. /\ Cardinality(after) <= Cardinality(before)
            /\ Cardinality(before) \in Nat
            /\ Cardinality(after) \in Nat
        BY <4>1, FS_Subset, FS_CardinalityType
      <4>3. Cardinality(before) <= maxRuns => Cardinality(after) <= maxRuns
        BY <1>1, <4>2
      <4> QED
        BY <4>3 DEF before, after
    <3> QED
      BY <2>2, <2>3, <3>2, <3>4, <3>5 DEF BoundExplained, Rotated
  <2> QED
    BY <2>1, <2>4, <2>5
<1>8. ASSUME NEW s \in Savers,
             \/ BeginSave(s) \/ StatName(s) \/ TooManyNamed(s) \/ FailEarly(s) \/ OpenTmp(s)
             \/ WriteTmp(s) \/ WriteFails(s) \/ RenameFails(s) \/ PruneRead(s) \/ PruneReadFails(s)
             \/ PruneWrite(s) \/ PruneRename(s) \/ MaintenanceFails(s) \/ Crash(s)
      PROVE  BoundExplained'
  <2>1. UNCHANGED <<file, maxRuns>> /\ logged \subseteq logged'
    BY <1>8 DEF BeginSave, StatName, TooManyNamed, FailEarly, OpenTmp, WriteTmp, WriteFails,
       RenameFails, PruneRead, PruneReadFails, PruneWrite, PruneRename, MaintenanceFails, Crash, Leave
  <2>2. \/ pc' = pc /\ pending' = pending
        \/ /\ ~Rotated(s) /\ pc[s] \notin {"index", "list", "crashed"}
           /\ pc' = [pc EXCEPT ![s] = pc'[s]]
           /\ pc'[s] # "remove"
           /\ pending' \in {pending, [pending EXCEPT ![s] = {}]}
        \/ /\ pc[s] = "remove" /\ pending[s] = {} /\ pending' = pending
           /\ \E p \in {"prune", "saved"} : pc' = [pc EXCEPT ![s] = p]
        \/ /\ pc[s] \in {"prune", "swap"} /\ pending' = pending
           /\ pc' = [pc EXCEPT ![s] = IF pc[s] = "prune" THEN "swap" ELSE "saved"]
        \/ /\ pc[s] \in {"list", "prune", "swap"} /\ pending' = pending
           /\ pc' = [pc EXCEPT ![s] = "saved"]
           /\ logged' # {}
        \/ /\ pc' = [pc EXCEPT ![s] = "crashed"]
           /\ pending' = [pending EXCEPT ![s] = {}]
    <3>1. CASE BeginSave(s) \/ StatName(s) \/ OpenTmp(s) \/ WriteTmp(s)
      BY <3>1 DEF BeginSave, StatName, OpenTmp, WriteTmp, Rotated, TypeOK
    <3>2. CASE TooManyNamed(s) \/ FailEarly(s) \/ WriteFails(s) \/ RenameFails(s)
      BY <3>2 DEF TooManyNamed, FailEarly, WriteFails, RenameFails, Leave, Rotated, TypeOK
    <3>3. CASE PruneRead(s) \/ PruneReadFails(s) \/ PruneWrite(s) \/ PruneRename(s)
      BY <3>3 DEF PruneRead, PruneReadFails, PruneWrite, PruneRename, TypeOK
    <3>4. CASE MaintenanceFails(s) \/ Crash(s)
      BY <3>4 DEF MaintenanceFails, Crash, Leave, TypeOK
    <3> QED
      BY <1>8, <3>1, <3>2, <3>3, <3>4
  <2>3. \A t \in Savers : pc[t] = "crashed" => pc'[t] = "crashed"
    BY <2>2 DEF TypeOK
  <2>4. \A t \in Savers : pending'[t] # {} => pending'[t] = pending[t] /\ At(t, "remove")'
    BY <2>2 DEF TypeOK, BoundExplained, Rotated
  <2>5. \A t \in Savers : \/ pc'[t] = "crashed"
                          \/ logged' # {}
                          \/ /\ pc[t] \in {"index", "list"} => pc'[t] \in {"index", "list"}
                             /\ Rotated(t) => Rotated(t)' /\ pending'[t] = pending[t]
    BY <2>2 DEF TypeOK, Rotated
  <2> QED
    BY <1>3, <2>1, <2>3, <2>4, <2>5
<1>9. CASE UNCHANGED vars
  BY <1>9 DEF vars, procVars, BoundExplained, Smooth, Rotated, Visible
<1>10. ASSUME NEW s \in Savers, SaveStep(s) \/ Crash(s) PROVE BoundExplained'
  BY <1>4, <1>5, <1>6, <1>7, <1>8, <1>10 DEF SaveStep
<1> QED
  BY <1>9, <1>10 DEF Next, Idles

(* The explanation of the bound holds throughout. *)
THEOREM BoundCorrect == Spec => []BoundExplained
<1>1. Init => BoundExplained
  <2> SUFFICES ASSUME Init PROVE BoundExplained
    OBVIOUS
  <2>1. Visible = {} /\ Cardinality({}) = 0
    BY FS_EmptySet DEF Init, Visible
  <2>2. \A s \in Savers : pending[s] = {}
    BY DEF Init
  <2>3. maxRuns \in Nat
    BY SettingsAssumption DEF Init
  <2> QED
    BY <2>1, <2>2, <2>3 DEF BoundExplained
<1>2. TypeOK /\ RotationExplained /\ BoundExplained /\ [Next]_vars => BoundExplained'
  BY BoundInductive
<1> QED
  BY <1>1, <1>2, TypeCorrect, RotationCorrect, PTL DEF Spec

(* When the dust settles, max_runs artifacts are left at most.             *)
THEOREM RotationBoundedCorrect == Spec => []RotationBounded
<1>1. TypeOK /\ BoundExplained => RotationBounded
  <2> SUFFICES ASSUME TypeOK, BoundExplained, maxRuns > 0, logged = {},
                      \A s \in Savers : pc[s] \in {"absent", "idle", "saved", "failed"}
               PROVE  Cardinality(Visible) <= maxRuns
    BY DEF RotationBounded
  <2>1. \A s \in Savers : pending[s] = {}
    BY DEF BoundExplained
  <2>2. Smooth /\ \A s \in Savers : pc[s] \notin {"index", "list"}
    BY DEF Smooth
  <2>3. \A s \in Savers : Visible \ pending[s] = Visible
    BY <2>1
  <2> QED
    BY <2>2, <2>3 DEF BoundExplained
<1> QED
  BY <1>1, TypeCorrect, BoundCorrect, PTL

-----------------------------------------------------------------------------
(* The index agrees with the directory. *)

NamesOf(S) == {l.name : l \in S}

(* What is in the directory is listed, and nothing else unless a rotation  *)
(* could not read the index.                                               *)
Lists(names, visible) == visible \subseteq names /\ (~unpruned => names = visible)

Still(p) == p \in {"stat", "open", "write", "rename", "list"}

(* Where the one process that saves is, tells what the index lacks or has  *)
(* too much; nobody saving, it lists the directory.                        *)
IndexExplained ==
    /\ ~overlap => \A s, t \in Savers : Active(s) /\ Active(t) => s = t
    /\ ~overlap /\ Smooth =>
        /\ (\A s \in Savers : ~Active(s)) => Lists(NamesOf(index), Visible)
        /\ \A s \in Savers :
            /\ Still(pc[s]) => Lists(NamesOf(index), Visible)
            /\ At(s, "index") => Lists(NamesOf(index) \cup {NameOf(s)}, Visible)
            /\ At(s, "remove") => /\ Lists(NamesOf(index) \ doomed[s], Visible \ doomed[s])
                                  /\ Visible \cap doomed[s] = pending[s]
            /\ At(s, "prune") => Lists(NamesOf(lines[s]), Visible)
            /\ At(s, "swap") /\ indexTmp \subseteq Line => Lists(NamesOf(indexTmp), Visible)

(* Nothing gets into the index that was not published.                     *)
IndexPublished ==
    /\ index \subseteq published
    /\ \A s \in Savers : lines[s] \subseteq published
    /\ indexTmp \subseteq Line => indexTmp \subseteq published

(* Nobody but s saves, as saves do not overlap. *)
Alone(s) == \A t \in Savers : Active(t) => t = s

(* A step of s that keeps it saving, on its own. *)
LEMMA IndexStep ==
    ASSUME TypeOK, IndexExplained, NEW s \in Savers, NEW p,
           UNCHANGED overlap, pc' = [pc EXCEPT ![s] = p],
           ~overlap => Alone(s),
           Smooth' => Smooth,
           ~overlap /\ Smooth /\ Smooth' /\ Alone(s) =>
            /\ ~Active(s)' => Lists(NamesOf(index), Visible)'
            /\ Still(p) => Lists(NamesOf(index), Visible)'
            /\ p = "index" => Lists(NamesOf(index) \cup {NameOf(s)}, Visible)'
            /\ p = "remove" => /\ Lists(NamesOf(index) \ doomed[s], Visible \ doomed[s])'
                               /\ Visible' \cap doomed'[s] = pending'[s]
            /\ p = "prune" => Lists(NamesOf(lines[s]), Visible)'
            /\ p = "swap" /\ indexTmp' \subseteq Line => Lists(NamesOf(indexTmp), Visible)'
    PROVE  IndexExplained'
<1>1. CASE overlap
  BY <1>1 DEF IndexExplained
<1>2. CASE ~overlap
  <2>1. Alone(s) /\ ~overlap'
    BY <1>2
  <2>2. pc'[s] = p /\ \A t \in Savers : t # s => pc'[t] = pc[t] /\ ~Active(t)
    BY <2>1 DEF TypeOK, Alone
  <2>3. \A t \in Savers : t # s => ~Active(t)'
    BY <2>2 DEF Active, Over
  <2>4. \A t \in Savers : t # s => ~Still(pc'[t]) /\ pc'[t] \notin {"index", "remove", "prune", "swap"}
    BY <2>2 DEF Active, Over, Still
  <2> QED
    BY <1>2, <2>1, <2>2, <2>3, <2>4 DEF IndexExplained
<1> QED
  BY <1>1, <1>2

(* A step keeps the explanation. *)
LEMMA IndexInductive ==
    ASSUME TypeOK, BoundExplained, IndexExplained, [Next]_vars
    PROVE  IndexExplained'
<1>1. \A s \in Savers : Active(s) => (~overlap => Alone(s))
  BY DEF IndexExplained, Alone
<1>2. \A s \in Savers : \A p : pc' = [pc EXCEPT ![s] = p] => pc'[s] = p
  BY DEF TypeOK
<1>3. ASSUME NEW s \in Savers, BeginSave(s) PROVE IndexExplained'
  <2>1. /\ pc[s] = "idle" /\ pc' = [pc EXCEPT ![s] = "stat"]
        /\ UNCHANGED <<overlap, unpruned, index, file, logged>>
        /\ ~overlap => \A t \in Savers : ~Active(t)
    BY <1>3 DEF BeginSave
  <2>2. ~overlap => Alone(s)
    BY <2>1 DEF Alone
  <2>3. Active(s)' /\ (Smooth' => Smooth)
    BY <1>2, <2>1 DEF Active, Over, Smooth, TypeOK
  <2>4. ~overlap /\ Smooth => Lists(NamesOf(index), Visible)'
    BY <2>1 DEF IndexExplained, Visible, Lists
  <2> QED
    BY <2>1, <2>2, <2>3, <2>4, IndexStep DEF Still, Active, Over
<1>4. ASSUME NEW s \in Savers, StatName(s) PROVE IndexExplained'
  <2>1. /\ pc[s] = "stat" /\ UNCHANGED <<overlap, unpruned, index, file, logged>>
        /\ pc' = pc \/ pc' = [pc EXCEPT ![s] = "open"]
    BY <1>4 DEF StatName
  <2>2. \E p \in {"stat", "open"} : pc' = [pc EXCEPT ![s] = p]
    BY <2>1 DEF TypeOK
  <2>3. PICK p \in {"stat", "open"} : pc' = [pc EXCEPT ![s] = p]
    BY <2>2
  <2>4. Active(s) /\ Active(s)' /\ (Smooth' => Smooth)
    BY <1>2, <2>1, <2>3 DEF Active, Over, Smooth, TypeOK
  <2>5. ~overlap /\ Smooth => Lists(NamesOf(index), Visible)'
    BY <2>1 DEF IndexExplained, Visible, Lists, Still
  <2> QED
    BY <1>1, <2>1, <2>3, <2>4, <2>5, IndexStep DEF Still
<1>5. ASSUME NEW s \in Savers,
             TooManyNamed(s) \/ FailEarly(s) \/ WriteFails(s) \/ RenameFails(s)
             \/ OpenTmp(s) \/ WriteTmp(s)
      PROVE  IndexExplained'
  <2>1. /\ Still(pc[s]) /\ Active(s) /\ UNCHANGED <<overlap, unpruned, index, file, logged>>
        /\ \E p \in {"failed", "write", "rename"} : pc' = [pc EXCEPT ![s] = p]
    BY <1>5 DEF TooManyNamed, FailEarly, WriteFails, RenameFails, OpenTmp, WriteTmp, Leave, Still,
       Active, Over
  <2>2. PICK p \in {"failed", "write", "rename"} : pc' = [pc EXCEPT ![s] = p]
    BY <2>1
  <2>3. Smooth' => Smooth
    BY <2>1, <2>2 DEF Smooth, TypeOK, Still
  <2>4. ~overlap /\ Smooth => Lists(NamesOf(index), Visible)'
    BY <2>1 DEF IndexExplained, Visible, Lists
  <2> QED
    BY <1>1, <2>1, <2>2, <2>3, <2>4, IndexStep
<1>6. ASSUME NEW s \in Savers, RenameTmp(s) PROVE IndexExplained'
  <2>1. /\ pc[s] = "rename" /\ pc' = [pc EXCEPT ![s] = "index"]
        /\ UNCHANGED <<overlap, unpruned, index, logged, second, suffix>>
        /\ file' = [file EXCEPT ![NameOf(s)] = tmp[NameOf(s)]] /\ tmp[NameOf(s)] # None
    BY <1>6 DEF RenameTmp
  <2>2. Active(s) /\ Active(s)' /\ (Smooth' => Smooth)
    BY <1>2, <2>1 DEF Active, Over, Smooth, TypeOK
  <2>3. NameOf(s)' = NameOf(s) /\ Visible' = Visible \cup {NameOf(s)}
    BY <2>1, NameOfType DEF NameOf, Visible, TypeOK
  <2>4. ~overlap /\ Smooth => Lists(NamesOf(index) \cup {NameOf(s)}, Visible)'
    BY <2>1, <2>3 DEF IndexExplained, Still, Lists
  <2> QED
    BY <1>1, <2>1, <2>2, <2>4, IndexStep DEF Still
<1>7. ASSUME NEW s \in Savers, AppendIndex(s) PROVE IndexExplained'
  <2>1. /\ pc[s] = "index" /\ pc' = [pc EXCEPT ![s] = AfterIndex]
        /\ UNCHANGED <<overlap, unpruned, file>>
        /\ AfterIndex \in {"list", "saved"}
        /\ \/ index' = index \cup {LineOf(s)} /\ UNCHANGED logged
           \/ logged' # {}
    BY <1>7 DEF AppendIndex, AfterIndex, LineOf
  <2>2. Active(s) /\ (Smooth' => Smooth)
    BY <2>1 DEF Active, Over, Smooth, TypeOK
  <2>3. LineOf(s).name = NameOf(s) /\ Visible' = Visible
    BY <2>1 DEF LineOf, Visible
  <2>4. ~overlap /\ Smooth /\ Smooth' => Lists(NamesOf(index), Visible)'
    <3>1. logged' = {} => NamesOf(index') = NamesOf(index) \cup {NameOf(s)}
      BY <2>1, <2>3 DEF NamesOf
    <3> QED
      BY <2>1, <2>3, <3>1 DEF IndexExplained, Smooth, Lists
  <2> QED
    BY <1>1, <2>1, <2>2, <2>4, IndexStep
<1>8. ASSUME NEW s \in Savers, ListDir(s) PROVE IndexExplained'
  <2>1. /\ pc[s] = "list" /\ UNCHANGED <<overlap, unpruned, index, file, logged>>
        /\ pc' = [pc EXCEPT ![s] = IF Oldest(Visible) = {} THEN "saved" ELSE "remove"]
        /\ doomed' = [doomed EXCEPT ![s] = Oldest(Visible)]
        /\ pending' = [pending EXCEPT ![s] = Oldest(Visible)]
    BY <1>8 DEF ListDir
  <2>2. PICK p \in {"saved", "remove"} : pc' = [pc EXCEPT ![s] = p]
    BY <2>1
  <2>3. Active(s) /\ (Smooth' => Smooth)
    BY <2>1 DEF Active, Over, Smooth, TypeOK
  <2>4. doomed'[s] = Oldest(Visible) /\ pending'[s] = Oldest(Visible) /\ Visible' = Visible
    BY <2>1 DEF TypeOK, Visible
  <2>5. ~overlap /\ Smooth => Lists(NamesOf(index), Visible)'
    BY <2>1, <2>4 DEF IndexExplained, Lists, Still
  <2>6. Visible' \cap doomed'[s] = pending'[s]
    BY <2>4 DEF Oldest
  <2>7. Lists(NamesOf(index), Visible)' => Lists(NamesOf(index) \ doomed[s], Visible \ doomed[s])'
    BY DEF Lists
  <2> QED
    BY <1>1, <2>1, <2>2, <2>3, <2>5, <2>6, <2>7, IndexStep DEF Still
<1>9. ASSUME NEW s \in Savers, RemoveOne(s) PROVE IndexExplained'
  <2>1. PICK n \in pending[s] :
          /\ pending' = [pending EXCEPT ![s] = @ \ {n}]
          /\ \/ file' = [file EXCEPT ![n] = None] /\ UNCHANGED logged
             \/ Logs(s)
    BY <1>9 DEF RemoveOne
  <2>2. /\ pc[s] = "remove" /\ pc' = [pc EXCEPT ![s] = "remove"]
        /\ UNCHANGED <<overlap, unpruned, doomed, index>>
    BY <1>9 DEF RemoveOne, TypeOK
  <2>3. Active(s) /\ Active(s)' /\ (Smooth' => Smooth)
    BY <1>2, <2>1, <2>2 DEF Active, Over, Smooth, TypeOK
  <2>4. logged' = {} => Visible' = Visible \ {n} /\ pending'[s] = pending[s] \ {n}
    BY <2>1 DEF Visible, TypeOK
  <2>5. ~overlap /\ Smooth /\ Smooth' =>
            /\ Lists(NamesOf(index) \ doomed[s], Visible \ doomed[s])'
            /\ Visible' \cap doomed'[s] = pending'[s]
    <3> SUFFICES ASSUME ~overlap, Smooth, Smooth'
                 PROVE  /\ Lists(NamesOf(index) \ doomed[s], Visible \ doomed[s])'
                        /\ Visible' \cap doomed'[s] = pending'[s]
      OBVIOUS
    <3>1. /\ Lists(NamesOf(index) \ doomed[s], Visible \ doomed[s])
          /\ Visible \cap doomed[s] = pending[s]
      BY <2>2 DEF IndexExplained
    <3>2. Visible' = Visible \ {n} /\ pending'[s] = pending[s] \ {n} /\ n \in doomed[s]
      BY <2>4, <3>1 DEF Smooth
    <3> QED
      BY <2>2, <3>1, <3>2 DEF Lists
  <2> QED
    BY <1>1, <2>2, <2>3, <2>5, IndexStep DEF Still
<1>10. ASSUME NEW s \in Savers, PruneRead(s) PROVE IndexExplained'
  <2>1. /\ pc[s] = "remove" /\ pc' = [pc EXCEPT ![s] = "prune"] /\ pending[s] = {}
        /\ UNCHANGED <<overlap, unpruned, file, logged>>
        /\ lines' = [lines EXCEPT ![s] = {l \in index : l.name \notin doomed[s]}]
    BY <1>10 DEF PruneRead
  <2>2. Active(s) /\ Active(s)' /\ (Smooth' => Smooth)
    BY <1>2, <2>1 DEF Active, Over, Smooth, TypeOK
  <2>3. NamesOf(lines'[s]) = NamesOf(index) \ doomed[s] /\ Visible' = Visible
    BY <2>1 DEF NamesOf, TypeOK, Visible
  <2>4. ~overlap /\ Smooth => Lists(NamesOf(lines[s]), Visible)'
    BY <2>1, <2>3 DEF IndexExplained, Lists
  <2> QED
    BY <1>1, <2>1, <2>2, <2>4, IndexStep DEF Still
<1>11. ASSUME NEW s \in Savers, PruneWrite(s) PROVE IndexExplained'
  <2>1. /\ pc[s] = "prune" /\ pc' = [pc EXCEPT ![s] = "swap"]
        /\ UNCHANGED <<overlap, unpruned, file, logged>> /\ indexTmp' = lines[s]
    BY <1>11 DEF PruneWrite
  <2>2. Active(s) /\ Active(s)' /\ (Smooth' => Smooth)
    BY <1>2, <2>1 DEF Active, Over, Smooth, TypeOK
  <2>3. ~overlap /\ Smooth => Lists(NamesOf(indexTmp), Visible)'
    BY <2>1 DEF IndexExplained, Visible, Lists
  <2> QED
    BY <1>1, <2>1, <2>2, <2>3, IndexStep DEF Still
<1>12. ASSUME NEW s \in Savers, PruneRename(s) PROVE IndexExplained'
  <2>1. /\ pc[s] = "swap" /\ pc' = [pc EXCEPT ![s] = "saved"]
        /\ UNCHANGED <<overlap, unpruned, file, logged>> /\ index' = indexTmp /\ indexTmp \subseteq Line
    BY <1>12 DEF PruneRename, TypeOK
  <2>2. Active(s) /\ (Smooth' => Smooth)
    BY <2>1 DEF Active, Over, Smooth, TypeOK
  <2>3. ~overlap /\ Smooth => Lists(NamesOf(index), Visible)'
    BY <2>1 DEF IndexExplained, Visible, Lists
  <2> QED
    BY <1>1, <2>1, <2>2, <2>3, IndexStep DEF Still
<1>13. ASSUME NEW s \in Savers, MaintenanceFails(s) \/ Crash(s) PROVE IndexExplained'
  <2>1. /\ Active(s) /\ UNCHANGED overlap
        /\ \E p \in {"saved", "crashed"} : pc' = [pc EXCEPT ![s] = p] /\ (p = "saved" => logged' # {})
        /\ logged \subseteq logged'
    BY <1>13 DEF MaintenanceFails, Crash, Leave, Active, Over
  <2>2. PICK p \in {"saved", "crashed"} : pc' = [pc EXCEPT ![s] = p] /\ (p = "saved" => logged' # {})
    BY <2>1
  <2>3. ~Smooth'
    BY <1>2, <2>2 DEF Smooth
  <2> QED
    BY <1>1, <2>1, <2>2, <2>3, IndexStep
<1>14. ASSUME NEW s \in Savers, PruneReadFails(s) PROVE IndexExplained'
  <2>1. /\ pc[s] = "remove" /\ pc' = [pc EXCEPT ![s] = "saved"] /\ pending[s] = {}
        /\ UNCHANGED <<overlap, index, file, logged>>
        /\ unpruned' = ~overlap
    BY <1>14 DEF PruneReadFails
  <2>2. Active(s) /\ (Smooth' => Smooth)
    BY <2>1 DEF Active, Over, Smooth, TypeOK
  <2>3. ~overlap /\ Smooth => Visible \subseteq NamesOf(index)
    BY <2>1 DEF IndexExplained, Lists
  <2>4. ~overlap /\ Smooth => Lists(NamesOf(index), Visible)'
    BY <2>1, <2>3 DEF Lists, Visible
  <2> QED
    BY <1>1, <2>1, <2>2, <2>4, IndexStep DEF Still
<1>16. CASE UNCHANGED vars
  BY <1>16 DEF vars, procVars, Lists, IndexExplained, Active, Over, Smooth, Visible, NameOf, NamesOf, Still
<1>15. ASSUME NEW s \in Savers, SaveStep(s) \/ Crash(s) PROVE IndexExplained'
  BY <1>3, <1>4, <1>5, <1>6, <1>7, <1>8, <1>9, <1>10, <1>11, <1>12, <1>13, <1>14, <1>15 DEF SaveStep
<1> QED
  BY <1>15, <1>16 DEF Next, Idles

LEMMA IndexPublishedInductive ==
    ASSUME TypeOK, PublishersExplained, IndexPublished, [Next]_vars
    PROVE  IndexPublished'
<1>1. published \subseteq published'
  BY DEF Next, SaveStep, BeginSave, StatName, TooManyNamed, FailEarly, OpenTmp, WriteTmp, WriteFails,
     RenameTmp, RenameFails, AppendIndex, ListDir, RemoveOne, PruneRead, PruneReadFails, PruneWrite,
     PruneRename, MaintenanceFails, Crash, Idles, vars
<1>2. ASSUME index' \subseteq published', indexTmp' \in {indexTmp, NoIndexTmp} \/ indexTmp' \subseteq published',
             \A s \in Savers : lines'[s] \subseteq published'
      PROVE  IndexPublished'
  <2>1. indexTmp' \subseteq Line => indexTmp' \subseteq published'
    <3>1. <<>> \notin Line
      BY DEF Line
    <3> QED
      BY <1>1, <1>2, <3>1 DEF IndexPublished, NoIndexTmp
  <2> QED
    BY <1>2, <2>1 DEF IndexPublished
<1>3. ASSUME NEW s \in Savers, AppendIndex(s) PROVE IndexPublished'
  <2>1. LineOf(s) \in published /\ index' \in {index, index \cup {LineOf(s)}} /\ UNCHANGED <<lines, indexTmp>>
    BY <1>3 DEF AppendIndex, LineOf, PublishersExplained, Unpublished
  <2> QED
    BY <1>1, <1>2, <2>1 DEF IndexPublished
<1>4. ASSUME NEW s \in Savers, PruneWrite(s) PROVE IndexPublished'
  <2>1. indexTmp' = lines[s] /\ index' = index /\ \A t \in Savers : lines'[t] \subseteq lines[t]
    BY <1>4 DEF PruneWrite, TypeOK
  <2> QED
    BY <1>1, <1>2, <2>1 DEF IndexPublished
<1>5. ASSUME NEW s \in Savers, PruneRead(s) PROVE IndexPublished'
  <2>1. /\ UNCHANGED <<index, indexTmp>>
        /\ \A t \in Savers : lines'[t] = lines[t] \/ lines'[t] \subseteq index
    BY <1>5 DEF PruneRead, TypeOK
  <2> QED
    BY <1>1, <1>2, <2>1 DEF IndexPublished
<1>6. ASSUME NEW s \in Savers, PruneRename(s) PROVE IndexPublished'
  <2>1. index' = indexTmp /\ indexTmp \subseteq Line /\ indexTmp' = NoIndexTmp /\ lines' = lines
    BY <1>6 DEF PruneRename, TypeOK
  <2> QED
    BY <1>1, <1>2, <2>1 DEF IndexPublished
<1>7. ASSUME NEW s \in Savers,
             \/ BeginSave(s) \/ StatName(s) \/ TooManyNamed(s) \/ FailEarly(s) \/ OpenTmp(s)
             \/ WriteTmp(s) \/ WriteFails(s) \/ RenameTmp(s) \/ RenameFails(s) \/ ListDir(s)
             \/ RemoveOne(s) \/ PruneReadFails(s) \/ MaintenanceFails(s) \/ Crash(s)
      PROVE  IndexPublished'
  <2>1. index' = index /\ indexTmp' \in {indexTmp, NoIndexTmp}
    BY <1>7 DEF BeginSave, StatName, TooManyNamed, FailEarly, OpenTmp, WriteTmp, WriteFails, RenameTmp,
       RenameFails, ListDir, RemoveOne, PruneReadFails, MaintenanceFails, Crash
  <2>2. \A t \in Savers : lines'[t] \subseteq lines[t]
    BY <1>7 DEF BeginSave, StatName, TooManyNamed, FailEarly, OpenTmp, WriteTmp, WriteFails, RenameTmp,
       RenameFails, ListDir, RemoveOne, PruneReadFails, MaintenanceFails, Crash, Leave, TypeOK
  <2> QED
    BY <1>1, <1>2, <2>1, <2>2 DEF IndexPublished
<1>8. CASE UNCHANGED vars
  BY <1>1, <1>2, <1>8 DEF vars, procVars, IndexPublished
<1>9. ASSUME NEW s \in Savers, SaveStep(s) \/ Crash(s) PROVE IndexPublished'
  BY <1>3, <1>4, <1>5, <1>6, <1>7, <1>9 DEF SaveStep
<1> QED
  BY <1>8, <1>9 DEF Next, Idles

(* Saves in turn, none of which died or logged an error, leave an index    *)
(* that lists the directory, and besides only runs that rotation pushed    *)
(* out in a save that could not read the index.                            *)
THEOREM IndexAgreesCorrect == Spec => []IndexAgrees
<1>1. Init => IndexExplained /\ IndexPublished
  <2> SUFFICES ASSUME Init PROVE IndexExplained /\ IndexPublished
    OBVIOUS
  <2>1. IndexExplained
    BY DEF Init, IndexExplained, Lists, Active, Over, Still, NamesOf, Visible
  <2>2. <<>> \notin Line
    BY DEF Line
  <2> QED
    BY <2>1, <2>2 DEF Init, IndexPublished, NoIndexTmp
<1>2. TypeOK /\ BoundExplained /\ IndexExplained /\ [Next]_vars => IndexExplained'
  BY IndexInductive
<1>3. TypeOK /\ PublishersExplained /\ IndexPublished /\ [Next]_vars => IndexPublished'
  BY IndexPublishedInductive
<1>4. TypeOK /\ RotationExplained /\ IndexExplained /\ IndexPublished => IndexAgrees
  <2> SUFFICES ASSUME TypeOK, RotationExplained, IndexExplained, IndexPublished, ~overlap, logged = {},
                      \A s \in Savers : pc[s] \in {"absent", "idle", "saved", "failed"}
               PROVE  /\ Lists(NamesOf(index), Visible)
                      /\ \A n \in NamesOf(index) \ Visible : Outnumbered(n)
    BY DEF IndexAgrees, NamesOf, Lists, Outnumbered
  <2>1. Lists(NamesOf(index), Visible)
    BY DEF IndexExplained, Active, Over, Smooth
  <2>2. NamesOf(index) \subseteq PublishedNames
    BY DEF IndexPublished, NamesOf, PublishedNames
  <2> QED
    BY <2>1, <2>2 DEF RotationExplained
<1> QED
  BY <1>1, <1>2, <1>3, <1>4, TypeCorrect, BoundCorrect, PublishersCorrect, RotationCorrect, PTL DEF Spec

-----------------------------------------------------------------------------
(* The store implements an archive.                                        *)

(* A run that is there and shares its second with no other.                *)
Held(s) == AloneInSecond(s) /\ \E n \in Visible : n.sec = second[s]

Archived ==
    {<<n.sec, content[file[n]]>> : n \in
        {m \in Visible : \E s \in Savers : second[s] = m.sec /\ AloneInSecond(s)}}

Returned == {s \in Savers : At(s, "saved")}

(* What is there is whole, so being there is all that matters.             *)
LEMMA ArchivedAreHeld ==
    ASSUME ArtifactsWhole
    PROVE  Archived = {<<second[s], {s}>> : s \in {t \in Savers : Held(t)}}
<1>1. ASSUME NEW a \in Archived PROVE \E s \in Savers : Held(s) /\ a = <<second[s], {s}>>
  <2>1. PICK n \in Visible : /\ a = <<n.sec, content[file[n]]>>
                             /\ \E s \in Savers : second[s] = n.sec /\ AloneInSecond(s)
    BY <1>1 DEF Archived
  <2>2. PICK s \in Savers : second[s] = n.sec /\ AloneInSecond(s)
    BY <2>1
  <2> QED
    BY <2>1, <2>2 DEF ArtifactsWhole, Held
<1>2. ASSUME NEW s \in Savers, Held(s) PROVE <<second[s], {s}>> \in Archived
  <2>1. PICK n \in Visible : n.sec = second[s]
    BY <1>2 DEF Held
  <2>2. content[file[n]] = {s}
    BY <1>2, <2>1 DEF Held, ArtifactsWhole
  <2> QED
    BY <1>2, <2>1, <2>2 DEF Held, Archived
<1> QED
  BY <1>1, <1>2

LEMMA ArchivedNext ==
    (ArtifactsWhole => Archived = {<<second[s], {s}>> : s \in {t \in Savers : Held(t)}})'
BY ArchivedAreHeld, PTL

(* Steps that leave the artifacts alone.                                   *)
LEMMA ArchivedStays ==
    ASSUME ArtifactsWhole, ArtifactsWhole', second' = second,
           \A s \in Savers : Held(s)' <=> Held(s)
    PROVE  Archived' = Archived
BY ArchivedAreHeld, ArchivedNext

StoreInvariant ==
    TypeOK /\ RotationExplained /\ PublishersExplained /\ ArtifactsExplained /\ ArtifactsWhole

(* A process publishes once, and its artifact is there from then on.       *)
LEMMA RenamePublishes ==
    ASSUME StoreInvariant, ArtifactsWhole', NEW s \in Savers, RenameTmp(s)
    PROVE  Archive!Publish(s)
<1> USE DEF StoreInvariant
<1>1. NameOf(s) \in Names /\ NameOf(s).sec = second[s]
  BY NameOfType
<1>2. /\ UNCHANGED <<second, maxRuns>>
      /\ file' = [file EXCEPT ![NameOf(s)] = tmp[NameOf(s)]] /\ tmp[NameOf(s)] # None
      /\ published' = published \cup {LineOf(s)} /\ LineOf(s).by = s
      /\ pc' = [pc EXCEPT ![s] = "index"] /\ pc[s] = "rename"
  BY DEF RenameTmp, LineOf
<1>3. Publishers' = Publishers \cup {s}
  BY <1>2 DEF Publishers
<1>4. s \notin Publishers
  BY <1>2 DEF Publishers, PublishersExplained, Unpublished
<1>5. Returned' = Returned
  BY <1>2 DEF Returned, TypeOK
<1>6. Visible' = Visible \cup {NameOf(s)}
  BY <1>1, <1>2 DEF Visible, TypeOK
<1>7. \A t \in Savers : AloneInSecond(t)' <=> AloneInSecond(t)
  BY <1>2 DEF AloneInSecond
<1>8. \A t \in Savers : Held(t)' <=> Held(t) \/ (t = s /\ AloneInSecond(s))
  BY <1>1, <1>2, <1>6, <1>7 DEF Held, AloneInSecond
<1>9. Archived' = IF AloneInSecond(s) THEN Archived \cup {<<second[s], {s}>>} ELSE Archived
  <2>1. CASE AloneInSecond(s)
    BY <1>2, <1>8, <2>1, ArchivedAreHeld, ArchivedNext
  <2>2. CASE ~AloneInSecond(s)
    BY <1>2, <1>8, <2>2, ArchivedStays
  <2> QED
    BY <2>1, <2>2
<1>10. Archive!Alone(s) <=> AloneInSecond(s)
  BY DEF Archive!Alone, AloneInSecond
<1> QED
  BY <1>2, <1>3, <1>4, <1>5, <1>9, <1>10 DEF Archive!Publish, Publishers, Archived, Returned

LEMMA SameCardinality == \A S : Archive!Cardinality(S) = Cardinality(S)
BY Zenon DEF Archive!Cardinality, Cardinality

(* What a rotation removes was outnumbered, by runs that all started later *)
(* than the only run of its second.                                        *)
LEMMA RemoveEvicts ==
    ASSUME StoreInvariant, ArtifactsWhole', NEW r \in Savers, RemoveOne(r)
    PROVE  (\E s \in Savers : Archive!Evict(s)) \/ UNCHANGED Archive!vars
<1> USE DEF StoreInvariant
<1>1. PICK n \in pending[r] : file' = [file EXCEPT ![n] = None] \/ file' = file
  BY DEF RemoveOne
<1>2. UNCHANGED <<second, maxRuns, published, pc>>
  BY DEF RemoveOne
<1>3. Publishers' = Publishers /\ Returned' = Returned
  BY <1>2 DEF Publishers, Returned
<1>4. \A t \in Savers : AloneInSecond(t)' <=> AloneInSecond(t)
  BY <1>2 DEF AloneInSecond
<1>5. CASE \A t \in Savers : Held(t)' <=> Held(t)
  BY <1>2, <1>3, <1>5, ArchivedStays DEF Archive!vars, Publishers, Archived, Returned
<1>6. ASSUME NEW s \in Savers, ~(Held(s)' <=> Held(s)) PROVE Archive!Evict(s)
  <2>1. n \in Names /\ Visible' = Visible \ {n}
    <3>1. Visible' # Visible
      BY <1>2, <1>4, <1>6 DEF Held
    <3>2. file' # file
      BY <3>1 DEF Visible
    <3> QED
      BY <1>1, <3>2 DEF Visible, TypeOK
  <2>2. AloneInSecond(s) /\ Held(s) /\ n \in Visible /\ n.sec = second[s]
    BY <1>2, <1>4, <1>6, <2>1 DEF Held
  <2>3. PICK k \in published : k.name = n
    BY <2>2 DEF RotationExplained, PublishedNames
  <2>4. k.by = s
    BY <2>2, <2>3 DEF PublishersExplained, AloneInSecond, TypeOK, Line
  <2>5. Outnumbered(n)
    BY DEF RotationExplained
  <2>6. Cardinality({t \in Publishers : second[t] > second[s]}) >= maxRuns
    <3>1. Cardinality(NewerIn(n, PublishedNames)) <= Cardinality({t \in Publishers : second[t] > second[s]})
      BY <2>2, <2>3, <2>4, NewerAreLaterPublished
    <3>2. IsFiniteSet(NewerIn(n, PublishedNames)) /\ {t \in Publishers : second[t] > second[s]} \subseteq Savers
      BY FS_Subset DEF RotationExplained, NewerIn, Publishers, TypeOK, Line
    <3>3. /\ Cardinality(NewerIn(n, PublishedNames)) \in Nat
          /\ Cardinality({t \in Publishers : second[t] > second[s]}) \in Nat
          /\ maxRuns \in Nat
      BY <3>2, SaversAssumption, SettingsAssumption, FS_Subset, FS_CardinalityType DEF TypeOK
    <3> QED
      BY <2>5, <3>1, <3>3 DEF Outnumbered
  <2>7. ~Held(s)'
    BY <1>6, <2>2
  <2>8. ASSUME NEW t \in Savers, t # s PROVE (Held(t)' <=> Held(t)) /\ (Held(t) => second[t] # second[s])
    BY <1>2, <1>4, <2>1, <2>2, <2>8 DEF Held, AloneInSecond
  <2>9. Archived' = {a \in Archived : a[1] # second[s]}
    BY <1>2, <2>2, <2>7, <2>8, ArchivedAreHeld, ArchivedNext
  <2> QED
    BY <1>2, <1>3, <2>5, <2>6, <2>9, SameCardinality DEF Outnumbered, Archive!Evict, Archive!LaterPublished,
       Publishers, Archived, Returned
<1> QED
  BY <1>5, <1>6

(* Any other step changes no artifact; one that returns an id belongs to a *)
(* process that has published.                                             *)
LEMMA OthersReturn ==
    ASSUME StoreInvariant, ArtifactsWhole', NEW s \in Savers,
           \/ BeginSave(s) \/ StatName(s) \/ TooManyNamed(s) \/ FailEarly(s) \/ OpenTmp(s)
           \/ WriteTmp(s) \/ WriteFails(s) \/ RenameFails(s) \/ AppendIndex(s)
           \/ ListDir(s) \/ PruneRead(s) \/ PruneReadFails(s) \/ PruneWrite(s) \/ PruneRename(s)
           \/ MaintenanceFails(s) \/ Crash(s)
    PROVE  Archive!Return(s) \/ UNCHANGED Archive!vars
<1> USE DEF StoreInvariant
<1>1. UNCHANGED <<second, maxRuns, published, file>>
  BY DEF BeginSave, StatName, TooManyNamed, FailEarly, OpenTmp, WriteTmp, WriteFails,
     RenameFails, AppendIndex, ListDir, PruneRead, PruneReadFails, PruneWrite, PruneRename, MaintenanceFails, Crash
<1>2. /\ pc' = [pc EXCEPT ![s] = pc'[s]] /\ pc[s] # "saved"
      /\ pc'[s] = "saved" => pc[s] \in {"index", "list", "remove", "prune", "swap"}
  BY DEF BeginSave, StatName, TooManyNamed, FailEarly, OpenTmp, WriteTmp, WriteFails,
     RenameFails, AppendIndex, AfterIndex, ListDir, PruneRead, PruneReadFails, PruneWrite, PruneRename,
     MaintenanceFails, Crash, Leave, Active, Over, TypeOK
<1>3. \A t \in Savers : Held(t)' <=> Held(t)
  BY <1>1 DEF Held, AloneInSecond, Visible
<1>4. Publishers' = Publishers /\ Archived' = Archived
  BY <1>1, <1>3, ArchivedStays DEF Publishers
<1>5. CASE pc'[s] = "saved"
  <2>1. LineOf(s) \in published /\ LineOf(s).by = s
    BY <1>2, <1>5 DEF PublishersExplained, Unpublished, LineOf
  <2>2. s \in Publishers \ Returned /\ Returned' = Returned \cup {s}
    BY <1>2, <1>5, <2>1 DEF Publishers, Returned, TypeOK
  <2> QED
    BY <1>1, <1>4, <2>2 DEF Archive!Return, Publishers, Archived, Returned
<1>6. CASE pc'[s] # "saved"
  <2>1. Returned' = Returned
    BY <1>2, <1>6 DEF Returned, TypeOK
  <2> QED
    BY <1>1, <1>4, <2>1 DEF Archive!vars, Publishers, Archived, Returned
<1> QED
  BY <1>5, <1>6

(* To whoever reads the directory, a run that shares its second with no    *)
(* other appears once, whole, and leaves only after max_runs later ones:   *)
(* every step of every process is a step of the archive or none            *)
(* (jsonstore.go:178-209, 299-326).                                        *)
THEOREM StoreImplementsArchive == Spec => ImplementsArchive
<1>1. Init => Archive!Init
  <2> SUFFICES ASSUME Init PROVE Archive!Init
    OBVIOUS
  <2>1. second \in [Savers -> Nat] /\ maxRuns \in Nat
    BY SecondsAssumption, SettingsAssumption DEF Init
  <2>2. published = {} /\ Visible = {} /\ Returned = {}
    BY DEF Init, Visible, Returned
  <2> QED
    BY <2>1, <2>2 DEF Archive!Init, Returned
<1>2. StoreInvariant /\ StoreInvariant' /\ [Next]_vars => [Archive!Next]_(Archive!vars)
  <2> SUFFICES ASSUME StoreInvariant, StoreInvariant', [Next]_vars
               PROVE  Archive!Next \/ UNCHANGED Archive!vars
    OBVIOUS
  <2>1. ArtifactsWhole'
    BY DEF StoreInvariant
  <2>2. CASE UNCHANGED vars
    BY <2>2 DEF vars, procVars, Archive!vars, Visible, AloneInSecond
  <2>3. ASSUME NEW s \in Savers, SaveStep(s) \/ Crash(s)
        PROVE  Archive!Next \/ UNCHANGED Archive!vars
    <3>1. CASE RenameTmp(s)
      BY <2>1, <3>1, RenamePublishes DEF Archive!Next
    <3>2. CASE RemoveOne(s)
      BY <2>1, <3>2, RemoveEvicts DEF Archive!Next
    <3>3. CASE ~(RenameTmp(s) \/ RemoveOne(s))
      BY <2>1, <2>3, <3>3, OthersReturn DEF SaveStep, Archive!Next
    <3> QED
      BY <3>1, <3>2, <3>3
  <2> QED
    BY <2>2, <2>3 DEF Next, Idles
<1>3. Spec => []StoreInvariant
  BY TypeCorrect, RotationCorrect, PublishersCorrect, ArtifactsExplainedCorrect,
     ArtifactsWholeCorrect, PTL DEF StoreInvariant
<1> QED
  BY <1>1, <1>2, <1>3, PTL DEF Spec, ImplementsArchive, Archive!Spec

-----------------------------------------------------------------------------
(* Readers beside the store. *)

(* A reader takes nothing away from the store and adds nothing to it, so   *)
(* every theorem about the store holds with readers beside it.             *)
THEOREM StoreUnaffected == HistorySpec => Spec
<1>1. HistoryInit => Init
  BY DEF HistoryInit
<1>2. [HistoryNext]_historyAndReaderVars => [Next]_vars
  BY DEF HistoryNext, ReaderStep, ReadDir, ReadDirFails, ReadNext, Listed, historyAndReaderVars
<1> QED
  BY <1>1, <1>2, PTL DEF HistorySpec, Spec

-----------------------------------------------------------------------------
StoreExplained == TypeOK /\ RotationExplained /\ ArtifactsExplained /\ ContentExplained

(* What may be said of an entry. *)
SharedSecond(n) == \E s, t \in Savers : s # t /\ second[s] = n.sec /\ second[t] = n.sec

EntryExplained(e) ==
    IF e.of # None THEN second[e.of] = e.name.sec ELSE SharedSecond(e.name) \/ Outnumbered(e.name)

ReaderExplained ==
    /\ unread \subseteq PublishedNames
    /\ listing \in Seq(Entry)
    /\ \A i \in DOMAIN listing : EntryExplained(listing[i])

(* What LoadRun answers for a published name. *)
LEMMA LoadRunExplained ==
    ASSUME StoreExplained, NEW n \in PublishedNames
    PROVE  /\ [name |-> n, of |-> LoadRun(n)] \in Entry
           /\ EntryExplained([name |-> n, of |-> LoadRun(n)])
<1> USE DEF StoreExplained
<1>1. n \in Names
  BY DEF PublishedNames, TypeOK, Line
<1>2. CASE n \notin Visible
  BY <1>1, <1>2 DEF RotationExplained, LoadRun, EntryExplained, Entry
<1>3. CASE n \in Visible /\ Cardinality(content[file[n]]) = 1
  <2>1. file[n] \in Savers /\ second[file[n]] = n.sec
    BY <1>1, <1>3 DEF Visible, TypeOK, ArtifactsExplained
  <2>2. IsFiniteSet(content[file[n]])
    BY <2>1, SaversAssumption, FS_Subset DEF TypeOK
  <2>3. PICK s : content[file[n]] = {s}
    BY <1>3, <2>2, FS_Singleton
  <2>4. s \in Savers /\ second[s] = n.sec
    BY <2>1, <2>3 DEF TypeOK, ContentExplained
  <2>5. LoadRun(n) = CHOOSE t \in Savers : content[file[n]] = {t}
    BY <1>3 DEF LoadRun
  <2>6. LoadRun(n) = s
    BY <2>3, <2>4, <2>5
  <2> QED
    BY <1>1, <2>4, <2>6, NoneAssumption DEF EntryExplained, Entry
<1>4. CASE n \in Visible /\ Cardinality(content[file[n]]) # 1
  <2>1. file[n] \in Savers /\ second[file[n]] = n.sec
    BY <1>1, <1>4 DEF Visible, TypeOK, ArtifactsExplained
  <2>2. LoadRun(n) = None
    BY <1>4 DEF LoadRun
  <2>3. ~AloneInSecond(file[n])
    <3> SUFFICES ASSUME AloneInSecond(file[n]) PROVE FALSE
      OBVIOUS
    <3>1. content[file[n]] = {file[n]}
      BY <1>1, <2>1 DEF ArtifactsExplained
    <3> QED
      BY <1>4, <3>1, FS_Singleton
  <2>4. SharedSecond(n)
    BY <2>1, <2>3 DEF AloneInSecond, SharedSecond
  <2> QED
    BY <1>1, <2>2, <2>4 DEF EntryExplained, Entry
<1> QED
  BY <1>2, <1>3, <1>4

(* What has been said of an entry stays so while others save and rotate.   *)
LEMMA EntryStaysExplained ==
    ASSUME StoreExplained, StoreExplained', [Next]_vars
    PROVE  /\ PublishedNames \subseteq PublishedNames'
           /\ \A e : EntryExplained(e) => EntryExplained(e)'
<1>1. UNCHANGED <<second, maxRuns>> /\ published \subseteq published'
  BY DEF Next, SaveStep, BeginSave, StatName, TooManyNamed, FailEarly, OpenTmp, WriteTmp, WriteFails,
     RenameTmp, RenameFails, AppendIndex, ListDir, RemoveOne, PruneRead, PruneReadFails, PruneWrite, PruneRename,
     MaintenanceFails, Crash, Idles, vars
<1>2. PublishedNames \subseteq PublishedNames'
  BY <1>1 DEF PublishedNames
<1>3. \A n : Outnumbered(n) => Outnumbered(n)'
  BY <1>1, <1>2, OutnumberedStays DEF StoreExplained, RotationExplained
<1> QED
  BY <1>1, <1>2, <1>3 DEF EntryExplained, SharedSecond

LEMMA ReaderInductive ==
    ASSUME StoreExplained, StoreExplained', ReaderExplained, [HistoryNext]_historyAndReaderVars
    PROVE  ReaderExplained'
<1>1. [Next]_vars
  BY DEF HistoryNext, ReaderStep, ReadDir, ReadDirFails, ReadNext, Listed, historyAndReaderVars
<1>2. /\ PublishedNames \subseteq PublishedNames'
      /\ \A e : EntryExplained(e) => EntryExplained(e)'
  BY <1>1, EntryStaysExplained
<1>3. CASE UNCHANGED <<unread, listing>>
  BY <1>2, <1>3 DEF ReaderExplained
<1>4. CASE ReadDir
  <2>1. unread' = Visible /\ UNCHANGED <<listing, published>>
    BY <1>4 DEF ReadDir, vars, historyVars
  <2> QED
    BY <1>2, <2>1 DEF ReaderExplained, StoreExplained, RotationExplained, PublishedNames
<1>5. CASE ReadNext
  <2>1. PICK n \in unread : /\ listing' = Append(listing, [name |-> n, of |-> LoadRun(n)])
                           /\ unread' = unread \ {n}
    BY <1>5 DEF ReadNext
  <2>2. PICK e : e = [name |-> n, of |-> LoadRun(n)] /\ e \in Entry /\ EntryExplained(e)
    BY LoadRunExplained DEF ReaderExplained
  <2>3. EntryExplained(e)'
    BY <1>2, <2>2
  <2>4. listing' = Append(listing, e)
    BY <2>1, <2>2
  <2>5. listing' \in Seq(Entry)
    BY <2>2, <2>4 DEF ReaderExplained
  <2>6. \A i \in DOMAIN listing' : listing'[i] = e \/ (i \in DOMAIN listing /\ listing'[i] = listing[i])
    BY <2>2, <2>4 DEF ReaderExplained
  <2> QED
    BY <1>2, <2>1, <2>3, <2>5, <2>6 DEF ReaderExplained
<1> QED
  BY <1>3, <1>4, <1>5 DEF HistoryNext, ReaderStep, ReadDirFails, Listed, historyAndReaderVars, readerVars

(* A listing never calls an artifact unreadable without a reason, nor      *)
(* shows a run under another's second.                                     *)
THEOREM EntriesExplainedCorrect == HistorySpec => []EntriesExplained
<1>1. Spec => []StoreExplained
  BY TypeCorrect, RotationCorrect, ArtifactsExplainedCorrect, ContentCorrect, PTL DEF StoreExplained
<1>2. HistoryInit => ReaderExplained
  BY DEF HistoryInit, ReaderInit, ReaderExplained
<1>3. /\ StoreExplained /\ StoreExplained' /\ ReaderExplained
      /\ [HistoryNext]_historyAndReaderVars
      => ReaderExplained'
  BY ReaderInductive
<1>4. ReaderExplained => EntriesExplained
  BY DEF ReaderExplained, EntriesExplained, EntryExplained, SharedSecond, Outnumbered
<1> QED
  BY <1>1, <1>2, <1>3, <1>4, StoreUnaffected, PTL DEF HistorySpec

-----------------------------------------------------------------------------
(* A listing shows what was acknowledged. *)

(* Names are listed newest first, and what is unread is older.             *)
ListingOrdered ==
    /\ listing \in Seq(Entry)
    /\ unread \subseteq PublishedNames
    /\ \A i \in DOMAIN listing : listing[i].name \in PublishedNames
    /\ \A i, j \in DOMAIN listing : i < j => Less(listing[j].name, listing[i].name)
    /\ \A i \in DOMAIN listing : \A n \in unread : Less(n, listing[i].name)
    /\ reader = "idle" => listing = <<>>

(* Nothing rotation has to leave is lost between the directory and the     *)
(* listing.                                                                *)
Kept(s) == AloneInSecond(s) /\ (maxRuns = 0 \/ LaterRuns(s) < maxRuns)

AcknowledgedHeld ==
    /\ reader = "idle" => acknowledged = {}
    /\ reader = "listed" => unread = {}
    /\ \A s \in acknowledged :
        /\ s \in Savers
        /\ At(s, "saved")
        /\ Kept(s) => \/ NameOf(s) \in unread
                      \/ \E i \in DOMAIN listing : listing[i] = [name |-> NameOf(s), of |-> s]

LEMMA NamesAreNumbers == \A n \in Names : n.sec \in Nat /\ n.suffix \in Nat
<1> TAKE n \in Names
<1>1. n.sec \in Seconds /\ n.suffix \in Suffixes
  BY DEF Names
<1>2. n.suffix \in Nat
  BY <1>1, SuffixAssumption DEF Suffixes
<1> QED
  BY <1>1, <1>2, SecondsAssumption

LEMMA NamesCompare ==
    ASSUME NEW m \in Names, NEW n \in Names, m # n, ~Less(m, n)
    PROVE  Less(n, m)
<1>1. /\ m.sec \in Nat /\ n.sec \in Nat /\ m.suffix \in Nat /\ n.suffix \in Nat
  BY NamesAreNumbers
<1>2. m.sec # n.sec \/ m.suffix # n.suffix
  BY DEF Names
<1> QED
  BY <1>1, <1>2 DEF Less

LEMMA OrderInductive ==
    ASSUME StoreExplained, StoreExplained', ListingOrdered, [HistoryNext]_historyAndReaderVars
    PROVE  ListingOrdered'
<1> USE DEF ListingOrdered
<1>1. [Next]_vars
  BY DEF HistoryNext, ReaderStep, ReadDir, ReadDirFails, ReadNext, Listed, historyAndReaderVars
<1>2. PublishedNames \subseteq PublishedNames'
  BY <1>1, EntryStaysExplained
<1>3. CASE UNCHANGED <<unread, listing>> /\ (reader' = "idle" => reader = "idle")
  BY <1>2, <1>3
<1>4. CASE ReadDir
  <2>1. unread' = Visible /\ listing' = <<>> /\ reader' = "reading"
    BY <1>4 DEF ReadDir
  <2>2. Visible \subseteq PublishedNames
    BY DEF StoreExplained, RotationExplained
  <2> QED
    BY <1>2, <2>1, <2>2
<1>5. CASE ReadNext
  <2>1. PICK n \in unread : /\ NewerIn(n, unread) = {}
                           /\ listing' = Append(listing, [name |-> n, of |-> LoadRun(n)])
                           /\ unread' = unread \ {n}
    BY <1>5 DEF ReadNext
  <2>2. PICK e : e = [name |-> n, of |-> LoadRun(n)] /\ e \in Entry
    BY LoadRunExplained
  <2>3. \A m \in unread' : Less(m, n)
    <3> SUFFICES ASSUME NEW m \in unread, m # n PROVE Less(m, n)
      BY <2>1
    <3>1. m \in Names /\ n \in Names
      BY DEF PublishedNames, StoreExplained, TypeOK, Line
    <3>2. ~Less(n, m)
      BY <2>1 DEF NewerIn
    <3> QED
      BY <3>1, <3>2, NamesCompare
  <2>4. /\ listing' = Append(listing, e) /\ listing' \in Seq(Entry) /\ e.name = n
        /\ reader' = "reading"
    BY <1>5, <2>1, <2>2 DEF ReadNext
  <2>5. /\ Len(listing) \in Nat /\ DOMAIN listing = 1..Len(listing)
        /\ DOMAIN listing' = 1..(Len(listing) + 1)
        /\ \A i \in DOMAIN listing : listing'[i] = listing[i]
        /\ listing'[Len(listing) + 1] = e
    BY <2>2, <2>4
  <2>6. \A i \in DOMAIN listing' : i \in DOMAIN listing \/ i = Len(listing) + 1
    BY <2>5
  <2>7. \A i \in DOMAIN listing' : listing'[i].name \in PublishedNames'
    BY <1>2, <2>4, <2>5, <2>6
  <2>8. \A i, j \in DOMAIN listing' : i < j => Less(listing'[j].name, listing'[i].name)
    <3> SUFFICES ASSUME NEW i \in DOMAIN listing', NEW j \in DOMAIN listing', i < j
                 PROVE  Less(listing'[j].name, listing'[i].name)
      OBVIOUS
    <3>1. i \in DOMAIN listing
      BY <2>5
    <3>2. CASE j \in DOMAIN listing
      BY <2>5, <3>1, <3>2
    <3>3. CASE j = Len(listing) + 1
      BY <2>1, <2>4, <2>5, <3>1, <3>3
    <3> QED
      BY <2>6, <3>2, <3>3
  <2>9. \A i \in DOMAIN listing' : \A m \in unread' : Less(m, listing'[i].name)
    BY <2>1, <2>3, <2>4, <2>5, <2>6
  <2> QED
    BY <1>2, <2>1, <2>4, <2>7, <2>8, <2>9
<1>6. CASE ReadDirFails \/ Listed
  BY <1>3, <1>6 DEF ReadDirFails, Listed
<1>7. CASE UNCHANGED readerVars
  BY <1>3, <1>7 DEF readerVars
<1> QED
  BY <1>4, <1>5, <1>6, <1>7 DEF HistoryNext, ReaderStep, historyAndReaderVars

(* A saver that is done is left alone. *)
LEMMA SavedStays ==
    ASSUME TypeOK, TypeOK', [Next]_vars, NEW s \in Savers, At(s, "saved")
    PROVE  /\ At(s, "saved")' /\ NameOf(s)' = NameOf(s)
           /\ Kept(s)' => Kept(s)
<1>1. UNCHANGED <<second, maxRuns>> /\ published \subseteq published'
  BY DEF Next, SaveStep, BeginSave, StatName, TooManyNamed, FailEarly, OpenTmp, WriteTmp, WriteFails,
     RenameTmp, RenameFails, AppendIndex, ListDir, RemoveOne, PruneRead, PruneReadFails, PruneWrite, PruneRename,
     MaintenanceFails, Crash, Idles, vars
<1>2. pc'[s] = pc[s] /\ suffix'[s] = suffix[s]
  <2>1. CASE UNCHANGED <<pc, suffix>>
    BY <2>1
  <2>2. ASSUME NEW t \in Savers, SaveStep(t) \/ Crash(t) PROVE pc'[s] = pc[s] /\ suffix'[s] = suffix[s]
    <3>1. t # s
      BY <2>2 DEF SaveStep, BeginSave, StatName, TooManyNamed, FailEarly, OpenTmp, WriteTmp,
         WriteFails, RenameTmp, RenameFails, AppendIndex, ListDir, RemoveOne, PruneRead, PruneReadFails, PruneWrite,
         PruneRename, MaintenanceFails, Crash, Active, Over
    <3>2. pc' = pc \/ \E p : pc' = [pc EXCEPT ![t] = p]
      BY <2>2 DEF SaveStep, BeginSave, StatName, TooManyNamed, FailEarly, OpenTmp, WriteTmp,
         WriteFails, RenameTmp, RenameFails, AppendIndex, ListDir, RemoveOne, PruneRead, PruneReadFails, PruneWrite,
         PruneRename, MaintenanceFails, Crash, Leave
    <3>3. suffix' = suffix \/ \E k : suffix' = [suffix EXCEPT ![t] = k]
      BY <2>2 DEF SaveStep, BeginSave, StatName, TooManyNamed, FailEarly, OpenTmp, WriteTmp,
         WriteFails, RenameTmp, RenameFails, AppendIndex, ListDir, RemoveOne, PruneRead, PruneReadFails, PruneWrite,
         PruneRename, MaintenanceFails, Crash, Leave
    <3> QED
      BY <3>1, <3>2, <3>3 DEF TypeOK
  <2> QED
    BY <2>1, <2>2 DEF Next, Idles, vars, procVars
<1>3. LaterRuns(s) <= LaterRuns(s)' /\ LaterRuns(s) \in Nat /\ LaterRuns(s)' \in Nat
  <2> DEFINE before == {t \in Publishers : second[t] > second[s]}
             after == {t \in Publishers' : second[t] > second[s]}
  <2>1. before \subseteq after /\ after \subseteq Savers
    BY <1>1 DEF Publishers, TypeOK, Line
  <2>2. IsFiniteSet(after)
    BY <2>1, SaversAssumption, FS_Subset
  <2>3. LaterRuns(s) = Cardinality(before) /\ LaterRuns(s)' = Cardinality(after)
    BY <1>1 DEF LaterRuns
  <2> HIDE DEF before, after
  <2> QED
    BY <2>1, <2>2, <2>3, FS_Subset, FS_CardinalityType
<1>4. maxRuns \in Nat
  BY SettingsAssumption DEF TypeOK
<1> QED
  BY <1>1, <1>2, <1>3, <1>4 DEF NameOf, Kept, AloneInSecond

(* Of what rotation has to leave LoadRun reads the run. *)
LEMMA KeptIsRead ==
    ASSUME TypeOK, AcknowledgedReadable, NEW s \in Savers, At(s, "saved"), Kept(s)
    PROVE  NameOf(s) \in Visible /\ LoadRun(NameOf(s)) = s
<1>1. NameOf(s) \in Visible /\ content[file[NameOf(s)]] = {s}
  BY DEF AcknowledgedReadable, Kept
<1>2. Cardinality(content[file[NameOf(s)]]) = 1
  BY <1>1, FS_Singleton
<1> QED
  BY <1>1, <1>2 DEF LoadRun

LEMMA HeldInductive ==
    ASSUME StoreExplained, StoreExplained', AcknowledgedReadable, ListingOrdered, AcknowledgedHeld,
           [HistoryNext]_historyAndReaderVars
    PROVE  AcknowledgedHeld'
<1> USE DEF AcknowledgedHeld, StoreExplained
<1>1. CASE Next /\ UNCHANGED readerVars
  BY <1>1, SavedStays DEF readerVars
<1>2. ASSUME UNCHANGED vars
      PROVE  \A s \in Savers : /\ At(s, "saved")' = At(s, "saved") /\ NameOf(s)' = NameOf(s)
                               /\ Kept(s)' = Kept(s)
  BY <1>2 DEF vars, procVars, NameOf, Kept, AloneInSecond, LaterRuns, Publishers
<1>3. CASE ReadDir
  <2>1. /\ unread' = Visible /\ acknowledged' = {s \in Savers : At(s, "saved")}
        /\ reader' = "reading" /\ UNCHANGED vars
    BY <1>3 DEF ReadDir
  <2> QED
    BY <1>2, <2>1, KeptIsRead
<1>4. CASE ReadNext
  <2>1. PICK n \in unread : /\ listing' = Append(listing, [name |-> n, of |-> LoadRun(n)])
                           /\ unread' = unread \ {n}
    BY <1>4 DEF ReadNext
  <2>2. UNCHANGED <<vars, reader, acknowledged>> /\ reader = "reading"
    BY <1>4 DEF ReadNext
  <2>3. PICK e : e = [name |-> n, of |-> LoadRun(n)] /\ e \in Entry
    BY LoadRunExplained DEF ListingOrdered
  <2>4. /\ \A i \in DOMAIN listing : i \in DOMAIN listing' /\ listing'[i] = listing[i]
        /\ Len(listing) + 1 \in DOMAIN listing' /\ listing'[Len(listing) + 1] = e
    <3>1. listing \in Seq(Entry) /\ listing' = Append(listing, e)
      BY <2>1, <2>3 DEF ListingOrdered
    <3> QED
      BY <2>3, <3>1
  <2>5. ASSUME NEW s \in acknowledged, Kept(s)
        PROVE  \/ NameOf(s) \in unread'
               \/ \E i \in DOMAIN listing' : listing'[i] = [name |-> NameOf(s), of |-> s]
    <3>1. CASE n = NameOf(s)
      BY <2>3, <2>4, <2>5, <3>1, KeptIsRead
    <3>2. CASE n # NameOf(s)
      BY <2>1, <2>4, <2>5, <3>2
    <3> QED
      BY <3>1, <3>2
  <2> QED
    BY <1>2, <2>2, <2>5
<1>5. CASE ReadDirFails \/ Listed
  BY <1>2, <1>5 DEF ReadDirFails, Listed
<1>6. CASE UNCHANGED historyAndReaderVars
  BY <1>2, <1>6 DEF historyAndReaderVars, readerVars
<1> QED
  BY <1>1, <1>3, <1>4, <1>5, <1>6 DEF HistoryNext, ReaderStep

(* --limit does not cut off a run with fewer later ones. *)
LEMMA LimitSpares ==
    ASSUME TypeOK, RotationExplained, PublishersExplained, ListingOrdered,
           NEW s \in Savers, At(s, "saved"), AloneInSecond(s), LaterRuns(s) < Limit,
           NEW i \in DOMAIN listing, listing[i].name = NameOf(s)
    PROVE  i <= Limit
<1> DEFINE Newer == NewerIn(NameOf(s), PublishedNames)
           above == [j \in 1..(i - 1) |-> listing[j].name]
<1>1. LineOf(s) \in published
  BY DEF PublishersExplained, Unpublished
<1>2. Cardinality(Newer) <= LaterRuns(s)
  BY <1>1, NewerAreLater
<1>3. IsFiniteSet(Newer) /\ Cardinality(Newer) \in Nat
  BY FS_Subset, FS_CardinalityType DEF RotationExplained, NewerIn
<1>4. LaterRuns(s) \in Nat
  BY LaterRunsType
<1>5. i \in Nat \ {0} /\ DOMAIN listing = 1..Len(listing) /\ Len(listing) \in Nat
  BY DEF ListingOrdered
<1>6. \A j \in 1..(i - 1) : j \in DOMAIN listing /\ j < i
  BY <1>5
<1>7. above \in [1..(i - 1) -> Newer]
  BY <1>6 DEF ListingOrdered, NewerIn
<1>8. \A j, k \in 1..(i - 1) : j # k => above[j] # above[k]
  <2>1. \A j, k \in 1..(i - 1) : j < k => above[j] # above[k]
    <3> SUFFICES ASSUME NEW j \in 1..(i - 1), NEW k \in 1..(i - 1), j < k,
                        listing[j].name = listing[k].name
                 PROVE  FALSE
      OBVIOUS
    <3>1. Less(listing[k].name, listing[j].name) /\ listing[j].name \in Names
      BY <1>6 DEF ListingOrdered, PublishedNames, TypeOK, Line
    <3> QED
      BY <3>1, NamesAreNumbers DEF Less
  <2> QED
    BY <1>5, <2>1
<1>9. IsFiniteSet(1..(i - 1)) /\ Cardinality(1..(i - 1)) = i - 1
  <2>1. 1 \in Int /\ i - 1 \in Int /\ (1 > i - 1 => i - 1 = 0) /\ (i - 1) - 1 + 1 = i - 1
    BY <1>5
  <2> QED
    BY <2>1, FS_Interval
<1>10. ~(Cardinality(Newer) < i - 1)
  <2> SUFFICES ASSUME Cardinality(Newer) < i - 1 PROVE FALSE
    OBVIOUS
  <2>1. PICK j, k \in 1..(i - 1) : j # k /\ above[j] = above[k]
    <3> DEFINE places == 1..(i - 1)
    <3>1. IsFiniteSet(places) /\ Cardinality(Newer) < Cardinality(places)
      BY <1>9
    <3>2. above \in [places -> Newer]
      BY <1>7
    <3> HIDE DEF above, Newer, places
    <3>3. \E j, k \in places : j # k /\ above[j] = above[k]
      BY <1>3, <3>1, <3>2, FS_PigeonHole
    <3> QED
      BY <3>3 DEF places
  <2> QED
    BY <1>8, <2>1
<1> QED
  BY <1>2, <1>3, <1>4, <1>5, <1>10, LimitAssumption

(* What was acknowledged before a listing began is in it.                  *)
THEOREM ShowsAcknowledgedCorrect == HistorySpec => []ShowsAcknowledged
<1>1. Spec => [](StoreExplained /\ AcknowledgedReadable /\ PublishersExplained)
  BY TypeCorrect, RotationCorrect, ArtifactsExplainedCorrect, ContentCorrect, PublishersCorrect,
     AcknowledgedReadableCorrect, PTL DEF StoreExplained
<1>2. HistoryInit => ListingOrdered /\ AcknowledgedHeld
  BY DEF HistoryInit, ReaderInit, ListingOrdered, AcknowledgedHeld
<1>3. /\ StoreExplained /\ StoreExplained' /\ ListingOrdered
      /\ [HistoryNext]_historyAndReaderVars
      => ListingOrdered'
  BY OrderInductive
<1>4. /\ StoreExplained /\ StoreExplained' /\ AcknowledgedReadable /\ ListingOrdered /\ AcknowledgedHeld
      /\ [HistoryNext]_historyAndReaderVars
      => AcknowledgedHeld'
  BY HeldInductive
<1>5. StoreExplained /\ PublishersExplained /\ ListingOrdered /\ AcknowledgedHeld => ShowsAcknowledged
  <2> SUFFICES ASSUME StoreExplained, PublishersExplained, ListingOrdered, AcknowledgedHeld,
                      NEW s \in acknowledged, reader = "listed", AloneInSecond(s),
                      Limit = 0 \/ LaterRuns(s) < Limit, maxRuns = 0 \/ LaterRuns(s) < maxRuns
               PROVE  \E i \in DOMAIN Shown : Shown[i] = [name |-> NameOf(s), of |-> s]
    BY DEF ShowsAcknowledged
  <2>1. PICK i \in DOMAIN listing : listing[i] = [name |-> NameOf(s), of |-> s]
    BY DEF AcknowledgedHeld, Kept
  <2>2. /\ listing \in Seq(Entry) /\ DOMAIN listing = 1..Len(listing) /\ Len(listing) \in Nat
        /\ i \in Nat /\ i >= 1
    BY DEF ListingOrdered
  <2>3. CASE Limit = 0 \/ Len(listing) <= Limit
    BY <2>1, <2>3 DEF Shown
  <2>4. CASE Limit # 0 /\ ~(Len(listing) <= Limit)
    <3>1. i <= Limit
      BY <2>1, <2>4, LimitSpares DEF AcknowledgedHeld, StoreExplained
    <3>2. Shown = SubSeq(listing, 1, Limit)
      BY <2>4 DEF Shown
    <3>3. i \in DOMAIN SubSeq(listing, 1, Limit) /\ SubSeq(listing, 1, Limit)[i] = listing[i]
      BY <2>2, <2>4, <3>1, LimitAssumption
    <3> QED
      BY <2>1, <3>2, <3>3
  <2> QED
    BY <2>3, <2>4
<1> QED
  BY <1>1, <1>2, <1>3, <1>4, <1>5, StoreUnaffected, PTL DEF HistorySpec
=============================================================================
