------------------------------ MODULE RunStore ------------------------------
(***************************************************************************)
(* JSONStore.SaveRun: processes that save a run each into one directory,   *)
(* and rotate it.  Nothing in the store locks: a process may be overtaken  *)
(* between any two calls to the file system, and may die there.            *)
(*                                                                         *)
(* A file name is the start of the run, to the second, and a collision     *)
(* suffix.  `second' stands for the whole prefix, collection name included.*)
(* A file is an inode, named by the process that created it; its content   *)
(* is the set of processes whose bytes are in it: {} truncated, {s} the    *)
(* artifact of s, two of them a mixture nobody can parse.                  *)
(***************************************************************************)
EXTENDS Integers, Sequences, FiniteSets

CONSTANTS
    Savers,       \* processes, each with one run to save
    Seconds,      \* the seconds runs may start in
    MaxSuffix,    \* last collision suffix tried (999 in the code)
    Settings,     \* values of artifacts.max_runs to consider, 0: unlimited,
                  \* whether a process may save while another one does, and
                  \* which processes there are
    None          \* no inode

ASSUME SaversAssumption == IsFiniteSet(Savers)
ASSUME SecondsAssumption == Seconds \subseteq Nat
ASSUME SuffixAssumption == MaxSuffix \in Nat
ASSUME SettingsAssumption == Settings \subseteq [maxRuns: Nat, overlap: BOOLEAN, savers: SUBSET Savers]
ASSUME NoneAssumption == None \notin Savers

VARIABLES
    second,      \* when each process' run started
    maxRuns,     \* artifacts.max_runs
    overlap,     \* whether saves overlap
    pc,          \* where each process is in SaveRun
    suffix,      \* collision suffix it looks at, then uses
    inode,       \* the temporary file it has open
    doomed,      \* the names its rotation decided to remove
    pending,     \* those it has not removed yet
    lines,       \* index lines it is about to write back
    logged,      \* processes that logged an index or rotation error
    tmp, file,   \* the directory: <name>.json.tmp and <name>.json
    content,     \* content of the inodes
    index,       \* index.jsonl: a line is a name and who appended it
    indexTmp,    \* index.jsonl.tmp: a set of lines, if it exists
    published,   \* history: the names renamed into place, and by whom
    last,        \* history: who did so last
    unpruned     \* history: whether a rotation could not read the index
                 \* (kept for saves that do not overlap)

procVars == <<pc, suffix, inode, doomed, pending, lines, logged>>
dirVars == <<tmp, file, content, index, indexTmp>>
fixed == <<second, maxRuns, overlap>>
historyVars == <<published, last, unpruned>>
vars == <<fixed, procVars, dirVars, historyVars>>

Suffixes == {0} \cup 2..MaxSuffix      \* 0: the plain name
Names == [sec: Seconds, suffix: Suffixes]
Line == [name: Names, by: Savers]
NoIndexTmp == {<<>>}                   \* not a set of lines

NameOf(s) == [sec |-> second[s], suffix |-> suffix[s]]
Visible == {n \in Names : file[n] # None}

(* Mutant: names are ordered by their suffix first. *)
LessBySuffix(a, b) == a.suffix < b.suffix \/ (a.suffix = b.suffix /\ a.sec < b.sec)

(* runFileLess. *)
Less(a, b) == a.sec < b.sec \/ (a.sec = b.sec /\ a.suffix < b.suffix)

NewerIn(n, S) == {m \in S : Less(n, m)}

(* Mutant: one artifact too many is removed. *)
OldestAndOne(S) == {n \in S : Cardinality(NewerIn(n, S)) >= maxRuns - 1}

(* Mutant: one artifact too many is kept. *)
OldestButOne(S) == {n \in S : Cardinality(NewerIn(n, S)) > maxRuns}

Oldest(S) == {n \in S : Cardinality(NewerIn(n, S)) >= maxRuns}

At(s, p) == pc[s] = p
Goto(s, p) == pc' = [pc EXCEPT ![s] = p]
Over(s) == pc[s] \in {"absent", "saved", "failed", "crashed"}
Active(s) == ~(Over(s) \/ At(s, "idle"))
Logs(s) == logged' = logged \cup {s}

(* A call that does not return an id: its local variables go with it.      *)
Leave(s, p) ==
    /\ Goto(s, p)
    /\ suffix' = [suffix EXCEPT ![s] = 0]
    /\ inode' = [inode EXCEPT ![s] = None]
    /\ doomed' = [doomed EXCEPT ![s] = {}]
    /\ pending' = [pending EXCEPT ![s] = {}]
    /\ lines' = [lines EXCEPT ![s] = {}]
    /\ UNCHANGED logged

Init ==
    /\ second \in [Savers -> Seconds]
    /\ \E setting \in Settings :
        /\ maxRuns = setting.maxRuns
        /\ overlap = setting.overlap
        /\ pc = [s \in Savers |-> IF s \in setting.savers THEN "idle" ELSE "absent"]
    /\ suffix = [s \in Savers |-> 0]
    /\ inode = [s \in Savers |-> None]
    /\ doomed = [s \in Savers |-> {}]
    /\ pending = [s \in Savers |-> {}]
    /\ lines = [s \in Savers |-> {}]
    /\ logged = {}
    /\ tmp = [n \in Names |-> None]
    /\ file = [n \in Names |-> None]
    /\ content = [s \in Savers |-> {}]
    /\ index = {}
    /\ indexTmp = NoIndexTmp
    /\ published = {}
    /\ last = None
    /\ unpruned = FALSE

-----------------------------------------------------------------------------
(* Choosing a name and writing the artifact. *)

BeginSave(s) ==
    /\ At(s, "idle")
    /\ overlap \/ ~\E t \in Savers : Active(t)
    /\ Goto(s, "stat")
    /\ UNCHANGED <<fixed, suffix, inode, doomed, pending, lines, logged, dirVars, historyVars>>

(* uniqueRunFilename: one stat; the next suffix if the name is taken.      *)
NextSuffix(k) == IF k = 0 THEN 2 ELSE k + 1

StatName(s) ==
    /\ At(s, "stat")
    /\ file[NameOf(s)] # None => NextSuffix(suffix[s]) <= MaxSuffix
    /\ IF file[NameOf(s)] = None
       THEN Goto(s, "open") /\ UNCHANGED suffix
       ELSE suffix' = [suffix EXCEPT ![s] = NextSuffix(@)] /\ UNCHANGED pc
    /\ UNCHANGED <<fixed, inode, doomed, pending, lines, logged, dirVars, historyVars>>

TooManyNamed(s) ==
    /\ At(s, "stat")
    /\ file[NameOf(s)] # None
    /\ NextSuffix(suffix[s]) > MaxSuffix
    /\ Leave(s, "failed")
    /\ UNCHANGED <<fixed, dirVars, historyVars>>

(* mkdir, a stat, redaction, the check for secrets, marshalling or opening *)
(* the file fails: nothing has been written, so one place stands for all.  *)
FailEarly(s) ==
    /\ At(s, "open")
    /\ Leave(s, "failed")
    /\ UNCHANGED <<fixed, dirVars, historyVars>>

(* Mutant: the artifact is written in place. *)
OpenInPlace(s) ==
    /\ At(s, "open")
    /\ inode' = [inode EXCEPT ![s] = s]
    /\ tmp' = [tmp EXCEPT ![NameOf(s)] = s]
    /\ file' = [file EXCEPT ![NameOf(s)] = s]
    /\ content' = [content EXCEPT ![s] = {}]
    /\ Goto(s, "write")
    /\ UNCHANGED <<fixed, suffix, doomed, pending, lines, logged, index, indexTmp, historyVars>>

(* os.WriteFile opens with O_CREATE|O_TRUNC, then writes. *)
OpenTmp(s) ==
    /\ At(s, "open")
    /\ LET i == IF tmp[NameOf(s)] = None THEN s ELSE tmp[NameOf(s)] IN
        /\ inode' = [inode EXCEPT ![s] = i]
        /\ content' = [content EXCEPT ![i] = {}]
        /\ tmp' = [tmp EXCEPT ![NameOf(s)] = i]
    /\ Goto(s, "write")
    /\ UNCHANGED <<fixed, suffix, doomed, pending, lines, logged, file, index, indexTmp, historyVars>>

(* What another process wrote since the truncation shows where it is longer. *)
WriteTmp(s) ==
    /\ At(s, "write")
    /\ \E bytes \in {{s}, content[inode[s]] \cup {s}} :
        content' = [content EXCEPT ![inode[s]] = bytes]
    /\ inode' = [inode EXCEPT ![s] = None]
    /\ Goto(s, "rename")
    /\ UNCHANGED <<fixed, suffix, doomed, pending, lines, logged, tmp, file, index, indexTmp, historyVars>>

(* The temporary file stays behind. *)
WriteFails(s) ==
    /\ At(s, "write")
    /\ Leave(s, "failed")
    /\ UNCHANGED <<fixed, dirVars, historyVars>>

RenameTmp(s) ==
    /\ At(s, "rename")
    /\ tmp[NameOf(s)] # None
    /\ file' = [file EXCEPT ![NameOf(s)] = tmp[NameOf(s)]]
    /\ tmp' = [tmp EXCEPT ![NameOf(s)] = None]
    /\ published' = published \cup {[name |-> NameOf(s), by |-> s]}
    /\ last' = s
    /\ Goto(s, "index")
    /\ UNCHANGED <<fixed, suffix, inode, doomed, pending, lines, logged, content, index, indexTmp, unpruned>>

(* Always when another process renamed the temporary file away. *)
RenameFails(s) ==
    /\ At(s, "rename")
    /\ tmp' = [tmp EXCEPT ![NameOf(s)] = None]
    /\ Leave(s, "failed")
    /\ UNCHANGED <<fixed, file, content, index, indexTmp, historyVars>>

-----------------------------------------------------------------------------
(* The index and the rotation: their errors are logged, the run is saved.  *)

AfterIndex == IF maxRuns > 0 THEN "list" ELSE "saved"

(* Open and write in one step: a line that goes to an index that has been  *)
(* replaced in between is lost as if it had come before the replacement.   *)
AppendIndex(s) ==
    /\ At(s, "index")
    /\ \/ index' = index \cup {[name |-> NameOf(s), by |-> s]} /\ UNCHANGED logged
       \/ Logs(s) /\ UNCHANGED index
    /\ Goto(s, AfterIndex)
    /\ UNCHANGED <<fixed, suffix, inode, doomed, pending, lines, tmp, file, content, indexTmp, historyVars>>

ListDir(s) ==
    /\ At(s, "list")
    /\ doomed' = [doomed EXCEPT ![s] = Oldest(Visible)]
    /\ pending' = [pending EXCEPT ![s] = Oldest(Visible)]
    /\ Goto(s, IF Oldest(Visible) = {} THEN "saved" ELSE "remove")
    /\ UNCHANGED <<fixed, suffix, inode, lines, logged, dirVars, historyVars>>

RemoveOne(s) ==
    /\ At(s, "remove")
    /\ \E n \in pending[s] :
        /\ \A m \in pending[s] : m = n \/ Less(n, m)
        /\ pending' = [pending EXCEPT ![s] = @ \ {n}]
        /\ \/ file' = [file EXCEPT ![n] = None] /\ UNCHANGED logged
           \/ Logs(s) /\ UNCHANGED file
    /\ UNCHANGED <<fixed, pc, suffix, inode, doomed, lines, tmp, content, index, indexTmp, historyVars>>

(* Mutant: the lines of removed artifacts are kept. *)
PruneNothing(s) ==
    /\ At(s, "remove")
    /\ pending[s] = {}
    /\ lines' = [lines EXCEPT ![s] = index]
    /\ doomed' = [doomed EXCEPT ![s] = {}]
    /\ Goto(s, "prune")
    /\ UNCHANGED <<fixed, suffix, inode, pending, logged, dirVars, historyVars>>

PruneRead(s) ==
    /\ At(s, "remove")
    /\ pending[s] = {}
    /\ lines' = [lines EXCEPT ![s] = {l \in index : l.name \notin doomed[s]}]
    /\ doomed' = [doomed EXCEPT ![s] = {}]
    /\ Goto(s, "prune")
    /\ UNCHANGED <<fixed, suffix, inode, pending, logged, dirVars, historyVars>>

(* An index that is not there, or cannot be read, is left as it is: the    *)
(* call returns without a word in the log.                                 *)
PruneReadFails(s) ==
    /\ At(s, "remove")
    /\ pending[s] = {}
    /\ doomed' = [doomed EXCEPT ![s] = {}]
    /\ unpruned' = ~overlap
    /\ Goto(s, "saved")
    /\ UNCHANGED <<fixed, suffix, inode, pending, lines, logged, dirVars, published, last>>

PruneWrite(s) ==
    /\ At(s, "prune")
    /\ indexTmp' = lines[s]
    /\ lines' = [lines EXCEPT ![s] = {}]
    /\ Goto(s, "swap")
    /\ UNCHANGED <<fixed, suffix, inode, doomed, pending, logged, tmp, file, content, index, historyVars>>

PruneRename(s) ==
    /\ At(s, "swap")
    /\ indexTmp # NoIndexTmp
    /\ index' = indexTmp
    /\ indexTmp' = NoIndexTmp
    /\ Goto(s, "saved")
    /\ UNCHANGED <<fixed, suffix, inode, doomed, pending, lines, logged, tmp, file, content, historyVars>>

(* The directory cannot be read, or the index written or renamed. *)
MaintenanceFails(s) ==
    /\ pc[s] \in {"list", "prune", "swap"}
    /\ Logs(s)
    /\ lines' = [lines EXCEPT ![s] = {}]
    /\ indexTmp' = IF At(s, "swap") THEN NoIndexTmp ELSE indexTmp
    /\ Goto(s, "saved")
    /\ UNCHANGED <<fixed, suffix, inode, doomed, pending, tmp, file, content, index, historyVars>>

-----------------------------------------------------------------------------
Crash(s) ==
    /\ Active(s)
    /\ Leave(s, "crashed")
    /\ UNCHANGED <<fixed, dirVars, historyVars>>

SaveStep(s) ==
    \/ BeginSave(s)
    \/ StatName(s)
    \/ TooManyNamed(s)
    \/ FailEarly(s)
    \/ OpenTmp(s)
    \/ WriteTmp(s)
    \/ WriteFails(s)
    \/ RenameTmp(s)
    \/ RenameFails(s)
    \/ AppendIndex(s)
    \/ ListDir(s)
    \/ RemoveOne(s)
    \/ PruneRead(s)
    \/ PruneReadFails(s)
    \/ PruneWrite(s)
    \/ PruneRename(s)
    \/ MaintenanceFails(s)

Idles == (\A s \in Savers : Over(s)) /\ UNCHANGED vars

Next == (\E s \in Savers : SaveStep(s) \/ Crash(s)) \/ Idles

Spec == Init /\ [][Next]_vars

-----------------------------------------------------------------------------
(* Properties. *)

TypeOK ==
    /\ second \in [Savers -> Seconds]
    /\ \E setting \in Settings : maxRuns = setting.maxRuns /\ overlap = setting.overlap
    /\ pc \in [Savers -> {"absent", "idle", "stat", "open", "write", "rename", "index", "list", "remove",
                          "prune", "swap", "saved", "failed", "crashed"}]
    /\ suffix \in [Savers -> Suffixes]
    /\ inode \in [Savers -> Savers \cup {None}]
    /\ doomed \in [Savers -> SUBSET Names]
    /\ pending \in [Savers -> SUBSET Names]
    /\ lines \in [Savers -> SUBSET Line]
    /\ logged \subseteq Savers
    /\ tmp \in [Names -> Savers \cup {None}]
    /\ file \in [Names -> Savers \cup {None}]
    /\ content \in [Savers -> SUBSET Savers]
    /\ index \subseteq Line
    /\ indexTmp \subseteq Line \/ indexTmp = NoIndexTmp
    /\ published \subseteq Line
    /\ last \in Savers \cup {None}
    /\ unpruned \in BOOLEAN

PublishedNames == {l.name : l \in published}

Publishers == {l.by : l \in published}

AloneInSecond(s) == \A t \in Savers : second[t] = second[s] => t = s

(* How many runs that started later have been renamed into place. *)
LaterRuns(s) == Cardinality({t \in Publishers : second[t] > second[s]})

(* Whoever reads an artifact of a run that shares its second with no other *)
(* reads all of it, and of that run, whatever else is being saved, has     *)
(* crashed, or failed half way through a write; and no artifact, of shared *)
(* seconds too, holds a byte of a run of another second                    *)
(* (jsonstore.go:178-195).                                                 *)
ArtifactsWhole ==
    \A n \in Visible :
        /\ \A s \in Savers : AloneInSecond(s) /\ n.sec = second[s] => content[file[n]] = {s}
        /\ \A t \in content[file[n]] : second[t] = n.sec

(* However rotations overlap and wherever they die, they never remove one  *)
(* of the newest max_runs names ever published, even when they work from a *)
(* stale listing of the directory (jsonstore.go:299-326).                  *)
NewestSurvive ==
    \A n \in PublishedNames :
        maxRuns = 0 \/ Cardinality(NewerIn(n, PublishedNames)) < maxRuns => n \in Visible

(* When the dust settles no more than max_runs artifacts are left, however *)
(* the saves overlapped, unless a rotation died or logged that it failed   *)
(* (jsonstore.go:203-207).                                                 *)
RotationBounded ==
    /\ maxRuns > 0
    /\ logged = {}
    /\ \A s \in Savers : pc[s] \in {"absent", "idle", "saved", "failed"}
    => Cardinality(Visible) <= maxRuns

(* The id SaveRun returned names the run it saved, until max_runs runs of  *)
(* later seconds were renamed into place (jsonstore.go:209, reader.go:81). *)
AcknowledgedReadable ==
    \A s \in Savers :
        /\ At(s, "saved")
        /\ AloneInSecond(s)
        /\ maxRuns = 0 \/ LaterRuns(s) < maxRuns
        => NameOf(s) \in Visible /\ content[file[NameOf(s)]] = {s}

(* Saves that do not overlap, and in which nothing dies or is logged as an *)
(* error, leave an index that lists every file of the directory, and only  *)
(* them if each rotation could read the index: a line without a file is of *)
(* a run that rotation pushed out (jsonstore.go:197-207, 361-393).         *)
IndexAgrees ==
    /\ ~overlap
    /\ logged = {}
    /\ \A s \in Savers : pc[s] \in {"absent", "idle", "saved", "failed"}
    => LET listed == {l.name : l \in index} IN
        /\ Visible \subseteq listed
        /\ ~unpruned => listed = Visible
        /\ \A n \in listed \ Visible :
            maxRuns > 0 /\ Cardinality(NewerIn(n, PublishedNames)) >= maxRuns

-----------------------------------------------------------------------------
(* The store implements an archive of whole artifacts: a run that shares   *)
(* its second with no other appears in one step, never changes, and leaves *)
(* when max_runs later ones have been published (jsonstore.go:178-209).    *)
Archive == INSTANCE RunArchive WITH
    published <- {l.by : l \in published},
    archive <- {<<n.sec, content[file[n]]>> : n \in
                    {m \in Visible : \E s \in Savers : second[s] = m.sec /\ AloneInSecond(s)}},
    returned <- {s \in Savers : At(s, "saved")}

ImplementsArchive == Archive!Spec

-----------------------------------------------------------------------------
(* What the repository says and the store does not do. *)

(* "rotate removes the oldest run artifacts" (jsonstore.go:295): when runs *)
(* are saved one after the other and none has started later than the last  *)
(* one saved, that one is not removed.                                     *)
RemovesOldest ==
    /\ ~overlap
    /\ last # None
    /\ At(last, "saved")
    /\ \A n \in PublishedNames : n.sec <= second[last]
    => NameOf(last) \in Visible
=============================================================================
