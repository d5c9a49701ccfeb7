------------------------------ MODULE RunReader ------------------------------
(***************************************************************************)
(* JSONStore.ListRuns and LoadRun beside the processes that save: `lynix   *)
(* runs list' reads the directory once, then the files one by one, while   *)
(* rotations remove them and renames replace them.  Reading changes        *)
(* nothing in the directory.                                               *)
(***************************************************************************)
EXTENDS RunStore

CONSTANTS
    Limit,      \* --limit of `runs list', 0: all
    Beside      \* bound: overlapping processes the reader is run beside

ASSUME LimitAssumption == Limit \in Nat
ASSUME BesideAssumption == Beside \in Nat

VARIABLES
    reader,      \* where the reader is: "idle", "reading", "listed", "failed",
                 \* or "away": no listing in this behaviour
    unread,      \* names it found and has not read
    listing,     \* what it has read, in the order it lists it
    acknowledged \* history: processes whose save had returned when it began

readerVars == <<reader, unread, listing, acknowledged>>
historyAndReaderVars == <<vars, readerVars>>

Entry == [name: Names, of: Savers \cup {None}]

(* LoadRun: not found, a parse error, or the artifact of one run.          *)
LoadRun(n) ==
    IF n \in Visible /\ Cardinality(content[file[n]]) = 1
    THEN CHOOSE s \in Savers : content[file[n]] = {s}
    ELSE None

ReaderInit ==
    /\ reader = IF overlap /\ Cardinality({s \in Savers : At(s, "idle")}) > Beside
                THEN "away" ELSE "idle"
    /\ unread = {}
    /\ listing = <<>>
    /\ acknowledged = {}

(* Mutant: temporary files are taken for artifacts. *)
ReadDirAndTmp ==
    /\ reader = "idle"
    /\ unread' = Visible \cup {n \in Names : tmp[n] # None}
    /\ acknowledged' = {s \in Savers : At(s, "saved")}
    /\ reader' = "reading"
    /\ UNCHANGED <<vars, listing>>

ReadDir ==
    /\ reader = "idle"
    /\ unread' = Visible
    /\ acknowledged' = {s \in Savers : At(s, "saved")}
    /\ reader' = "reading"
    /\ UNCHANGED <<vars, listing>>

ReadDirFails ==
    /\ reader = "idle"
    /\ reader' = "failed"
    /\ UNCHANGED <<vars, unread, listing, acknowledged>>

(* Mutant: oldest first. *)
ReadOldestNext ==
    /\ reader = "reading"
    /\ \E n \in unread :
        /\ \A m \in unread : n \notin NewerIn(m, unread)
        /\ listing' = Append(listing, [name |-> n, of |-> LoadRun(n)])
        /\ unread' = unread \ {n}
    /\ UNCHANGED <<vars, reader, acknowledged>>

(* The newest name not read yet; an artifact that cannot be read or parsed *)
(* becomes an "(unreadable)" entry.                                        *)
ReadNext ==
    /\ reader = "reading"
    /\ \E n \in unread :
        /\ NewerIn(n, unread) = {}
        /\ listing' = Append(listing, [name |-> n, of |-> LoadRun(n)])
        /\ unread' = unread \ {n}
    /\ UNCHANGED <<vars, reader, acknowledged>>

Listed ==
    /\ reader = "reading"
    /\ unread = {}
    /\ reader' = "listed"
    /\ UNCHANGED <<vars, unread, listing, acknowledged>>

(* What `runs list' prints. *)
Shown == IF Limit = 0 \/ Len(listing) <= Limit THEN listing ELSE SubSeq(listing, 1, Limit)

ReaderStep == ReadDir \/ ReadDirFails \/ ReadNext \/ Listed

HistoryInit == Init /\ ReaderInit

HistoryNext == (Next /\ UNCHANGED readerVars) \/ ReaderStep

HistorySpec == HistoryInit /\ [][HistoryNext]_historyAndReaderVars

-----------------------------------------------------------------------------
(* Properties. *)

(* A run whose save had returned when `runs list' was called is shown, and *)
(* as that run, unless --limit or max_runs later runs have pushed it out:  *)
(* no rotation in progress, crash or other broken artifact can hide it     *)
(* (reader.go:50-58).                                                      *)
ShowsAcknowledged ==
    \A s \in acknowledged :
        /\ reader = "listed"
        /\ AloneInSecond(s)
        /\ Limit = 0 \/ LaterRuns(s) < Limit
        /\ maxRuns = 0 \/ LaterRuns(s) < maxRuns
        => \E i \in DOMAIN Shown : Shown[i] = [name |-> NameOf(s), of |-> s]

(* An entry of a listing that runs share no second with is unreadable only *)
(* because max_runs newer names had been published by the time it was read *)
(* and rotated it away; a readable one is a run of that second             *)
(* (reader.go:53-57).                                                      *)
EntriesExplained ==
    \A i \in DOMAIN listing :
        LET e == listing[i] IN
        IF e.of # None
        THEN second[e.of] = e.name.sec
        ELSE \/ \E s, t \in Savers : s # t /\ second[s] = e.name.sec /\ second[t] = e.name.sec
             \/ maxRuns > 0 /\ Cardinality(NewerIn(e.name, PublishedNames)) >= maxRuns
=============================================================================
