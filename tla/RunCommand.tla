----------------------------- MODULE RunCommand -----------------------------
(***************************************************************************)
(* `lynix run' around the sequential engine: flags and workspace first,    *)
(* then Execute, then what is printed and written, then the exit code a    *)
(* pipeline acts on.                                                       *)
(***************************************************************************)
EXTENDS SeqRun

CONSTANT CommandOptions   \* --report, --format and masking settings to consider

ASSUME CommandAssumption ==
    CommandOptions \subseteq [junit: BOOLEAN, badFormat: BOOLEAN, secretCheck: BOOLEAN]

VARIABLES
    cmdOpts,    \* the command's own options
    cmd,        \* where the command is
    printed,    \* results went to stdout
    junit,      \* the JUnit report is on disk
    exit        \* the exit code, NoExit before

commandVars == <<cmdOpts, cmd, printed, junit, exit>>
allVars == <<vars, commandVars>>

NoExit == -1
ExitOK == 0
ExitAssertFailed == 1
ExitUsage == 2
ExitExecution == 3

CommandInit ==
    /\ Init
    /\ cmdOpts \in CommandOptions
    /\ cmd = "flags"
    /\ printed = FALSE
    /\ junit = FALSE
    /\ exit = NoExit

Exit(code) == cmd' = "exited" /\ exit' = code

(* Bad flags, no workspace, an unknown collection or environment. *)
BadUsage ==
    /\ cmd = "flags"
    /\ \E code \in {ExitUsage, ExitExecution} : Exit(code)
    /\ UNCHANGED <<vars, cmdOpts, printed, junit>>

CallExecute ==
    /\ cmd = "flags"
    /\ cmd' = "execute"
    /\ UNCHANGED <<vars, cmdOpts, printed, junit, exit>>

ExecuteRuns ==
    /\ cmd = "execute"
    /\ EngineStep
    /\ UNCHANGED commandVars

(* exitCodeFor: the context's error is an execution error; a load error or *)
(* a failed save has the kind its origin gave it.                          *)
CodesFor(o) == IF o = "interrupted" THEN {ExitExecution} ELSE {ExitUsage, ExitExecution}

(* What the run got to is printed unless it failed before it started.      *)
ExecuteFailed ==
    /\ cmd = "execute"
    /\ outcome \in {"error", "interrupted", "saveError"}
    /\ printed' = (outcome # "error" /\ (opts.dryRun \/ ~cmdOpts.badFormat))
    /\ \E code \in CodesFor(outcome) : Exit(code)
    /\ UNCHANGED <<vars, cmdOpts, junit>>

DryRunPrinted ==
    /\ cmd = "execute"
    /\ outcome = "done"
    /\ opts.dryRun
    /\ printed' = TRUE
    /\ Exit(ExitOK)
    /\ UNCHANGED <<vars, cmdOpts, junit>>

ExecuteSucceeded ==
    /\ cmd = "execute"
    /\ outcome \in {"done", "saved"}
    /\ ~opts.dryRun
    /\ cmd' = "check"
    /\ UNCHANGED <<vars, cmdOpts, printed, junit, exit>>

(* The second check for secrets, after the artifact has been saved. *)
CheckForSecrets ==
    /\ cmd = "check"
    /\ \/ cmdOpts.secretCheck /\ Exit(ExitUsage)
       \/ cmd' = "print" /\ UNCHANGED exit
    /\ UNCHANGED <<vars, cmdOpts, printed, junit>>

(* --format is looked at for the first time. *)
PrintRun ==
    /\ cmd = "print"
    /\ IF cmdOpts.badFormat
       THEN Exit(ExitUsage) /\ UNCHANGED printed
       ELSE cmd' = "report" /\ printed' = TRUE /\ UNCHANGED exit
    /\ UNCHANGED <<vars, cmdOpts, junit>>

WriteJUnit ==
    /\ cmd = "report"
    /\ \/ cmd' = "count" /\ junit' = cmdOpts.junit /\ UNCHANGED exit
       \/ cmdOpts.junit /\ Exit(ExitUsage) /\ UNCHANGED junit
    /\ UNCHANGED <<vars, cmdOpts, printed>>

(* Execution errors outrank assertion failures. *)
SomeError == \E i \in DOMAIN report : report[i].error # "none"

(* Mutant: a failed extraction is not a failure. *)
SomeVerdict == \E i \in DOMAIN report : report[i].error # "none" \/ ~report[i].passed

SomeFailure == \E i \in DOMAIN report : Failed(report[i])

(* Mutant: every failure is the API's. *)
OneForAll == IF ~SomeFailure THEN ExitOK ELSE ExitAssertFailed

CodeOfRun ==
    IF ~SomeFailure THEN ExitOK ELSE IF SomeError THEN ExitExecution ELSE ExitAssertFailed

CountFailures ==
    /\ cmd = "count"
    /\ Exit(CodeOfRun)
    /\ UNCHANGED <<vars, cmdOpts, printed, junit>>

(* run.timeout_seconds; the command's context is nobody's to cancel.       *)
ContextDone ==
    /\ cmd # "exited"
    /\ DeadlinePasses
    /\ UNCHANGED <<fixed, requestVars, runVars>>
    /\ UNCHANGED commandVars

CommandStep ==
    \/ BadUsage
    \/ CallExecute
    \/ ExecuteRuns
    \/ ExecuteFailed
    \/ DryRunPrinted
    \/ ExecuteSucceeded
    \/ CheckForSecrets
    \/ PrintRun
    \/ WriteJUnit
    \/ CountFailures

Exited == cmd = "exited"

CommandNext == CommandStep \/ ContextDone \/ (Exited /\ UNCHANGED allVars)

CommandSpec == CommandInit /\ [][CommandNext]_allVars

-----------------------------------------------------------------------------
(* Properties. *)

(* A pipeline that goes on at exit code 0 goes on over a whole run in which*)
(* each selected request was sent, answered and passed, whose results are  *)
(* printed, and whose artifact and JUnit report are written if they were   *)
(* asked for, whatever was retried or timed out on the way (run.go:124-204)*)
ZeroMeansPassed ==
    exit = ExitOK /\ ~opts.dryRun /\ opts.retries >= 0 =>
        /\ \A r \in coll.kept : r \in ReportedNames /\ ~Failed(ReportOf(r)) /\ sends[r] > 0
        /\ outcome = IF opts.store THEN "saved" ELSE "done"
        /\ printed
        /\ cmdOpts.junit => junit

(* Exit code 1 blames the API alone: the run was not cut short, every      *)
(* request that was sent was answered and is reported, and no other result *)
(* of the run is an error that outranks the failure                        *)
(* (cli-reference.md:17-18, exitcode.go:43-45, run.go:190-201).            *)
OneBlamesTheApi ==
    exit = ExitAssertFailed =>
        /\ outcome \in {"done", "saved"}
        /\ \A i \in DOMAIN report : report[i].error = "none"
        /\ \A r \in Requests : sends[r] > 0 =>
            r \in ReportedNames /\ ReportOf(r).status # 0
=============================================================================
