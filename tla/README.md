# A verification of lynix

lynix runs a collection of HTTP requests written in YAML: it resolves
`{{variables}}`, sends each request (with delays and retries), judges the
response by assertions, extracts variables from it for the requests below, saves
the run as a JSON artifact and tells a pipeline by its exit code how it went.
This directory models what of that can go wrong in ways a unit test hardly
reaches: which request sees which value, what happens to a request when the run
is interrupted, retried or runs beside others, and what survives in a directory
that several processes save into. The sources are cited as paths under `src/`.

* [Inventory](#inventory) - the parts of the program and what makes each correct
* [Modules](#modules) - which module models which part, and how
* [Runs](#runs) - what TLC checks, with which bounds and which fairness
* [Proofs](#proofs) - what TLAPS proves, and along which argument
* [What the checks found](#what-the-checks-found)
* [What is not modelled](#what-is-not-modelled)
* [Plan](#plan)

## Inventory

The program is a CLI (`internal/cli`), use cases (`internal/usecase`), a domain
(`internal/domain`) and adapters (`internal/infra`). One process handles one
command. Concurrency is found in two places only: the goroutines of one level of
a parallel run, and several lynix processes in one workspace.

| component | state | operations | hard behaviour | what makes it correct |
|---|---|---|---|---|
| dependency graph, `domain/depgraph.go` | available names, remaining requests, levels | one level per turn; serialise what is left | references nobody can satisfy, cycles, names with several sources | each request planned once; never beside or before the only request above it that extracts what it needs; no needless level |
| run engine, sequential, `usecase/run_collection.go:34-294` | live variable map, results, schema cache | filter, loop, delay, resolve, send, retry, evaluate, record, save | context done at any point, partial failures, retries of a non-idempotent request | a request sees the latest value extracted above it; nothing begun vanishes; nothing cut short is saved; a resend only over an answer that may be retried |
| run engine, parallel, `usecase/run_collection.go:400-484` | levels, variable map, snapshot per level, one slot per request, errgroup | start a level, goroutines, merge, copy of the slots | interleaving, the first failure cancels siblings, context of the group against context of the run | values do not depend on scheduling; no goroutine is left behind; the same contract as the sequential engine |
| HTTP runner, `infra/httprunner` | HTTP client, cookie jar | resolve, build, send, read the body | answer against deadline; headers without a body | one class of error per outcome, never both retried and final |
| run results, `domain/run.go` | none | classify, `Failed`, `IsRetryable` | status and error both set | a failure is a failure wherever it is counted |
| variable resolver, `domain/vars_resolver.go` | compiled builtins | resolve text, headers, body, assertion values | missing names, nested structures | all parts resolve, or the request is not sent |
| assertions, `usecase/assert` | cache of patterns | status, latency, body, schema, JSONPath and header checks | numbers beyond a float64, negated checks on nothing, truncated bodies | a check passes only on what was read; none is left out; integers compare digit by digit; opposites never agree |
| extraction, `usecase/extract` | none | apply the rules one by one | partial extraction, values that are no strings | a rule that fails does not take others down; what is extracted is the value that arrived |
| run store, `infra/runstore/jsonstore.go` | `runs/*.json`, `*.json.tmp`, `index.jsonl` | save: name, write, rename, index, rotate, prune | processes that overlap, crashes between system calls, names used again | a visible artifact is whole; the newest survive rotation; what `SaveRun` acknowledged can be read |
| run store reader, `infra/runstore/reader.go` | none | list, load | files removed or broken between listing and reading | hides no run that was acknowledged, whatever happens to the others |
| validate, `usecase/validate_collection.go` | known names, position | check top to bottom | names known too early or too late; its idea of a source is not the graph's | accepts exactly what a run can resolve, and nothing the graph gets stuck on |
| run command, `cli/run.go`, `cli/exitcode.go` | options, output, exit code | call, check, print, JUnit, count | a step fails after the artifact is saved | exit code 0 only for a run that tested everything and passed |
| redaction, `infra/redaction` | masking rules, registered values | register, mask, check for secrets | values within one another; the same text raw, percent-encoded and as JSON; two implementations of what is sensitive | the check finds in what was masked only what masking does not look at; a secret leaves no rest; what is not secret stays |
| YAML, importers, workspace, configuration, other commands | none that changes | parse, look up, print | none beyond data | - |

How they interact: the run command loads the configuration and calls the engine
(`Execute`); the engine asks the loaders for the collection and the environment,
builds the graph if the run is parallel, and calls the resolver, the runner,
the assertions and the extraction for each request and the store once at the end. The
context the command makes (with `run.timeout_seconds`) is watched before each request,
in the delay, in flight and in the back-off. The parallel engine wraps it in the
context of an errgroup, so a request may be ended by its siblings. The store is
shared with other processes through the file system only, without a lock.

`PROJECT.json` has the full list of components with their status, the hazards of
this code line by line, and the map from every definition to the lines it models.

## Modules

```
Collection ── RequestRun ──┬── SeqRun ── RunCommand
     │                     └── ParRun ── (INSTANCE DepGraph)
     ├── RunContract   (implemented by SeqRun and by ParRun)
     ├── Validate
     └── DepGraph ──── Planning ── (INSTANCE Validate)

RunArchive   (implemented by RunStore)
RunStore ── RunReader        Redaction        Assertions
```

Each proof module extends the module it is about: `DepGraphProofs`, `PlanningProofs`
(over `DepGraphProofs`), `RequestRunProofs`, `SeqRunProofs` (the sequential engine and
the run command) and `ParRunProofs`, both over `RequestRunProofs` (the second
instantiates `DepGraphProofs`), `RunStoreProofs` (the store and its readers),
`AssertionsProofs`, `RedactionProofs`.

**Data.** A request is its index in the file. Text is abstracted to the set of
variables it refers to. A variable's value is where it came from: missing, seeded
(collection, environment or `--var`), or the request that extracted it. This is what lets
properties say *whose* value a request was sent with, rather than just that it
had one. An assertion passes or fails freely, except when a reference in an expected value
does not resolve: then all assertions of the request fail
(`run_collection.go:79-88`). A rule extracts or fails freely, but none extracts
from a body that is not there, nor from headers that are not there
(`run_collection.go:207-216`, `extract.go`).

**Collection** - `domain/collection.go` and what the engines ask of it: uses,
assertion references, extraction rules of body and headers, seeds, delays,
whether the built request is valid, what filters keep.

**DepGraph** - `BuildDepGraph`. `AddLevel` is a turn of its loop that finds ready
requests; `SerializeNext` is the inner loop that lays out what remains one by
one. `available`, `remaining` and `levels` are its local variables; a level is
sorted by index in the code, so a set stands for it.

**RequestRun** - the life of one request, used by both engines: `delay`
(`run_collection.go:169-179, 425-432`), then `runWithRetries` (250-294): the
check of the context, resolution, sending, the answer, the back-off. Every step
takes the context it watches and the variables it reads as parameters, since
the engines differ in exactly these. `Answers` is what a network may do:
a status, an error class, or both when the headers arrived and the body did not.
Go's `select` picks any ready case, so a finished timer and a done context are a
choice.

**SeqRun** - `Execute` without `--parallel`: `PrepareFails`/`FilterRequests`,
then the loop (`LoopSeesContextDone`, `BeginRequest`, `ResolveOnly` for a dry run,
`WorkOnRequest`, the three ways a request is recorded, `EndLoop`), then
`AfterLoop` and `SaveRun`. `env` is `vars`, `report` is `run.Results`.

**ParRun** - `executeParallel`: the graph, then per level `StartLevel` (the
snapshot), the goroutines' steps in any order, `EndLevel` (`Wait`, and the merge
of the variables in index order), `CopyResults`. `report` is the set of requests whose slots
`CopyResults` takes over: it goes through the slots by index, so their order says nothing more. `gctx` is the errgroup's
context: the first error a goroutine returns cancels it, and so does the end of the
run's context, whichever comes first.

**RunContract** - what `Execute` promises its caller however it schedules:
each kept request begins at most once, after its only sources above it
have settled, and the returned report holds only what settled, all of it unless
the run was interrupted. `SeqRun` and `ParRun` are shown to implement it by an
INSTANCE with a refinement mapping from their reports and slots.

**RunStore** - `SaveRun` by several processes into one directory, one action per
system call: stat of a name, open-and-truncate of the temporary file, write,
rename, append to the index, listing, each remove, and the read, write and rename
of the pruned index. A process may crash between any two. `RenameFails` and
`WriteFails` are the error returns; errors of index and rotation are logged
(`MaintenanceFails`) and the run counts as saved, as in the code, but for one that is not
even logged: an index that cannot be read is left as it is (`PruneReadFails`,
`jsonstore.go:365-368`). A file is an inode, so two processes
that opened the same temporary file write into the same one. `published`, `last`, `logged`
and `unpruned` are history variables: nothing reads them but the properties.
An append to the index is one step, since the properties do not
distinguish a lost line of a replaced index from one lost before.

**RunArchive** - what the store promises of a run alone in its second, without names,
files or indexes: `Publish` makes its artifact appear, `Evict` takes it away once `max_runs`
later runs were published, `Return` acknowledges what is published. `RunStore` implements it
by an INSTANCE that maps a name to the second its run started in and an inode to whose bytes it holds.

**RunReader** - `ListRuns` and `LoadRun` beside the savers: the directory is read in
one step, then one file per step, the newest name first, so renames and rotations
happen in between. A file that is gone or broken becomes an unreadable entry.
`Shown` is the listing after `--limit`. `acknowledged` is history: who had saved when
the reader began.

**Validate** - `ValidateCollection.Execute`: one action per request.

**Planning** - one collection under `Validate`, then under `DepGraph`: the two static
passes share no code and disagree on what a source is (`validate` leaves references
in assertion values out and walks top to bottom, the graph counts them and
ignores the order where it can).

**Redaction** - the redactor as `lynix run` uses it: `AddSecretsFromEnv`,
`AddSecretsFromVars`, `Redact` of a field of the result, `CheckForSecrets`. A text is
a sequence of symbols: letters, the placeholder, one letter that URLs and
JSON escape (raw and escaped), and one that stands for a credential of a known format. A
field is a set of leaves under paths of keys, so nested objects, queries, forms and
headers are one thing, and `RedactField` is what `Redact` does to each of them: mask by key, scrub by value,
in the order and on the form (raw or decoded) the code works on. A key is what it matches
(`class`) and a text of its own, since the check reads the serialized artifact, keys included,
while masking rewrites keys on some surfaces only. What the code loses is a kind of leaf: `rest` is what
decoding the first JSON value drops, `malformed` a pair `url.ParseQuery` refuses, which is
gone as soon as another pair of the query changes; `number` is a leaf no walk scrubs. The order among
values of one length is free, as `sort.Slice` is not stable and Go's maps have no order.
Registered values may hold the placeholder or an escape; the properties that fail for such values
say so.

**Assertions** - one response under `assert.Evaluate`, group by group in the order of
the code (status and latency, body, schema, JSONPath, headers), then
`extract.Apply` and `ApplyHeaders`. A text is what kind it is and of what (a word,
a number in plain or exponent notation, a rendered list): nothing is spelled out. The
two conversions to text, `ValueToString` of the assertions and `ExtractToString` of
the rules, are written from their two sources and compared. `Exact` stands for 2^53:
`Round` is what a float64 makes of an integer between `Exact` and `2 * Exact`. What a
pattern matches, which text contains which, and whether a body is JSON and
satisfies its schema are parts of the response or constants. In `RequestRun` the
verdict stays a free choice: the engines behave the same whatever it rests on.

**RunCommand** - `lynix run` around the sequential engine: flags, `Execute`, the
errors it returns, the second check for secrets, printing with its late check
of `--format`, the JUnit report, and the exit code. The command's context can
only be ended by its deadline: `root.go` installs no signal handler, so an
interrupt ends the process.

A definition commented *Mutant* is never used by the model: it is the definition
that follows it with a plausible bug, and a property in `PROJECT.json` names it as the bug
that breaks the property. They document what each property is sensitive to.

## Runs

| run | states | what it shows |
|---|---|---|
| `planning` | 1,017,784 | *all* collections of three requests over two variables, with seeds, header rules, assertion references and filters. Validate accepts exactly those whose references are given values above them; the graph plans each request once, sources first, nobody beside its source, as early as possible, and never gets stuck on what validate accepted |
| `sequential` | 663,414 | three collections, seven option sets, the context ended by the user or the deadline at any step: what requests see, what is recorded and saved, when requests are sent again, `Execute` returns, implements `RunContract` |
| `parallel` | 243,125 | five shapes of graph (fork, join, two sources side by side, a seeded name extracted again, unresolvable), every interleaving of goroutines, cancellation and fail-fast: values do not depend on scheduling, nothing is lost from a completed run, nobody cancels a sibling without `--fail-fast`, implements `RunContract` |
| `store` | 3,123,604 | three processes saving in turn with `max_runs` 0, 1 and 2, or two at once with 1, beside a process that lists them; and three at once without a reader: whole artifacts, the newest survive, the bound holds in the end, acknowledged runs can be read and are listed, unreadable entries have a reason, and saves in turn keep index and directory in step as far as the index can be read |
| `run_command` | 61,352 | all option sets of the command around two requests: what exit codes 0 and 1 tell a pipeline |
| `assertions` | 47,880 | 23 values and a miss, on both sides of 2^53 and of the exponent threshold, against six expected texts under all operators at once, with bodies cut off, no JSON, or refused by the schema: what passes and what cannot |
| `redaction` | 4,323,600 | secrets within one another, overlapping, escaped, short, common or with the placeholder in them, in texts and keys on every surface of a result, under twelve configurations: the check finds what masking does not look at and nothing else, a secret no other overlaps leaves no rest, and nothing innocent is lost but malformed pairs and what follows a JSON value |
| `parallel_interrupted`, `parallel_reseeded`, `store_reused_name`, `eq_after_extract`, `redaction_text` | | expected violations, see [below](#what-the-checks-found) |

**Bounds, and why they are enough.** `N = 3` requests: an ordering
mistake needs a source, a user of it, and a third request in between, beside
or after them. Two variables: a request that waits for two sources, and a name that
is shadowed while another is not. `retries` up to 1 with and without back-off:
the loop has one counter, so a second retry repeats the states of the first;
`-1` is in `run_command`, since no option check rejects it. Two seconds and three savers:
savers sharing a second collide in their names, and the third is before, after or
with them; `MaxSuffix` 2 or 3 instead of 999 makes running out of names happen.
`max_runs` 1 is the tightest rotation while processes overlap; 0, 1, 2 without
overlap. A listing beside overlapping saves is bounded by `Beside` to two of them, which
is what it takes to rename one file and rotate another during it; `Limit` 1 is the least `--limit` that can hide a run. In `assertions` 2^53 is 16 and the exponent threshold 10, so that 3, 12, 16, 17 and 18
are an integer below both, between them, the last exact one, one that
rounds and one that does not. In `redaction` a secret has at least two letters
(the code: four bytes), texts up to four symbols and a few of seven, where secrets follow
one another with something before and behind, and a field one leaf or two: masking
couples leaves through the query, form or document they share, and that takes two. Savers are symmetric, and symmetry is used only in runs without
liveness. Nothing else is bounded: the models have no state constraints.

**Fairness.** Engines: weak fairness on the engine's steps, and in `ParRun` on
each goroutine separately - the Go scheduler runs a runnable goroutine, timers
fire, and a request is answered or fails since the client has a timeout
(`runner.go:24`, 30 seconds unless configured). The user, the deadline and the
choice of an answer have none: `Returns` holds though the network may fail each time
and nobody cancels. The other modules have none: they state safety only, and a saver may die anywhere. A run that has stopped stutters,
so deadlock is checked everywhere.

**Assumptions of the properties.** Where a property excludes a case it names it:
`opts.retries >= 0` (a negative number sends nothing, see below), `~opts.dryRun`,
`AloneInSecond` (two processes in one second share a temporary file, see below), `WellOrdered` and
`SingleAssignment` for the equality of parallel and sequential values (without
them it is a finding), `logged = {}` (the code promises nothing about the bound
or the index once it logged that rotation failed), `~unpruned` for the lines an index may have too
many (a rotation that could not read it says nothing). `AcknowledgedReadable` counts as later
runs those that were renamed into place (`LaterRuns`). An errored result that stands for no
answer (`Placeholder`) states one attempt whatever was sent: `AttemptsAreSends` admits it only for a request
that was never sent, or in a run that was ended. In `Redaction`, `AllOn` (a flag that is off leaves to the check what it
does not mask), `NoValueHolds`
(see [Proofs](#proofs)), `Apart` (overlapping values, see below), and the fields in which texts are free for `ReplacedWhole`: in
a query, a form or a document what is scrubbed has been decoded before.

## Proofs

TLC checks three requests and two variables, three savers, a few responses; the
theorems hold for every finite `N`, every set of variables, collections, options,
answers and processes. They assume what the modules assume of their constants, by
name: `NAssumption` and `CollectionsAssumption` (well-formed collections),
`OptionsAssumption` and `AnswersAssumption` of `RequestRun`, and those of `RunStore`,
`Assertions` and `Redaction`. Each theorem's action step has one case per action, or per group of
actions that do the same to what the conjunct is about, and each conjunct of an
invariant was first checked by TLC.

**DepGraphProofs** proves `TypeOK`, `PlannedOnce`, `SourceInEarlierLevel`,
`NeverBesideItsSource`, `LevelsAreEager` and `WellOrderedNeverStuck`. None but the second is inductive by itself:

* `PlannedOnce` needs only that what is added to `levels` is taken from `remaining`.
* `SourceInEarlierLevel` needs to know why a name is available: by
  `AvailableExplained` a name in `available` is seeded or extracted by a planned request,
  and by `SourcesAvailable` a request is ready only when its only source is planned.
  In the fallback, where `available` no longer grows, the order of the file takes
  over: the least remaining request is laid out, so its source above it is already planned.
* `WellOrderedNeverStuck` takes the *least* remaining request (`LeastElement`, from the
  order of the naturals, which stands in for induction here and in the other modules: the library's
  induction theorems take an operator, which the provers cannot instantiate):
  everything above it is planned, so its references are available, so it is ready.
* `LevelsAreEager` rests on `RemainingWaits`: what remains was not ready for the level
  planned last, so it refers to a name that no level before that one gives.

**PlanningProofs** proves that `Planning` leaves the graph alone
(`GraphUndisturbed`, a refinement of `DepGraph`), and `AcceptsPresentable`,
`RejectsWithReason` and `AcceptedNeverStuck`. The invariant `Walked` says that validate's
`known` is what the requests above its position give, and that all of those are
presentable. A collection it accepts is then well ordered as far as the graph is
concerned, though it counts other references.

**RequestRunProofs** is about one request, for both engines. `Tried` ties the attempts to the
wire: a result states as many attempts as its request was sent, and a request on its way to
another attempt holds an answer that may be retried. `CanceledBy` says that `canceled` means a context that is done. Each lemma says what one step (`Resolve`, `Send`, ...) keeps of them.

**SeqRunProofs** proves `FailFastStops`, `NothingVanishes`, `SavedIsWhole`,
`AttemptsAreSends`, `ValidatedNeverUnresolved`, `SeesLatestValue`, the action property
`NeverResent`, and that `SeqRun` implements `RunContract`. Its inductive invariant has nine parts:

* `LoopPosition` - what is left to do lies below what was taken, and one request is
  worked on at most; `RequestAccounts` - `Tried` and `CanceledBy` of each request, and
  `Blamed`: one that comes back with an error was not sent, or the run was ended, which is when
  the report has a placeholder that states one attempt whatever was sent (`run_collection.go:492-500`).
* `ReportInOrder` - the report is ascending and holds what the loop has left;
  `FailureCloses` - a fail-fast failure is the last entry and ends the loop;
  `CutNeverSaved` - a cancelled entry never gets past the check after the loop.
* `ValuesLatest` - `env` holds of each name the value of the last entry that extracted it, and what each request
  saw is that of the entries above it (the report's order makes *last* mean *nearest
  above*); `KnownStays` - what was known or extracted stays known.

The steps are first grouped by shape (`QuietStep`: requests and report untouched;
`Leaves`: one entry appended), so each part is proved over four shapes and not fifteen
actions. The refinement assumes retries that are not negative: with a negative
number a result comes back without a name, and the report no longer says which request it was.

`RunIsFinite` is the safety half of `Returns`: a run takes finitely many steps, whatever
the network answers and with any number of retries. What is left of a run is measured by naturals (`Measured`): the
stage of `Execute`, whether the context may still end, and for each request what remains of its
turn, `StepsLeft` of `RequestRunProofs` (three steps for each attempt left and the distance to the next answer)
and one if the loop has not taken it. Each step makes one of them smaller and none larger (`WindsDown`).
That an unfinished run can take a step, and does, is the other half: it speaks of ENABLED and
fairness and stays with TLC.

On top of it the module proves `ZeroMeansPassed` and `OneBlamesTheApi` of `RunCommand`. The command
takes the engine's steps or leaves it alone (`EngineUndisturbed`), so the engine's invariant holds under it.
`AnswersReported` says that an entry without an error is a request that was sent and answered,
`StoredAsAsked` that a run is saved exactly when it was to be, `CommandExplained` what was
true when the exit code was set. A report without a failure is then whole by `FailureCloses`.

**ParRunProofs** proves `StartsAfterSources`, `FailFastStopsLevels`, `SeesLevelsBefore`,
`SeesSequentialValues`, `NothingVanishes` and that `ParRun` implements `RunContract`, in any interleaving of any number of goroutines. `PlanFollowed` is the
conjunction of the graph's own invariants, reused by `INSTANCE DepGraphProofs`: they hold
while the graph is built and nothing changes its levels later. On it rest
`LevelPosition` (levels below the position have settled, none above has begun),
`SlotsFilled`, `FailureClosesLevel` and `ValuesBelow` (the map holds of each
name the highest request of a finished level that extracted it, since the merge goes by index).
That such a highest request exists is `LeastElement` again, upside down.
`GroupExplained` says why a group ends early: without `--fail-fast` only because the run's
own context is done; with it `ReturnExplained` ties the report to the slots: a run that
ends well has left no goroutine behind and no slot out. The refinement assumes retries that
are not negative, for the same reason as that of `SeqRun`.

`RunIsFinite` holds here as well, in any interleaving: the requests the graph has not
planned and the levels not yet taken join the measure. The number of levels grows while the graph is
built, so `WindsDown` compares it within one stage only.

`ReportedIffLoopEnded` bounds the finding `parallel_interrupted` from the other side. By
`CopyExplained` the slots are copied when the loop over the levels has ended, and only then; so a
stopped run reports all it began if and only if the loop had ended or nothing had begun. An
interrupt inside a level, a failed level and `--fail-fast` lose nothing.

**RunStoreProofs** proves `TypeOK`, `ArtifactsWhole`, `NewestSurvive`, `RotationBounded`,
`AcknowledgedReadable` and `IndexAgrees` for any number of processes that crash anywhere:

* `ArtifactsWhole` - a temporary file opened in a second of one's own has one writer,
  so what is renamed is what was written (`ArtifactsExplained`); and who writes into a file shares
  the second of its name (`ContentExplained`).
* `NewestSurvive` (`RotationExplained`) - what a rotation is about to remove was not among the newest when it listed,
  and what is published later only pushes it further down.
* `RotationBounded` (`BoundExplained`) - whoever listed last saw what was there, and what
  came after it is removed by the one that brought it.
* `IndexAgrees` (`IndexExplained`) - with no other save under way each artifact is in the index
  (`Lists`), and the index has no line more unless the saver is still to prune it or a rotation could
  not read it. A line more is of a name that was published (`IndexPublished`), and a published name without
  a file was outnumbered by newer ones (`RotationExplained`).

`StoreImplementsArchive` ties these together: each system call of each process is a
step of `RunArchive` or none. `RenamePublishes` is the one step by which an artifact appears, with the
bytes of its own run alone; `RemoveEvicts` is the one by which it goes, and `max_runs` later runs
were published by then; every other step returns or is invisible (`OthersReturn`,
`ArchivedAreHeld`). It is stated by the theorem alone: as a property of the run `store` it holds too, but nearly
doubles what TLC takes. `RemovesOldestWhenAlone` bounds the finding `store_reused_name`: a run
alone in its second is not removed by its own rotation while no later one was saved, whatever other processes do.

Beside them it proves that a reader disturbs nothing (`StoreUnaffected`, so the
store's theorems hold under `HistorySpec`), and of its listings `EntriesExplained` and
`ShowsAcknowledged`. The second combines `AcknowledgedReadable`, at the moment the file is read,
with the order of the listing (`ListingOrdered`): what stands above a run are newer
names, of which there are no more than later runs, so `--limit` spares it.

**AssertionsProofs** proves `NothingPassesUnread`, `EqIsExact` and `OppositesDisagree` for any set of
responses and specs, any `PartOf` and `LengthOf`, and any `Exact`. It assumes that
operators are those of the code and that numbers are naturals. Each needs an
invariant over the results collected so far: `ResultsWarranted` says for each result
that passed what was behind it, `EqWarranted` that an `eq` that passed found its very
integer. `TextOfInteger` is the heart of the second: normalising and unwrapping
keep the digits of an integer on either side of `Exact`, alone or as the one element of a list.
`OppositesDisagree` follows from `ResultsTrue` (a result says what its check does) and
`OneOfOpposites`, for which a text that parses as a number holds a natural, and only
what is found has a value.

`EqAfterExtractIffAlike` bounds the finding `eq_after_extract`: an extracted value passes `eq` against
its own variable exactly when `WrittenAlike` holds, so numbers written with an exponent, objects and a list of
one null fail, and no other value does. `TextsAgree` compares the two conversions kind
by kind.

**RedactionProofs** proves `ReplacedWhole`, `MaskedPassesCheck` and `OnlySensitiveChanges`, for
texts of any length over any alphabet, any secrets, configurations and documents. That the recursive
functions `Replaced` and `ScrubText` are defined at every place, and what they yield, is
shown by `Induction` and `Backwards`, which state `LeastElement` for a set of places. The
invariant is `RedactionInv`: `SecretsOrdered`, what comes before a registered value is longer, or as
long and different.

* The scan looks ahead only, so its result from a place on depends on the text from there on
  (`ScanSuffix`, `ScanPrefix`). By `ReplacedWindow` every window of the new
  text without a placeholder stood in the old one, at a place where the value did not occur: a replacement
  joins nothing into a secret that was not one before. `ScrubClean` follows for
  all values, one by one: a scrubbed text holds no secret, if no value holds the placeholder.
* `ReplacedWhole`: texts that a value does not reach across are scanned apart
  (`ReplacedConcat`). A scrubbed text ends and begins like the old one up to the nearest
  placeholder (`SameEnd`, `SameFront`), so a value that stood apart stays apart while the values before
  it are replaced (`ReplacedAround`), and by `SecretsOrdered` none of those lies
  within it without being shorter. When its turn comes it is whole (`WholeInText`), and what
  is left and right of it is scrubbed as if alone (`ScrubbedWhole`).
* `MaskedPassesCheck` is an equivalence. `CheckFindsLeft` says of each surface and shape that with
  all flags on the check of the redacted field answers as `SecretLeft` does of the field before: what
  masking rewrites is clean, and the names and form segments it does not look at are as they were.
  `LeftWaits` carries this to the step of the check.
* `OnlySensitiveChanges`: a text without a secret is not touched (`ScrubUnchanged`), so a harmless leaf
  survives decoding, scrubbing and encoding (`HarmlessSurvives`), and `HarmlessFound` says that it is found
  in the redacted field exactly if it is not `Lost`.

The exceptions stand in the properties and not in the assumptions: the model registers values that hold
the placeholder or an escape, and values that overlap, and the formulas say what they do not promise of them.

**Only model-checked**: liveness (`Returns`), since the provers do not handle fairness
and ENABLED; its finite half is proved as `RunIsFinite`. Every other property of a passing run is
stated by a theorem.

## What the checks found

Five runs end in a counterexample to what the repository says of itself. For the first four a
theorem says how far it goes: `ReportedIffLoopEnded`, `SeesSequentialCorrect` (well-ordered collections
that assign each name once see the same values either way), `RemovesOldestWhenAlone` and `EqAfterExtractIffAlike`.

* `parallel_interrupted` - a parallel run whose context ends between two levels
  returns before the slots are copied (`run_collection.go:411`), so requests that
  were sent are missing from the report; the sequential engine keeps them.
* `parallel_reseeded` - a name that is both seeded and extracted is available from the start
  (`depgraph.go:26`), so in parallel a request below the extraction is sent with
  the seed; sequentially it gets the extracted value.
* `store_reused_name` - a plain name removed by rotation is given to the next run of
  the same second, sorts first, and is removed as the oldest by its own rotation.
* `eq_after_extract` - the rules write a number with `%v` (`extract.go:234`), which turns to
  exponents at a million, the assertions with `FormatFloat(v, 'f', ...)`
  (`assert.go:621`): an id of 1234567 is extracted as `1.234567e+06`, and
  `eq: "{{created_id}}"` of `docs/collections.md:170` then fails on the same id. Objects
  (JSON against Go's `map[...]`) and a list of one null differ too.
* `redaction_text` - the masking of a body decodes the first JSON value and ignores
  what follows (`redactor.go:335`), so a text that begins with one is stored cut: `404 page
  not found` as `404`, newline-delimited JSON as its first line; `redactor.go:312-313`
  promises a scrub of everything else.

Noticed while modelling, without a run of their own: name by stat, temporary file by
name (`jsonstore.go:178, 238`), so two processes that save runs of one collection
in the same second write into one temporary file, and a reader can see a truncated or mixed
artifact; `runs diff` compares counts of assertions (`cli/runs.go:233-235`), so one
that broke and one that recovered cancel out;
`CheckForSecrets` scans the whole artifact (`redactor.go:420-433`), so it refuses a run over a secret in
a request name, a header name, an extracted name, a form key or a form segment without a key, none of which
masking looks at; it may also refuse what was masked if a registered value holds the
placeholder or an escape; two values that overlap are replaced in turn, so of `ppq` with `pp` and `pq`
registered a `q` is left; a query pair that `url.ParseQuery` rejects (`token=a;b`) is
neither masked by its key nor found by the check of keys, and is dropped with nothing said when
another pair is masked (`redactor.go:287, 308`); an index that cannot be read is left unpruned without
a line in the log (`jsonstore.go:365-368`); a request whose wait was ended states one attempt
however often it was sent (`run_collection.go:492-500`); a negative `retries` sends
nothing and returns a result without a name (`run_collection.go:255, 293`), which the
parallel engine drops from its report; a sibling of a fail-fast failure is
recorded as `canceled`, which `docs/error-handling.md:12` keeps for the user; the
error kind `http` of `docs/error-handling.md:13` is never produced by
`ClassifyRunError`; `validate` does not look at references in assertion values,
which `docs/collections.md:83` allows; a run whose only trouble is a missing
variable exits with 3, where `exitcode.go:14` and `docs/cli-reference.md:17` count
missing vars among the errors of code 2.

## What is not modelled

* Text: parsing, YAML, importers, placeholders and builtins, JSONPath, output. They
  are pure functions of data; a load that fails is the action `PrepareFails`.
* Fractions, negative numbers and nested lists in `Assertions`; what a pattern,
  a schema or a JSONPath expression means.
* TLS, redirects, the limit on bodies and the cookie jar, which goroutines of a
  level share: the order in which it is filled is the server's choice of answers.
* Redaction of case variants, trimmed or base64 values and repeated keys, and of more
  than two leaves in a field.
* YAML, environment and configuration loaders, the workspace, the importers and `runs
  show`/`diff`: they read files or text and compute a value once, with no state between
  two steps and nobody beside them; what a fault of theirs does to a run is `PrepareFails`
  and `BadUsage`.
* `RunCommand` around the parallel engine: the command looks at the same outcome
  and report, whose shape `RunContract` bounds for both.
* Which schema file belongs to which request: the engines' one assertion verdict is free.

## Plan

Done: all modules above, with the proofs listed.

Left, in this order:

1. `RunCommand` around either engine.
2. The loaders, as functions from the documents of a workspace to collections, once
   something of a run depends on more than whether they fail.
