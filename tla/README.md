# USM-Scheduler in TLA+

Specifications, model-checking configurations and machine-checked proofs for
the core of USM-Scheduler: the parts where several processes share database
rows (dataset imports and revisions, the execution of solver runs, experiment
batches, the review and approval of schedules, the pinning of their placements
and the regeneration under the pins), the search itself (problem builder,
validator, scorer, CP-SAT encoding, genetic algorithm), and the rules of an
imported workbook. Paths below are relative to the repository
(`src/` in `PROJECT.json`), `runs.py` is `scheduler/services/runs.py`, and so on.

`PROJECT.json` holds the machine-readable index: components, TLC runs, the map
from every definition to the lines it models, mutants, findings, hazards and
theorems.

## 1. Inventory

USM-Scheduler is a Django application (PostgreSQL, Redis, one Celery worker).
All shared state is in database rows; processes interact through rows, row
locks (`select_for_update`), unique indexes and Celery messages.

| Component | State it keeps | Operations | What is hard | What makes it correct |
|---|---|---|---|---|
| Schedule runs (`runs.py`, `tasks.py`, `workflow.cancel_run`) | `ScheduleRun.status`, `task_id`, `ValidationResult`, draft `ScheduleVersion` | `create_run`, `queue_run`, `execute_run` (`_mark_started`, solve, validate, `persist_result`, failure handler), `cancel_run`, the task, the batch command's own failure handler | redelivery (`acks_late`), lost workers, hard time limit, revoke, late answers, two executors, unlocked `Max + 1` | one solver per run; a finished run is final; status, verdict and draft agree; numbers have no gap; a started run ends |
| Experiment batches (`experiments.py`, `api/views.py`) | `ExperimentBatch.status`, statuses of its runs, FIFO queue | `create_experiment_batch`, `queue_experiment_batch`, `execute_experiment_batch`, cancel view, `refresh_experiment_status` | unlocked checks, unconditional status writes, a derived status read while the runs move, refused messages | COMPLETED and CANCELLED are true of the runs; runs start in the frozen order; a batch settles |
| Review and approval (`workflow.py`, `models.ScheduleVersion`, `admin.py`) | `ScheduleVersion.status`, placements, verdict, `ScheduleReview`, `ScheduleApproval` | validate, submit, review, approve (with archiving), admin form | checks on stale rows, two approvals at once, partial unique indexes, stale forms | at most one approved version; every approval is earned when it commits; a term keeps its approved version |
| Pinning and regeneration (`workflow.lock_schedule_assignments`, `api/views.py:493`, `problem_builder.py:518`, `admin.py`) | `LockedAssignment`, `ProblemSnapshot`, `ScheduleVersion.parent`, the parent's number in a run's configuration | lock view, regeneration view (pin, build and store, submit), the run's draft, deletion of a version, the page of the pins | three transactions in a row with others in between, a status read without a lock, row locks taken one by one, a reference kept in JSON | a pin is true of its source; a child carries the pins of its request; nothing refers to a deleted version; requests do not block each other |
| Dataset import and revisions (`imports.py`, `revision_lifecycle.py`, `term_cloning.py`, `RevisionBoundModel`, `HistoricalCatalogModel`) | `ImportBatch`, `TermDatasetRevision`, its rows, the catalog | preview, commit, clone, finalize, forms of revisions, rows and catalog | preview racing commit, checks without a lock on rows and catalog, unlocked `Max + 1`, two formulations of the rules of a workbook | the revision of an import stays what its workbook said; a term and a number name one revision for good; who may still write a frozen revision is bounded; the commit relies on nothing the preview did not check |
| Problem snapshots (`problem_builder.py`) | `ProblemSnapshot`, shared by its hash | `build_problem`, `build_and_store_snapshot`, `load_problem` | many preflight conditions, contiguous slots, locked placements | the candidates are exactly the placements the validator passes; locks do not contradict one another |
| Validator, scorer, solvers (`domain/`, `solvers/`) | none (pure) | `validate_schedule`, `score_schedule`, CP-SAT encoding, GA | several formulations of the same rules; a deadline that may fall anywhere in nested loops | the encoding is exact; answers are true of validator and scorer; the search keeps locks and its incumbent, and ends |
| Statistics, tuning, scaling, exports, pages, administration, commands | read-only or generators | | numerical or presentational | left to the tests |

How they interact: an import or a finalized clone yields a COMMITTED revision;
the builder turns it and an objective profile into an immutable snapshot; runs
(single, regenerated or planned by an experiment batch) solve a snapshot and
publish draft versions; versions go through review to approval; approved
placements may be pinned and constrain later snapshots.

`PROJECT.json` "hazards" lists, line by line, what a test would hardly reach
and which property would catch it.

## 2. Modules

| Module | What it is |
|---|---|
| `RunRules` | the vocabulary of run statuses, the possible answers of both solvers, and the value-level decisions: `Verified` (independent validation), `ModelStatus`, `Publishable`, the guards of every writer of a status |
| `RunPromise` | abstract specification: a run is queued, starts at most once, ends exactly once, and its verdict fits its status |
| `RunLifecycle` | requests, broker, workers, benchmark command and faults around the rows; implements `RunPromise` |
| `ScheduleReview` | the versions of one term, their reviews, approvals in three steps (checks, selection, commit) and administration forms |
| `Regeneration` | the active pins of a term, the requests that write them and regenerate children, the snapshots and runs between, and the pages |
| `ExperimentBatch` | one batch: queue and cancel requests, FIFO queue, worker, benchmark command, comparison page, refresh in two steps |
| `Timetable` | a problem as both engines receive it, `validate_schedule`, `score_schedule` |
| `ProblemBuilder` | the preflight and the candidates of `build_problem`, from the rows of a revision |
| `CpSatEncoding` | the Boolean model and the objective that `cp_sat.py` hands to CP-SAT |
| `ScheduleSearch` | one solver call: builder, then CP-SAT or the genetic algorithm step by step; composes the three above |
| `DatasetRevision` | previews, imports, clones, finalizations and forms around import batches and revisions |
| `WorkbookImport` | the rules of one workbook: the preview, then the commit sheet by sheet under the rules of the models |
| `MC...` | symmetry sets, small problems and workbooks for TLC; other constants are in the `.cfg` files |
| `...Proofs` | the theorems of a module with their proofs |

Operators named `<Name>_<Fault>` stand just before `<Name>`: they are the
definition as a plausible mistake would have it, and are used only by the
mutation runs, which show that each property depends on the code it is about.

### Runs: state and code

`status`, `evidence`, `version`, `taskId` are the columns of a run, the
`is_feasible`/`evaluated` content of its `ValidationResult`, the
`version_number` of its draft and the presence of `task_id`. `submission` is
where the web request between `create_run` and the end of `queue_run` stands:
publishing the message and storing the task id are separate steps, as in
`runs.py:140-141`. `broker` counts undelivered messages; a worker that holds a
message has it unacknowledged (`acks_late`), so losing the worker returns it.
An executor walks through `execute_run`:

| `at` | code |
|---|---|
| `taken` | before `_mark_started` (154) |
| `solving`, `solved` | inside the try block, before and after the answer was verified (172-204) |
| `persisting` | inside `persist_result`'s transaction, row locked (227-339); the version number is read when it begins and checked by the unique index when it commits |
| `recording` | the end-to-end metric (206-213) |
| `failing` | the handler of execute_run (215-224) |
| `sweeping` | the handler of `execute_experiment_batch` (experiments.py:275-284) |

One transaction is one action, except `persist_result`, whose read of
`Max(version_number)` and commit are two, because the number is read without
protection from other runs. A solver is the set of answers it can give
(`cp_sat.py:69-213`, `genetic.py:60-174`): status, what the independent
validator says of the assignments, and whether the stopping reason contains
"time". Broker and Celery behaviour that the repository relies on but does not
contain (discarding revoked tasks, terminate, the visibility timeout) is
modelled from how the code uses it and marked external in the map.

### Review: state and code

`stage` is `ScheduleVersion.status`, `sound` says whether the placements
satisfy the hard rules now, `verdict` is the stored `ValidationResult`,
`reviews[v][c]` the reviews of a college in the order they were recorded.
A review is two actions: the check of the status on the row the view loaded,
and the insert, which waits only for a transaction that holds the version's
row (the foreign-key check). `approve_schedule` is three: its checks under the
row lock, the query that selects the version to archive, and the commit, at
which the partial unique index (one APPROVED version per term) and the
one-to-one approval row decide. The administration form is load, comparison in
`ScheduleVersion.save` with an unlocked read, and the update of all columns.
Transactions run at READ COMMITTED, PostgreSQL's default.

### Regeneration: state and code

`stage` is `ScheduleVersion.status` with UNDER_REVIEW and APPROVED as one value,
because neither `lock_schedule_assignments` (`workflow.py:240`) nor a run tells
them apart; `place`, `parent` and `basis` are the placements of a version, its
parent and the pins in its snapshot. `pins[m]` is the active `LockedAssignment` of
a meeting (the partial unique index allows one) with the version it was taken
from; `byHand` says that the page of the pins wrote it. `snapshots` are the stored
`ProblemSnapshot` rows, of which only the pins matter here.

A request walks through `ScheduleLockView` or `ScheduleRegenerateView`:

| `step` | code |
|---|---|
| `checked` | the view has loaded the version and tested its status, or will skip the pinning |
| `pinning` | the placements were read; `update_or_create` locks or inserts one row per meeting (`Approach`, `LockRow`) and the transaction commits (`CommitPins`) |
| `pinned` | before `build_and_store_snapshot`, which reads the active pins in one statement and stores or reuses the row with its hash (`Build`) |
| `stored` | the loop over the algorithms, `create_run` and `queue_run` each (`Submit`) |

`Publish` is the commit of `persist_result` as the version table sees it, with
the parent looked up by its number (`runs.py:361`). `SaveForm`, `Delete` and
`WritePin` are the administration: a stale form may reopen a version
(`reopened` remembers which), a version without children and pins may be deleted,
and a pin may be set anywhere; a form changes one placement at a time. `changed`, in a request and a run, is a history
variable: the pins that moved since the request committed its own. Meetings are
one time atom long; reviews, verdicts and approvals are in `ScheduleReview`, the
candidates of a problem in `ProblemBuilder`.

### Batches: state and code

`batch` is `ExperimentBatch.status`, run `r` is the r-th of the frozen execution
order. `queue_experiment_batch` is the unlocked check, the write of QUEUED, the
load of the plan, and per run the message and the task id; `refresh` holds the
batch row between reading the runs and writing the derived status. Inside a run
only what the batch sees is kept; it is the behaviour `RunPromise` allows.
Processes do not crash here (that is `RunLifecycle`'s subject), but tasks raise
and are killed by a revoke, which matters because neither refreshes the batch.

### Search: state and code

`problem` is what `build_problem` makes of the rows of a revision, or `<<>>`
when the preflight refuses them. An assignment vector is a set of pairs of an
event and a candidate, so that a missing, a repeated or an unknown event can be
said; `Violations` keeps the constraint code and the events of each of the
validator's findings. The builder's rules and the validator's are translated
each from its own code, with their different shapes: comparing them is the
point. `lab` combines the kind of a room with the presence of its laboratory
profile.

`pc` names the place in `genetic.py`: `start` (before the initial population),
`greedy` (inside `_randomized_greedy`), `generation` and `breed` (the outer and
inner loop), `repair` and `scan` (the rounds of `_repair` and its loop over
candidates). `pop`, `next`, `best` and `child` are the variables of those
functions, `seen` says that `first_feasible_seconds` is set. Every draw of the
random generator is a nondeterministic choice among what it may yield. The wall
clock is the flag `late`: `Tick` may raise it between any two steps, and the
guards read it where the code compares `perf_counter` with the deadline.
`fitness_cache` is filled at the start, because `evaluate` is pure. CP-SAT itself
is external: exact on the model of `CpSatEncoding`, or stopped by its deadline
with any feasible solution or none.

### Dataset: state and code

`status`, `term`, `number`, `hash` and `rows` are columns and content of
`TermDatasetRevision`; `staged` is the status of an `ImportBatch` and `made` its
`committed_revision`; `room` stands for the shared catalog. `request` is what a
web request has read or holds. A preview is the unlocked read (957) and the
write of the batch; an import is the read of the maximum number (1094), the
insert (1100), the catalog (1108-1228) and the commit (1229-1415), because each
of them waits for a row lock or a unique index of its own; a finalization builds
the problem and commits under the lock of the revision; a form checks with an
unlocked read and writes all columns later. The page of a revision
(`admin.py:99`) may give a draft another term, number, hash and status; `save`
compares them with the row only when the row is immutable (`Savable`), and both
unique constraints are tested by the form and again by the database (`Unique`,
which an insert or update also meets as a wait for a number that an import has
inserted). `terms` are the rows of `AcademicTerm`, since a term may outlive the
revision it was cloned for. `keys` holds the term and the number from which
`commit_import` derives the stable keys of its meetings (1337), which are unique in
the whole table. The row lock of a revision does not stop an
update of its rows, which are other tables. A request that raises leaves
nothing (`Abandon`), since each of them is one transaction.

### Workbook: state and code

A workbook maps sheets to sets of rows, a row its columns to cells; only columns
that some rule reads are there. What a cell parses to is the cell's value, and
one that does not parse is `Unreadable`. `Clean` is the conjunction of the rules
of `_parse_sheet`, `_validate_references` and `_validate_semantics`. The commit
stores one sheet per step in the order of `commit_import`: `Found` says that each
subscript of its dictionaries hits, `Accepted` that `full_clean`, the validators
and the constraints of the models admit the rows. `Lookups` is translated from
the subscripts of the commit, not from the references of the preview, because
that they agree is what `NothingDangles` shows.

## 3. Runs of TLC and their bounds

| Run | Question | Bounds |
|---|---|---|
| `RunFaults` | who executes a run, and how may it end, when processes die | 1 run, 2 workers, 1 shell, 3 faults |
| `RunLive` | two results that compete for a version number; does every run end | a CP-SAT and a GA run, 1 worker, 1 shell, no faults |
| `RunStale` (violation) | is a stale run reconciled after a crash | 1 run, 1 worker, 1 fault |
| `Review` | concurrent reviews, approvals and forms | 2 versions, 1 college, 2 review requests, 1 form, 2 reviews per version and college |
| `ReviewOverwrite` (violation) | is an approved version immutable | 1 version, 1 form |
| `Batch` | queueing twice, cancelling and executing a batch | 2 runs, 2 queue requests, 1 cancel request, 1 shell |
| `BatchLive` | does a batch settle, do sent runs end | 2 runs, 1 queue request, 1 shell |
| `Search` | do builder, validator, scorer, encoding and search agree, and does the search end | 12 revisions of 2 days, at most 4 usable slots, 2 rooms, 2-3 meetings, and 64 cases of one authorization; population and tournament 2, elite fraction rounding to 0, 2 repair attempts, 1 mutated gene |
| `SearchLost` (violation) | does NO_SOLUTION mean that nothing feasible was found | the same cases |
| `Revisions` | what concurrent imports, clones, finalizations and forms may do to frozen revisions, and whether numbers keep identifying revisions that may be renumbered | 2 terms, 2 workbooks, 3 import batches, 2 values of rows and room, 2 revisions, 2 requests; the page of a revision may be typed the number 2, no hash, or the one of a finalization |
| `Workbooks` | do the rules of the preview suffice for the commit | a valid workbook of 24 sheets and 2,709 that differ in one or two sheets |
| `Regeneration` | do pins stay true, and does a child carry the pins of its request, when requests, runs, forms and deletions interleave | 2 versions with every pair of placements, 1 child, 2 meetings in 1 room, 2 slots, 2 requests, 1 open run, 1 edit |

Why these are enough: two executors beside a third suffice for every race on
one run, because the row lock serialises pairs; three faults allow a lost
worker, its redelivery and one more; two runs suffice for a collision of
version numbers and for an order; two versions for a competition between
approvals. The cases of `Search` are written for the rules: a break and a late slot in a
window, shared sections and instructors, a distinct-day group, a lock, two
contradicting locks, a problem without a feasible schedule, a greedy dead end
that a repair resolves, each combination of authorization units. Two wrong
sheets suffice for the workbooks, since each clause of a rule compares at most
two. What the bounds leave open is
closed by the proofs where there are some; they hold for all values of the
constants. In `Regeneration` two versions compete for the pins of two meetings
that cannot share a slot (one room), which is the smallest case in which pins of
two sources contradict each other, in which locks are taken in an order, and in
which a snapshot is reused; one edit puts a stale form, a deletion or a pin set
by hand between any two steps. In `Revisions` the typed number 2 is the one that makes
a gap behind a clone, collides with the second import of a term and lets a draft
move beside an import; a typed hash is the one that freezes a draft by hand or
collides with a finalization. Named bounds: `FormNumbers` and `FormHashes` (what
may be typed on the page of a revision), `Batches` (the workbooks uploaded to each
term), `MaxFaults` (faults of the
environment), `MaxReviews` (length of a review history), `MaxMutations` (genes
changed by one mutation), `MaxEdits` (writes of the administration pages),
`MaxRequests` (requests received) and `HandSources` (the versions that the page of
the pins names as a source: the child). Deadlock is
checked in `Search` and `SearchLost`, where only a finished call may rest
(`Rest`); the other systems may rest when nobody asks anything of them.

Symmetry is used for interchangeable workers, requests, versions and forms, and
only in runs without liveness.

### Fairness

`ScheduleSearch!Spec` assumes that the genetic algorithm goes on (a loop in one
thread) and that time passes (`WF(Tick)`); without a generation limit only the
clock ends the search.

`RunLifecycle!FairSpec` assumes that a worker that lives goes on (it polls the
queue, handles revokes, and its solver ends at the deadline both solvers
enforce) and so does the benchmark command once it has taken a run. Nothing is
assumed of users, of web requests or of faults. `ExperimentBatch!FairSpec`
assumes in addition that requests under way go on and that whoever waits for
the batch row gets it (strong fairness, because the page may hold the row again
and again), and that somebody keeps opening the comparison page: the code has no
other refresh after a task that raised or was killed, and `EveryBatchSettles`
says so.

`Regeneration` has no liveness: each of its requests may wait for a row whose
holder waits for another, and PostgreSQL chooses the victim (`Fail`).

## 4. Findings

Three violation runs record disagreements between documents and code; the traces
are what TLC prints.

- `RunStale`: after a worker is lost, the redelivered message is refused
  (`runs.py:157`) and the row stays RUNNING; `docs/architecture.md:157` says it is
  reconciled.
- `ReviewOverwrite`: a stale administration form takes an approved version back;
  `README.md:152` calls it immutable.
- `SearchLost`: the deadline inside `_repair`'s scan (`genetic.py:371`) drops a
  feasible trial that was just evaluated; the answer is NO_SOLUTION, "No feasible
  solution found within the time limit." (`genetic.py:148`).

The other observations have no run of their own, because the properties bound
them instead:

- a clean preview may be refused by the commit, for instance a laboratory profile
  of a classroom, although `imports.py:940` promises PREVIEWED "only when it can be
  committed"; `RefusedForAKnownReason` lists the gaps; the workbooks of the
  run show no others;
- a request that pins and is then refused by the preflight leaves its pins behind,
  and they constrain later snapshots; what a run gets is nevertheless what is
  pinned when its snapshot is built (`RunsCarryPins`);
- a version is validated against the pins of its own snapshot
  (`workflow.py:55`), so that pins set later do not stop its approval;
- placements of a version that a stale form reopened may be pinned without any
  review of them, which is why `PinsMatchTheirSource` excepts reopened versions;
- two lock requests on different versions, or on meetings that start at one slot,
  may lock rows in opposite orders (`NoMutualWait` says where they cannot);
- a review admitted on a stale row (`workflow.py:136-137`) may be recorded after
  the version was approved; it cannot make an approval unearned;
- a late preview of a batch that was committed meanwhile sets it back to
  PREVIEWED while `committed_revision` stays; it can never be committed again
  (`ImportsAreKept`);
- a row edit, a catalog page or a form that passed its check before a revision
  was frozen writes it afterwards, and such a form may also give it another term,
  number or hash (`FrozenExceptLateWriters`), although the
  repository's `README.md:147` calls committed revisions immutable. Rows of
  imported revisions are never reached this way, those of clones are;
- revision numbers may have gaps, since the page of a revision lets a draft be
  renumbered; what holds is that a number never comes to name two revisions
  (`NumbersIdentify`).

## 5. Proofs

Every safety property and every action property of the passing runs is proved
for every value of the constants, under the named assumptions. Most of these say
only that the sets are disjoint where roles differ and that bounds are natural
numbers. Two say what the data look like: `SearchAssumption` that the rows of a
revision satisfy the constraints of the database (`RowsOK`: finite tables,
foreign keys, one owner per grant, penalties that are not negative) and that
weights are natural numbers; `RowAssumption` that a row of a parsed sheet has a
cell for each header and that numbers and times are comparable. TLC evaluates
both on the cases of its runs. The inductive invariants were checked by TLC on
the constants of the runs before they were proved; those that are no property of
a run (`IInv` of the search, `OrderInv` of the batch) stand in the proof modules.

`RunLifecycleProofs`. `SoleSolver` and `EvidenceAgrees` are not inductive. The
strengthening adds that work on a run begins after its start and nothing
un-starts a run (`WorkIsStarted`), that the row lock keeps a run RUNNING between
the check and the commit of `persist_result` (`LockKeepsRunning`), that what is
persisted is a verified answer of the run's own solver (`AnswersAreVerified`),
and that a number that was read follows one in use (`NumbersFollow`,
`VersionsDiffer`). "No gap" for version numbers is carried as density (every
number below a used one is used) and turned into `1 .. Cardinality` at the end.
`SafetyInv` is checked by TLC in `RunFaults`; the proof uses the same facts plus
density. `RunsAreAttended` needs one fact more, `RevokesComeLate`: while no process
has died, a terminating revoke under way concerns a run that ended, so that the
worker it stops leaves nothing open behind. `TerminalIsFinal` and the refinement
follow from the invariant, one case per action: only `MarkStarted`, `CommitPersist`, `FailRun`,
`ShellFailsRun`, `Create` and `Cancel` touch a row.

`ScheduleReviewProofs`. `ApprovingIsChecked` is the core: nothing a concurrent
request does may change stage, soundness or endorsements of a version whose row
`approve_schedule` holds. `FormsShowTheTruth` keeps stale forms from inventing a
final stage. `EndorsedOnce` makes a withdrawn endorsement final.

`RegenerationProofs`. The invariant follows a request along its steps: `Ordered`
(rows are locked in the order of their start, and only inside the loop),
`StillTrue` (what was read of a version under review is still so, because only a
form can move its placements) and `KeepsPins` (after its commit the pins are as
the request left them, but for those it noted as moved). `SourcesAreReviewed`
keeps a source from being edited as a draft. `NothingOrphaned` is inductive with
the foreign keys in `CommitPins`, `Publish` and `Delete`. `ChildrenHonourPins` follows
from `RunsCarryPins` for one step, `NobodyWaitsMutually` from `Ordered` of two
requests that read the same placements.

`ExperimentBatchProofs`. `FoundIsTrue` carries the truth of a derived status from
its read to its write (terminal runs stay terminal, so what was complete remains
complete); `CancelsCoverOpenRuns` says that the list a cancel request works off
covers every open run, because no run opens after it ended. `RunsStartInOrder`
(`StartsInOrder`) needs an invariant of its own, `OrderInv`, because a run passes
through many hands before it starts. A run that still waits is on the list of a
request, in the queue, or at hand with the worker (`Handed`: in the queue, at hand,
or decided). A message stands behind those of all earlier runs that wait
(`QueueInOrder`); what a request leaves off its list or has sent is handed
(`OthersAreHanded`, `TaskedAreHanded`, the latter because a stored task id makes a
second request skip the run); and whoever is about to start a run has only decided
runs before it (`EarlierAreDecided`). `BatchKeepsPromise` shows that the batch treats
its runs as `RunPromise` lets it: it is what justifies leaving evidence and faults
to `RunLifecycle`.

`CpSatEncodingProofs`. The library's induction theorems take a predicate as a
parameter, which the provers cannot instantiate. Two lemmas replace them, with a
set in the place of the predicate: a set of natural numbers has a least member,
and a family of subsets that contains a set whenever it contains all that is left
of it after removing one member contains every finite set. From the latter follow
the laws of sums over finite sets (removing a member, splitting, re-indexing along
an injection, counting with zeros and ones) on which the objective rests; sums are
written with the community module's `SumFunction`, which is not recursive.
`EncodingIsExact`: for every problem, the hard constraints of the Boolean model hold
of a selection exactly when the validator finds no bad selection, broken lock or
conflict in it (`SolutionsAreFeasible`: with legal candidates, when it finds nothing
at all). Both sides are reduced to a function from events to candidates (`Resolved`);
the buckets of the encoding and the resource users of the validator are then
compared pair by pair. `OccupancyAlwaysFits` shows that
the auxiliary occupancy variables of the objective never exclude a solution;
with the same for the load deviations, `SolutionsAreExactlyTheHardOnes`.
`ObjectiveIsScore` compares what CP-SAT minimises with what `score_schedule`
computes: the sum of the penalties over the chosen variables with the sum over
events, the count of gap variables with the gaps between first and last atom of a
day, and the scaled deviations of the daily loads with the imbalance.

`ScheduleSearchProofs`. `BuilderMatchesValidator` proves `CandidatesAreExact` for
every revision that satisfies the database's constraints (`RowsOK`): the
invariant `Loaded` says that a problem comes from `Build`; the lemmas deal with
windows (consecutive slots have the cardinality of the duration) and with
authorization (a grant names exactly one unit, so the builder's comparison of
unit identifiers and the validator's of grants agree). `BuiltIsWellFormed` adds
that a built problem is finite and consistent, which is what the theorems about
the encoding and the scorer ask for. `CpSatIsNeverRejected` follows: every solution
of the model passes the validator and has the score of its objective. `IInv`, the
invariant of the search, says that the problem in hand is the one built from the
rows (`Loaded`), that what is under way fits its place (`Searching`: the draft of the
greedy construction is a partial schedule on candidates that keeps the locks;
populations, incumbent, child and scan hold chromosomes that keep the locks, each
with its own fitness; the elites stand at the front of the next population from
`StartGeneration` to `CloseGeneration`), that the counters are in range (`Counters`),
and that an answer is true and keeps the locks (`Answered`). Keeping the locks is part
of the population's type, not of the answer alone, because crossover and mutation
take their genes from it. The place of the elites is what `NeverWorse` needs: sorting
is shown to be a permutation in ascending order (a rank is a bijection), so that an
elite is displaced only by something no worse. `GreedyCountsAgree` (`IncrementalAgrees`)
compares the counting loops of `_incremental_conflict_count` with the validator: there is
a bijection between the conflicts that the loops count and those that the validator
reports after the placement and did not report before. `AnswersAreTrue` puts all
of it together: with `EncodingIsExact` and `ObjectiveIsScore`, OPTIMAL and
INFEASIBLE are statements about validator and scorer.

`DatasetRevisionProofs`. Numbers and frozen revisions are proved apart.
`ImportsStayKept` adds what an import has inserted so far and that it holds its
batch row. `NumbersStayUnique` needs that a number which an import has inserted is
free and claimed by no other import, that work refers to existing terms only (a
clone begins a term nobody works in), and that a revision with keys is immutable
and every form under way for it keeps its term and number, although drafts may be
renumbered and moved at any time. `RevisionsStayFrozen` and `RoomStaysFrozen` are
action properties; the former needs that what is being finalized is a draft, the
latter needs that there is an immutable revision as soon as there is any, since
every chain of clones begins at an import.

`WorkbookImportProofs`. `CommitFindsAll`: for every set of workbooks, not only the
enumerated ones, each subscript of the commit hits. `LookupsAreChecked` compares
the subscripts with the references of the preview, `StoredBefore` says that each
target precedes its referrer in the order of the commit, and `WorkbookInv` that
only clean workbooks get so far. `CommittedWorkbooksAreUsable`: the preview compares
neighbouring slots only; if two slots of a day overlapped, take two that do as close
in sequence as possible: they are not neighbours, and a slot between them is too
close to one of them. `RefusalsAreKnown` goes through the rules of the models sheet by
sheet and derives each from the rules of the preview and the absence of the
`KnownGaps`; that no two slots of a day begin together follows from the argument about
overlaps.

Types are proved as a part of each module's invariant.

Only model-checked: the liveness properties (`EveryRunEnds`, `EverySentRunEnds`,
`EveryBatchSettles`, `SearchEnds`), because fairness and ENABLED are outside the
prover's reach. The three violations are counterexamples, which TLC finds.

## 6. Not modelled

- Roles, college scopes, audit rows, metrics, and the wording of messages.
- Adding versions, terms, revisions and rows by hand, deleting anything but a
  version, and editing reviews in the administration; the label of a revision; the
  page of an import batch, which leaves `status` and `committed_revision` editable
  (`ImportsAreKept` is about batches that this page does not touch); `parent` and
  `snapshot` on the page of a version that is not final, which the forms of
  `Regeneration` and `ScheduleReview` leave unchanged. `VersionsConsecutive` says
  nothing about versions deleted or renumbered by hand, which are outside
  `RunLifecycle`; the creation loop of
  `api/views.py:305`, whose client may see an error after some of its runs were
  submitted.
- How a cell is parsed, texts that no rule reads and the lengths of columns; the
  remapping of keys when a revision is cloned.
- Problems of schema 1.0 (without frozen evidence), normalised scores.
- CP-SAT itself (external).
- Statistics, tuning, scaling, exports, pages: no shared state, or numerical.

## 7. Plan

What would come next:

1. "A committed revision stays schedulable": the builder reads all active rooms
   of the campus but the availability profiles of its revision only
   (`problem_builder.py:221-252`), so that an import that adds a room makes older
   revisions unbuildable. `DatasetRevision` needs more than one room for it.
2. A bound on the work of a search (what a step of the genetic algorithm uses up) as
   an action property with a proof, the safety part of `SearchEnds`.
3. The remapping of keys when a revision is cloned (`term_cloning.py`), as an
   isomorphism of the rows of both revisions.
