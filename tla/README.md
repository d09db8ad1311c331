# A TLA+ model of omapkg

omapkg builds, reviews, signs and publishes Arch packages for Omarchy. This
directory holds TLA+ modules translated from its source, TLC configurations
that check them on small instances, and TLAPS proofs of safety properties for
every value of the constants. Line numbers below are those of the repository's
files; a file name without a directory is one of `src/lib/server`, or of the
program a section is about (`services/pipeline`, `omarchy/manifest-client`).

## The system

| component | state | operations | what is hard |
|---|---|---|---|
| web worker, worker protocol (`workers.ts`, `worker-protocol.ts`, `worker-results.ts`, `worker-uploads.ts`) | D1 rows `workers`, `builds`, `requests`, `worker_uploads`; R2 objects | claim, heartbeat, upload, complete; revoke, pause, resume, archive, retry | every handler reads, awaits and writes later; leases expire meanwhile; answers are lost |
| review (`requests.ts`, maintainer team page) | `requests`, `revisions`, `approvals`, `builds` | approve, reject, merge the recipe, queue builds, fence a reviewer | two finalizers and a fence interleave; GitHub and the batch fail separately |
| factory (`factory*.ts`, `services/pipeline/src/workflow.ts`) | `factory_runs`, `factory_run_attempts`, private builds, dossiers | start, reserve, queue, finish, stop, reconcile; a durable workflow; a dossier | restarts from the first line, redelivery, a budget, leases inside leases |
| releases (`releases.ts`, `repository.ts`, `release-*.ts`) | `releases`, `repository_snapshots`, R2 indexes | publish, promote, roll back, quarantine | long reads and signatures before one batch with assertions |
| crash policy (`crashes.ts`, `routes/api/crashes`) | `crash_reports`, `crash_quarantines` | report, confirm, resolve, expire, process | jobs with leases and retries, driven by reviews |
| signing (`signing-control.ts`, `native-signing.ts`, `signer/`) | `signing_intents`, signature objects, signer audit | request, claim, sign, complete, expire | one-use intents, retries of an answer that was lost, immutable objects |
| cohorts (`cohort*.ts`, `native-qualification.ts`) | cohorts, scope uploads, gate pages, evidence | propose, upload, check pages, advance, hold | evidence goes stale while pages are checked one by one |
| distribution (`distribution-*.ts`, `owned-repository.ts`, `release-preparation.ts`) | candidate rows, approvals, transactions, lane pointers, R2 objects | prepare, approve, sign, activate, renew | many awaited reads before one batch that moves several pointers |
| rebuild planning (`rebuild-plan.ts`, `rebuild-cohort.ts`, `arch.ts`) and dependency plans (`dependency-plan.ts`, `worker/dependency.go`) | reports, scope uploads; plans of leases | plan, preview, upload, seal; resolve, fetch, install | what was planned from is edited meanwhile |
| pipeline (`services/pipeline`) | requests, checkpoints, publication jobs, blockers | check upstream, generate, publish, link, check integrity | overlapping cron runs, lost calls, durable workflows |
| worker daemon (`worker/`, Go) | running jobs, what they leave on the host | claim loop, heartbeats, run, upload, report | timeouts, retries of calls that took effect, a kill |
| manifest client (`omarchy/manifest-client`, Go) | state, marker, staged files, image directories | stage, apply, recover, lock | a death between any two writes |

The service's components meet in the database: every write is a guarded UPDATE
or a D1 batch (one transaction), and no lock spans an await. So the modules
model a handler as a record of what it has read, one action per await, and let
anything else happen in between, the end of the handler included. The daemon and
the client are programs of their own: one action per call or durable write, and
a kill between any two.

What is correct, in one sentence each: an attempt's result is reported once and
is its own; an active build was reviewed as it is; a factory run succeeds only
with built attempts and leaves no build behind; the stable index lists the stable
channel and stays closed under requirements; a delivered signature is on record;
a channel serves one published pair and never goes back to a replaced release; a
cohort is staged only on evidence of its current scope; a device runs what it
accepted, in order; a release upstream is taken up once and not forgotten.

## Modules

| module | models | builds on |
|---|---|---|
| `BuildLease` | worker protocol and administration over the builds of one revision | |
| `AttemptLease` | what the worker protocol promises of a build, abstractly | |
| `BuildReview` | finalization of a review | `BuildLease` |
| `FactoryRun` | one factory run, its attempts, builds, workflow executions, polls | |
| `FactoryDossier` | a dossier read from the rows of a run that goes on | `FactoryRun` |
| `ReleaseChannels` | channels, indexes, dependency graph | |
| `CrashQuarantine` | crash reviews and quarantine jobs | `ReleaseChannels` |
| `SigningIntent` | signing intents, their callers, the calls of the signer | |
| `OwnedRepository` | the packages of a release, merged over those of its parent | |
| `DistributionRelease` | candidates, approvals, signing, activation, renewal | `OwnedRepository` |
| `ChannelSwitch` | what a client of a channel relies on, abstractly | |
| `Cohort` | scopes, gates, page ledger, phases, the findings over a candidate universe | |
| `BuildUploads` | the coordinator's side of a build: multipart uploads, completion | |
| `FactoryImages` | image jobs and recipe inspections | `BuildUploads` |
| `BuildDaemon` | the worker daemon over both | `FactoryImages` |
| `SignedRelease` | what the manifest client demands of a release, as operators | |
| `ManifestClient` | stage, apply, commit and recovery on a device | `SignedRelease` |
| `DeviceHistory` | what the client promises of a device, abstractly | |
| `ImageLock` | the locks kept beside system images | `ManifestClient` |
| `UpstreamWatch` | checkpoints, requests and generations of overlapping cron runs | |
| `Workflows` | the durable workflows: a generation, and publication jobs with theirs | `UpstreamWatch` |
| `Pipeline` | the pipeline as a whole: blocked requests and the admission graph, maintainers, the integrity check | `Workflows` |
| `ArchRelation` | versions and relations, as operators | |
| `RebuildPlan` | the planner of a rebuild | `ArchRelation` |
| `RebuildDraft` | a scope revision drafted from its report | `RebuildPlan` |
| `DependencyPlan` | the published packages a build depends on | `ArchRelation` |
| `*MC` | the constants of the small instances | |
| `*Proofs` | the theorems about a module | |

Conventions. `calls` (or a record of the same kind) holds the requests in
progress, each with where it is and what it has read. `Crash` and the like end a
request between two steps: an evicted isolate, a failed storage call. `faults`
counts what goes wrong and is bounded by `MaxFaults`. A definition whose comment
says "Mutant" is not part of any specification: it is a plausible mistake that
one property detects.

### BuildLease and AttemptLease

`workers`, `builds`, `request`, `approvals` are the rows; `store` the keys in
the bucket; `calls` the handlers in flight; `held` the leases daemons received;
`acked` the tokens whose success was acknowledged. `ClaimRead` ... `ClaimReply`
are the steps of `claimJob`, `HeartbeatRead`/`HeartbeatWrite` those of
`heartbeatJob`, and so on. A daemon may use any lease it ever received, at any
time and repeatedly: this covers delay, duplication and loss of its requests.
Tokens are numbers, since the code draws random ones; `NULL` is `0`,
`NoWorker` or `NoKey`. A build has one artifact, and the checks of its
provenance come down to whether its bytes are found.

`AttemptLease` is the contract, without workers, clocks, requests or reviews: an
attempt of a build begins under a token never drawn before, deposits a result of
its own, finishes with it or is abandoned, and only a finished attempt is
confirmed to its worker. `BuildLease!Contract` instantiates it. A heartbeat, a
missed UPDATE and every read are stutters; a revocation, a fence and a completion
that reports missing dependencies, which blocks the request and cancels the other
builds (`CompleteBlocked`), abandon several attempts in one step.

### BuildReview

One handler of `approveRevision` per reviewer, split at its database requests
and at the merge; the batch that queues builds, and `reopenFinalization`. The
state is that of a revision that has builds; its first approval starts a factory
run and is that of `FactoryRun`.

### FactoryRun and FactoryDossier

`run` and `attempts` are rows, `bound` the candidate an attempt was reserved
for, `builds` its private builds. A process record holds where a starter or a
workflow execution is and what it read. Time is abstracted to "the lease has
lapsed". Worker steps are coarse here; their interleavings are in `BuildLease`.
`FactoryDossier` adds the requests for a dossier: one read after the other, while
the run goes on, and the stored form that never changes its contents.

### ReleaseChannels and CrashQuarantine

A call reads `currentStable` and `currentDev` one after the other, keeps them in
its record, and its `...Commit` is the D1 batch: the `...Holds` operator
collects the assertion rows, whose failure rolls the batch back. `index` is the
content of the active snapshot. A requirement is a package name and the set of
releases that satisfy it, so version comparison is outside. `CrashQuarantine`
adds `enqueue` to the reviews and runs `quarantineRelease` under the lease of a
job.

### SigningIntent

A caller (`signingRequest`, `requestManifestSignature`) inserts an intent and
calls the signer once, so an intent also names its request, its call of the
signer and the signature that call makes. `requests` is where the caller is,
`signers` where the signer is and which signature it works with: `ClaimRead`
and `ClaimReset` are `claimSigningIntent`, `SignerLooks` to `SignerPuts` are
`handleSign` with `persistSignature`, `CompleteRead` to `CompleteWrite` are
`completeSigningIntent`. The caller may give up while the signer is at work
(`RequestFails`), the signer may end at any await (`SignerStops`), an intent may
pass its expiry (`Expire`), approvals may go and return (`EvidenceChanges`).
Intents of manifests live in a table of their own, whose trigger (`Immutable`)
is part of the completion. The lease of a claim is written and decides nothing,
so it is left out; so are the triggers on intents of native builds, which compare
the evidence once more and only refuse. The specification is `IntentSpec`: its proofs
share a module with those of `ReleaseChannels`.

### OwnedRepository, DistributionRelease and ChannelSwitch

`repo` holds, per release, the stage of its preparation and the package records
it lists; `artifacts` the stored records, which no preparation overwrites. A
manifest is content addressed; what distinguishes two manifests of a release id is
the team written into it when it is finalized, so a digest is `[id, team]`.
`drafts` says what a manifest says, `rows` and `mapped` are the database's, `txns`
the resolved transactions, `pointers` the lanes. `SignRead` ... `SignManifest`
are `signDistributionRelease` with `finalizeManifest`; `ActivateRead` ...
`ActivateCommit` are `activateDistributionRelease`; `RenewRead` ... `RenewCommit`
the renewal, which shares `Resolve` and `SignTransaction` with it. `Unchanged`
collects what the batch compares; the scope it fences is a revision, a condition
and an evidence epoch, and only some changes of condition move the epoch
(`CohortChange`). There are any number of system and OPR channels. A preparation
reads as parent the active release of its channel and falls back to that of the
stable one (`ParentOf`). `ChannelSwitch` is the contract with clients: a channel
moves to a system and an OPR release nobody has seen, keeps its system and moves to
a new OPR release, renews its pair, or returns to a pair of its system that another
OPR channel's release replaced (`selected` holds all pairs there were).

### Cohort

`Cohort` holds the scope of each cohort, its phase and condition, the uploads of
a chunked scope (a cohort may have several, one after the other), the ledger of
pages and what the pages are checked against:
catalog policy, recipes, reviews, locks, builds, native reports. Triggers move
the evidence epoch; the ledger keeps only pages of the current one, and a call
remembers whether the epoch it read is still current. The gate over the universe
a cohort would serve (duplicate names, unresolved relations and ELF names,
missing ABI inventories, reverse rebuilds, and in a large inventory consumers whose
closure is unknown) is computed by the operators of the section on qualification.
Imports of symbols are not modelled beyond an unresolved import of a package.

### BuildUploads, FactoryImages and BuildDaemon

`BuildUploads` is one build with an output contract: its row, its uploads with
the state of their R2 object, the artifacts of each attempt. A request runs in
the steps its awaits separate, any of them may fail, and the daemon may stop
waiting while the execution goes on; a file's bytes are the attempt that wrote
them and whether all it was given was what was reviewed. A part that is
recorded already is answered when its bytes agree and refused when they conflict,
and a part or a result of an image that exists is returned as it is. `FactoryImages`
adds image jobs and inspections. `BuildDaemon` is the loop, the heartbeat beside a
job and the job, which returns without a report when its lease has expired by the
daemon's clock: `held` is what of it is on the host, `inner` and `outer` what the
deferred calls will remove.

### SignedRelease, ManifestClient, DeviceHistory and ImageLock

`SignedRelease` holds the predicates: URLs and their mutability, identities,
sequences, recoveries. `ManifestClient` is the program: `stage` resolves,
verifies and leaves a plan, `apply` checks again, runs pacman and commits through
a marker which the next run completes. Each step is one durable write. One client
runs at a time: the program takes no lock. `DeviceHistory` is what it promises:
per channel a release in force and the high-water marks of its lanes. `Configs`
are the contents pacman.conf may have. `ImageLock`
keeps all it used of a release beside an image, the lock file last.

### UpstreamWatch to Pipeline

One package and the requests of its releases. `UpstreamWatch` is the scheduled
check with its checkpoint and the generation it starts; `Workflows` the
generation as a durable workflow whose step is retried, and the jobs
that publish a finished build, enqueued by two callers. `ahead` counts the packages
a check visits before this one: those whose requests changed longer ago
(`Neighbours` at most), and a check visits `CheckLimit` packages. `Pipeline` adds the
requests blocked on another and the graph their links are admitted to at a
version; the calls that resolve blockers, which read blockers and releases, resolve
each, and resume the request, dying anywhere; the maintainers' actions, of which
`startFactory` is split at its call of the pipeline and its failure, and a
finalization at its lock, its merge, its batch and its undoing (two finalizations of
one request meet in `BuildReview`); and the integrity check, which reads the branch,
then the rows, then freezes requests one by one. A row carries two counters the code
does not have: `autos`, its automatic generations, and `resumes`, how often a
resolved blocker returned it to an earlier status.

### ArchRelation, RebuildPlan, RebuildDraft and DependencyPlan

`ArchRelation` compares versions and relations as `arch.ts` does. The loops of
the planner are the steps of `RebuildPlan`. `RebuildDraft` is the preview of a
report against catalog and scope and its upload in chunks, with a second caller,
edits and deaths. The preview sorts members by locale (`Collation`), the upload asks
for the order of code units across chunks and for reasons of bounded length.
`DependencyPlan` is the resolution of the reviewed relations by
the server, the plan of the lease, and the worker that fetches its files from a
repository that moves. A release with malformed metadata (`Malformed`) makes its name
known and is no candidate, and a chosen one that cannot be referred to fails the plan.


## Runs

| run | question | bounds | states |
|---|---|---|---|
| `BuildLeaseShared` | can a stale claim, heartbeat, upload or completion do harm? | 2 daemons of one architecture, 1 build, 2 handlers, 2 claims, 1 upload, clock to 4, lease 2 | 1.50 M |
| `BuildReview` | may two finalizers, a fence and running builds disagree? | 2 reviewers, 2 builds, 1 worker call at a time, 3 claims, 1 upload; daemons stay enrolled | 1.65 M |
| `FactoryRun` | do run, attempts, builds and a dossier agree through restarts and stops, and does a dispatched run settle? | 2 targets, 1 starter, 1 workflow, 1 poll, 2 attempts, 1 incident; behaviours with a dossier have no incident | 0.97 M |
| `ReleaseChannels` | can two prepared batches both commit and disagree; is evidence checked again when it counts? | 3 versions (one reviewed as a recipe only) and 1 dependent, 2 handlers; one release gathers crashes, one gets old | 1.53 M |
| `CrashQuarantine` | are jobs settled, though invocations overlap and die? | 2 releases, 1 maintainer, 2 cron invocations, 1 incident, 2 attempts | 52 k |
| `SigningIntent` | do a stored, a recorded and a delivered signature agree, whoever gives up and whatever expires? | 2 publications of one package and 1 manifest, each with 1 call of the signer | 1.79 M |
| `DistributionRelease` | can requests that read long ago publish a pair that does not belong together, or go back? | 2 system and 3 OPR releases, 1 system and 2 OPR channels, 2 requests, 1 approver, 3 transactions, 1 fault | 0.32 M |
| `Cohort` | is a candidate staged only on evidence of what it is now? | 2 cohorts, 2 packages, 1 checker, 1 decider, 1 author, 2 uploads, 1 revision beyond the first, 1 build, 1 change | 0.75 M |
| `BuildDaemon` | do uploads, retries, timeouts and kills leave only reviewed bytes, and nothing on the host? | 2 daemons, 1 file of 2 parts, 2 attempts, 2 faults | 0.48 M |
| `ManifestClient` | do configuration, state, packages and image locks stay those of accepted releases? | 10 releases in 2 channels with recoveries, one that expires and one whose databases differ, 2 faults on the device, 1 at the builder | 0.27 M |
| `Pipeline` | is each upstream release packaged once, reviewed as it is, not forgotten, and handled in the end? | 3 releases, 2 requests, 3 generations, 2 cron runs of which 1 may overlap, 2 callers, 2 linkers, 1 resolver, 1 neighbour before which a check stops, 2 faults | 0.54 M |
| `RebuildDraft` | is the plan what the reports call for, is the draft that plan, are plans of dependencies what gets installed? | all relations over 3 packages among 262 asks; 2 callers and 2 changes per draft; 6 releases (one with malformed metadata), 16 starts, 8 builds, 2 moves per dependency plan | 1.19 M |

What each property says is the comment above its definition.

**The bounds.** They are chosen so that each hazard fits in: two claims make one
token stale, two handlers make one read outdated, a lease of two ticks has an
inside, an end and an outside, two attempts have one that may be followed by
another and one that may not, three versions make the counts of two agree while
the rows differ, two OPR releases after the first give two successors of one
selection and three transactions a renewal between two activations. Budgets are
smaller than in the code (`FACTORY_MAX_ATTEMPTS` is 3, factory-runs.ts:5;
`MAX_ATTEMPTS` of crashes.ts is 5), and so is `CheckLimit` (50, release.ts:507);
nothing depends on the values. The other bounds count actors and what they do:
`Resolvers`, `Auditors` and `Uploads` name calls, checks and uploads, `MaxHuman`,
`MaxEdits`, `MaxLinks` and `MaxChanges` bound actions of people, `Neighbours` other
packages, and `MaxReason` is the length of a reason (2000 characters in the code).
Where a behaviour needs a long prefix to become interesting, a run starts in a later state that the program reaches: `Cohort` with
its library built and qualified and perhaps an upload of one member begun,
`Pipeline` with a request in review, built, or with links between others,
`DistributionRelease` with one pair live and repositories prepared, a
behaviour of `FactoryRun` with a dossier before the builds. The theorems below do not have these bounds.

**Deadlock** is checked for `ManifestClient`, whose operator can always run it
again. Elsewhere budgets run out and nothing is left to do.

**Fairness.** In `FactoryRun`, daemons poll and work, the workflow engine runs a
created workflow to its end and restarts it after a crash, polls recur, and an
unrenewed lease lapses. In `CrashQuarantine`, the cron trigger fires and handles
every job that was due when it began, hence strong fairness per job; time passes.
In `BuildDaemon`, the daemon's loop goes on and gives up what it timed, and the
server answers what it was asked. In `ManifestClient`, operators keep running the
client, and a command that started goes on. In `Pipeline`, the scheduled check
fires again and its run goes on, and an instance of the durable workflow goes on.
A run visits the package only while fewer than `CheckLimit` others precede it, and
a check does not move the others: a package may wait behind them for ever, which
`ReleaseHandled` allows (`ahead >= CheckLimit`).
Maintainers, reviewers and administrators owe nothing anywhere.

## Proofs

Eight modules hold theorems about every value of the constants, under the
assumptions the modules state. Theorem names are those in the proof modules.

| module | invariant | what follows |
|---|---|---|
| `BuildReviewProofs` (protocol) | `LeaseInv`, `BytesInv` | `LeasedByActiveWorker`, `ArtifactOfItsAttempt`, `ArtifactIsItsOwn`, `AckedSuccessDurable`, `SucceededStays`, `LiveLeaseNotStolen`, and the refinement `ImplementsContract` |
| `BuildReviewProofs` (composition) | `ReviewInv` | `ActiveBuildIsReviewed`, `RequestFollowsBuilds`, and `ArtifactIsItsOwn` and `ImplementsContract` of the composition |
| `FactoryRunProofs` | `FactoryInv`, `DossierInv` | `RunIsSound`, `NoOrphanBuilds`, `FinalStays`, `DossierAgrees` |
| `PublicationProofs` (channels) | `ChannelsInv` | `StableIsIndexed`, `MovesAreDecided`, `DependenciesKept` |
| `CohortProofs` | `CohortInv` | `StagedIsSound`, `AdvancedOnCurrentEvidence`, `ScopeIsAdopted` |
| `PublicationProofs` (signing) | `IntentInv` | `SignedIsAudited`, `AcceptedIsRecorded`, `SignatureIsRecorded`, `FinalIntentStays`, `SettledSignatureStays` |
| `DistributionReleaseProofs` | `ReleaseInv`, `CurrentInv` | `PublishedIsSound`, `RepositoriesAreSound`, `ActivatedInScope`, and the refinement `ImplementsSwitch` |
| `PipelineProofs` | `PipelineInv` | `RequestsAreSound`, `ReviewIsCurrent` |
| `BuildDaemonProofs` | `DaemonInv` | `UploadsAreReviewed`, `NothingLeft` |
| `ManifestClientProofs` | `ClientInv` | `ConfigMatchesState`, `InstalledAsReviewed`, and the refinement `AcceptsInOrder` |

None of the properties is inductive. In each module the same question decides:
what may the record of a request still rely on, although all it read is old?

**BuildLease.** `LeaseInv` adds to the types that tokens on rows, in calls and in
daemons' hands are below `issued` and belong to one build, that a call whose
token is still on the row has read the row's attempt, that the key of an upload
in flight names the attempt it was stored for, and that an acknowledged token is
that of a succeeded row. One lemma per family of actions shows it is kept. The
refinement reads the rows as attempts (`Current`, `Finished`); that a success is
only written over a deposit of the same attempt comes from `CallBound` and
`ArtifactOfItsAttempt`. `BytesInv` says where the bytes of a leased row are while
uploads of other attempts are cleaned up.

**BuildReview.** The handlers of a review write rows that are cancelled or failed,
the status of the request and the approvals (`Written`). So `LeaseInv` and the
contract survive the composition, and with them the agreement of rows, request and
approvals: a build is only active under unrevoked approvals, and only while its
request is building or succeeded.

**BuildDaemon.** Two questions share one invariant. `HostInv` says, for every point
of a job, that what is on the host is what the deferred calls will remove or what
the step under way removes itself (`UnderWay`); an idle daemon has neither. For the
artifacts, deleting an object and recording it are not one transaction, and a
deletion decided long ago may still be on its way when an upload is recorded. That
none hits a recorded object rests on what daemons ask for, in `RequestsInv`: at most
one completion of a package in an attempt, and only after every part of it was
answered (`AsksOnce`). So while a request may still delete, the package has no
artifact and no other completion (`AskedForIsSpare`). An upload that is superseded
is of an earlier attempt, and is neither recorded nor can be any more, since
recording asks for the lease (`RowsInv`, `SupersededIsSpare`). That the bytes are
those of the attempt and of reviewed input is `WorkOf` for the daemon, `RowOf` for
what it declared, and the hash in between (`RequestOf`). A job is a build, an image
or an inspection, with any number of daemons, packages, parts, leases and failures.

**FactoryRun.** What makes stale starters, executions and polls harmless is how
far ahead of the run they can be: one that reserves is at most one attempt ahead,
one that builds or finishes is never ahead, and one that finishes well has seen all
its builds succeeded, which nothing undoes (`ProcBound`). `DossierInv` follows a
dossier through its three reads: what was final when read is so of the rows now
(`Agreeing`), the attempts read cover every row read before them (`Whole`), and a
repair read as succeeded has all its builds read after it (`RepairBuilt`).

**ReleaseChannels.** A handler commits what it prepared from rows read long
before, and its batch compares inclusions and counts. `CallBound` says what the
handler established of the rows it read; the lemmas show that the comparisons make
these rows the rows there are, so the graph that was checked is the graph that
results. A quarantine compares less: `Unseen` names the exception, described below.

**Cohort.** A chunked scope advances on a ledger of pages that were checked at
different moments. Since every change of what a gate reads moves the epoch, a clean
page is clean now (`LedgerInv`), and clean pages of all members are the gate of the
whole scope (`LedgerGate`). An inline scope has no epoch: its batch repeats the
fences of the members but not the findings over the universe. These stay what they
were because the outputs of a scope past its build phase cannot change while its
recipes are the latest (`Settled`), and that is because only a scope that lists a
recipe selects inputs and builds for it, and a recipe has one owner (`NotListed`).
That no findings means that the universe can be installed is `FindingsSound`; it
needs that no build makes the very bytes of a package the parent lists
(`ParentAssumption`; an output of the same bytes replaces nothing, so the code asks
for no rebuild of its consumers). The theorems start
from no cohort; the run's later start satisfies `CohortInv` as well.

**SigningIntent.** `Agrees` relates, intent by intent, the row, the call of the
signer, the request and the events: an event exists exactly for a signed row, a
call that ended signed left its signature on the row, a caller past its wait has
such a call, and a request not made yet has neither.

**DistributionRelease.** Almost nothing a request reads can change: a draft, a
prepared repository and a transaction are written once, a signed row stays
signed, an active one active. The pointer of a lane is what moves; it is compared
in the batch and moves only to a row made for what it pointed at, and the sequence
numbers of a lane tell its releases apart. The batch compares revision, condition
and epoch of the scope with what passed the gates (`ScopeBound`); the condition counts,
as not each change moves the epoch. The refinement of `ChannelSwitch` (`SwitchImplemented`) holds for any number of system and
OPR channels, and needs one more invariant (`CurrentInv`): the OPR manifest a channel
serves is the one its lane points at, unless another channel moved that lane, and then
to a manifest for another system. So a renewal, whose batch compares the pointer of
its pair's lane, either keeps the pair or returns to one of another OPR channel. With a
single OPR channel it keeps the pair; with the two the service ships with it may not,
see below.

**ManifestClient.** The program may die between any two writes and a later run
reads what it left. So `ClientInv` is about the files: metadata.json exists only
beside the plan and the configuration it was written for (`MetadataInv`), and a
marker names a state that is the state file's replacement by one release the
client may accept, or already is the state file (`MarkerInv`). That this holds from
the check until the commit, whatever expires or is edited meanwhile, is `ApplyInv`.
`ConfigAssumption` says that editing or rewriting a pacman.conf gives a pacman.conf.

**Pipeline.** Statements, not transactions: what a cron run read of a request may be
untrue at its next statement. `RowsInv` says what rows always are: numbered in the
order of insertion, generations bounded and automatic ones by the budget, releases
that exist, and a checkpoint that holds a release some row or the published recipe
knows (`Known`). `ChecksInv` says what survives of a reading. A cron run about to
claim a failed request holds a generation for which the budget was there, and a row
that still has it has not been claimed since. The claim of a pending request asks
for its status only (release.ts:646), and pending may have come back: the request
was generated, blocked, and resumed. So the bound that holds, for any number of
overlapping runs, is the budget and one more for each resumption
(`GenerationsBounded`): a pending row that was generated before has one left, since
nothing but a resumption brought it back. `CallsInv` has the starts under way refer
to rows. `InstancesInv` has an open pull request before a workflow persists its revision; the conditional write of
`persistFactoryRevision` and the undoing of a finalization that queued nothing
(`ReopenFinalization`) give `ReviewIsCurrent`. `LinksInv` says that a call about to
link was checked against the present graph, or that the version has moved on, and
then its UPDATE writes nothing. Resolving a blocker takes edges away, which keeps a
graph admissible (`FewerEdges`: the levels of the recursion shrink; the induction
over levels is done with least elements of sets, which needs no operator as a
parameter). `ReleaseKept` speaks of sources that name each release apart; with a
moving archive the code forgets releases, see below. No theorem has a
hypothesis about who acts when.

**Assumptions on constants.** Lease lengths, budgets and thresholds are positive or
natural numbers; the releases of `ReleaseChannels` are finitely many and differ in
their time; the packages of `Cohort` are finitely many, each with an order and a
first recipe; null values differ from what they stand in for; the admission graph
of `Pipeline` has at least one level (eight in the code); a build has workers, a contract an
output and an upload a part; in
`DistributionRelease` a release's channel is of its lane's kind, native records are
of their cohort revision, and the start is a pair whose packages agree
(`FirstAssumption`); releases of the client have natural sequences and a known
channel. TLC evaluates each of them in the run of the module.

**Only model-checked**, and why:

- liveness under fairness (`RunSettles`, `JobsSettle`, `JobEnds`, `ReleaseHandled`
  of `Pipeline`, `CommitCompletes`): out of reach of the provers;
- `LockDescribesDirectory`, `PlanIsSound`, `PlannedIsInstalled`, `DraftKeepsReport`:
  they speak of what filters and folds over sequences and recursive definitions
  compute, which needs induction over data.

## Noticed while modelling

The modules follow the code. Where a document, a comment or a test says otherwise:

Worker protocol and reviews
- worker-results.ts:260: after storing an artifact and the guarded UPDATE, the
  upload re-reads the row and deletes its own bytes unless the row is returned and
  names them. Once a reviewer is fenced `getBuildForWorker` returns null also when
  the UPDATE matched and the build has succeeded since: a succeeded build keeps a
  key whose object is gone (line 250: "retain private bytes after an uncertain
  commit; prune only after attempt retention expires");
- requests.ts:229: a finalization that ends between its lock and the queueing
  batch, when one architecture has succeeded, leaves a queued request that no
  approval and no retry resumes (line 274: "Repeating approval retries PR
  merge/queueing after a transient GitHub failure");
- worker-results.ts:88 answers a heartbeat with a new expiry although the UPDATE
  matched nothing (docs/worker-protocol.md:66);
- worker-results.ts:595 marks the request failed although the completion that
  arrived was fenced (docs/worker-protocol.md:18);
- worker-uploads.ts: a second `complete` of one upload ends in an abort that
  throws, and then deletes bytes that may be committed as an artifact already;
- worker-uploads.ts: an upload row that was not inserted, since the lease was
  fenced, still answers with an upload id.

Factory
- factory-runs.ts:384: the lease of an attempt is 30 minutes and only image runs
  renew it, so the heartbeat of a daemon that builds longer is refused, and the run
  waits for the limit of its workflow (docs/worker-protocol.md:43: "Leases last 180
  seconds and refresh every 30 seconds");
- factory-runs.ts:454 returns the row of a raced reservation without comparing the
  candidates, as the first read does;
- the hashing of a completed image upload can outlast the daemon's timeout, and
  the job is reported failed; a leased image job whose daemon died is not requeued;
- factory-dossier.ts:610 to 848 reads its rows one query after another, so a
  dossier may show an attempt succeeded whose build check is still missing, and
  `attemptEvidenceComplete` counts an attempt in progress with builds as complete.

Releases and crash policy
- releases.ts:215: the batch of a publication compares other packages' dev rows by
  id and its own package's by number only, so after a promotion and a publication
  in between a stale snapshot becomes the dev index (docs/review-resolution.md:12);
- releases.ts:443 does not look at the crashes of the version a rollback brings
  back (docs/distribution.md:3);
- releases.ts:552: `quarantineRelease` reads its target and the stable rows
  separately and never checks that the target is one of them. If it is replaced in
  between, its successor quarantined, a dependent promoted while the name was
  Arch's to meet, and the successor promoted again and rolled back to the target,
  the batch's assertions hold and it withdraws a release that a stable one requires
  (docs/requirements.md:92). This came out of the proof of `DependenciesKept`,
  whose `Unseen` excludes exactly these steps;
- crashes.ts:39: a report confirmed while a job is processing is not acted upon
  (docs/requirements.md:93).

Signing
- signing-control.ts:835: the UPDATE that completes a manifest's intent names
  `key_fingerprint`, which a trigger of migrations/0047_distribution_releases.sql:72
  aborts: the completion is rolled back and no manifest is ever signed
  (docs/signing-design.md:114);
- signer/src/index.ts:772 puts a signature without a condition, so of two calls
  that both found none the second replaces the signature the first has reported
  (docs/distribution.md:139); both signatures are valid.

Distribution
- distribution-releases.ts:1283 to 1302: with two OPR channels, a renewal that read
  the pair (s, o1) may commit it over (s, o2): the batch compares the pointers of the
  lane of o1 only, and the transaction that is renewed is read once more after the
  pair (line 1282: "Renew short-lived resolved control for the unchanged active
  system/OPR pair"). The last disjunct of `ChannelSwitch!Move` allows this case. It
  came out of the proof of `ImplementsSwitch`;
- around line 1090, a renewal whose transaction was stored and not activated can
  never be repeated (docs/plans/execution.md:778); around line 1100, an authorized
  recovery cannot activate the first time (docs/plans/arch-repository-ownership.md:308);
- the OPR pointer is shared by the system channels, so an OPR activation in one
  blocks the renewal of the other; an approval added between signing and activation
  makes the activation impossible; the release team is not compared in the
  activation's batch; a system release that names an OPR digest never resolves;
- a request that dies in `finalizeManifest` after its row and before its objects, or
  between immutable bytes and their row, or part-way through a preparation, leaves a
  release id that cannot be used again; after a cohort revision with a reproducible
  rebuild the stored row of an artifact keeps its old revision, and preparations
  that include it are refused;
- client.go:1048 refuses a manifest that lists a repository name twice before it
  selects the architecture; distribution-releases.ts:826 requires both
  architectures and owned-repository.ts:566 names both alike, so no transaction the
  service signs can be read (omarchy/manifest-client/CONTRACT.md:23);
- distribution-releases.ts:292 publishes quarantined OPR manifests below
  `/repo/opr/quarantine/`, a path client.go:837 refuses as mutable.

Cohorts
- cohort-qualification.ts:489 and 510: the record a parent holds of a consumer is
  reported as needing a rebuild also when the cohort rebuilt it, so a coupled
  rebuild never leaves verification (docs/plans/arch-repository-ownership.md:15);
- cohort-gates.ts demands build artifacts where system coverage names the root of a
  universe, so a system cohort never leaves verification; migrations/0048 excludes
  the status 'independently-reproduced'; all providers of a virtual capability must
  be in the consumer's lock, and cyclic dependencies never settle; a failing native
  report between an inline evaluation and its commit is not compared.

Daemon and client
- after a daemon is killed in a build, its container goes on under a name the next
  attempt needs, so that attempt is reported failed for good;
- two client processes exclude each other nowhere; an edit of pacman.conf during a
  pending commit is overwritten; a state file without a map of channels loses the
  marks of stable once an edge release is applied (client.go:101 to 148,
  CONTRACT.md:49); sections appended last may break the signed order
  (config.go:87, omarchy/README.md:6); `compareSystemVersion` ranks "4.0.3-rc2"
  above "4.0.3" (docs/cohort-scopes.md:17); a run of image-lock that died makes its
  directory unusable without `--overwrite`.

Pipeline
- release.ts:646: a pending request is claimed on the count of an earlier statement,
  so one that was generated, blocked and resumed in between gets a generation beyond
  the budget (docs/implementation-plan.md:16: "Three automatic generations are
  allowed for one detected update"): `GenerationsBounded` fails without `resumes`;
- release.ts:507: a check visits the 50 packages whose requests changed longest ago
  and does not change them, so a package behind 50 quiet ones is never checked
  (docs/proposal.md:150): `ReleaseHandled` fails without its escape;
- release.ts:534: a source whose URL is the same for each release (a moving archive)
  matches any active request and the newer release is forgotten (comment at
  release.ts:562);
- dependency-blockers.ts:209 looks for open blockers only: a call that ends after it
  resolved the last one and before it resumes the request (line 242) leaves the
  request blocked with nothing to resolve;
- the query for active requests leaves out 'blocked', the unique index counts it,
  so the insertion fails at each tick; a publication marked dispatched after its
  workflow failed is never requeued;
- after a generation whose factory run started, `runFactory` refuses its automatic
  successors (docs/implementation-plan.md:16); a request in review or resumed by its
  dependency whose run succeeded fails when it is generated again (README.md:91);
  a step that is retried after its candidate was stored stops its run;
- the repair of a 'review' revision is not fenced against a new generation; a
  resumed blocked request returns to review with the revision of an older one;
- a request of a maintainer left 'generating' by an instance that is gone blocks its
  name; one rejected is opened again by the next check of a git source; two
  overlapping checks may open two requests for one release when the first fails fast;
- the integrity check reads the head of the branch before the rows, so a request
  finalized in between is frozen as failed.

Rebuilds and dependency plans
- `archRelationCovers` says that native "=1-2" covers a reviewed ">1-1" although a
  provided version "1" satisfies only the first, and likewise "lib:libx.so.1" a
  reviewed "libx.so"; `StricterCovers` is about full versions of one name;
- rebuild-cohort.ts:224 sorts members by `localeCompare`, cohort-scope-uploads.ts:67
  asks for code-unit order across chunks: a draft of several chunks with names which
  the two order differently is refused, each time it is sent again;
- a rebuild draft cannot add a package to a scope and keeps removed ones as members;
  the planner bounds no list of causes, the parser of its reports refuses more than
  256; a trigger present on one target only makes the whole script throw;
- a dev release promoted or quarantined between lease and fetch makes the worker's
  URL answer 404, and the build is reported failed
  (src/routes/repo/[...path]/+server.ts:93); greedy resolution refuses two relations
  that one release satisfies; of two releases with one filename the newest is
  served, whatever the plan's digest; the worker accepts what a package provides
  under its own name, the server its version only.

## Not modelled, and the plan

Not modelled: the authentication of workers (Ed25519 signatures, the table of
nonces, enrollment tokens); job logs; enrollment, configuration and capture
commands of the daemon; the first approval of a revision, promotion of private
artifacts, and starts of images and cohorts; changelogs, the resumable
ABI index, imports of the catalog and retention of inputs; the triggers that
compare evidence of native signing intents once more; repositories whose names
become one file name beside an image (image_lock.go:194); removals of containers and
images that fail (runner.go:164 to 202); the comparison of a final Omarchy pair with
the bytes of its candidate; authorized recovery targets; formats
(tar databases, OpenPGP, KMS: a signature is valid or not). The agent, GitHub and
the models of the pipeline are external: they answer anything. Left aside for good:
pages and styles, wording and layout, shell scripts, third-party code,
infrastructure.

Every safety property of the runs is proved except those of recursive definitions
named above. What is left to model is the list of this section, the evidence of
native signing first.
