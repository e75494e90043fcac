# Verification of rangezip

rangezip reads a remote ZIP archive through HTTP Range requests and extracts
selected entries into an R2 bucket, or into a user's own S3 bucket, with a
fleet of Cloudflare Durable Objects. This directory holds TLA+ models of its
logic, TLC configurations that check them on small instances, and TLAPS proofs
of what matters most for every instance.

Source paths below (`job.ts`, `extract.ts`, ...) are relative to the
repository's `src` directory unless they begin with `scripts/` or are
`README.md` (the repository's). `PROJECT.json` maps every definition to the
lines it stands for.

Contents: [the system's parts](#the-systems-parts) -
[how they interact](#how-the-parts-interact) - [modules](#the-modules) -
[correspondence](#state-and-actions-module-by-module) - [runs](#the-runs) -
[bounds](#bounds-and-why-they-are-enough) - [fairness](#fairness) -
[proofs](#what-is-proved) -
[divergences](#where-the-documentation-and-the-code-differ) -
[left out](#what-is-not-modelled) - [plan](#plan)

## The system's parts

| part | state | operations | what is hard | what makes it correct |
| --- | --- | --- | --- | --- |
| coordinator, `job.ts` (a Durable Object per job) | SQLite tables `job` and `file`, the alarm; in memory: `byoConfig`, the `workerInFlight` map, the metrics sink, sockets | `start`, the background `runJob`, RPC `reportFileResult`, resolution of each shard's call, `alarm` with `deletePrefix`, `report`/snapshot | reports of many workers interleave; eviction and crashes; lost and late reports; repeated alarms | a completed job has settled every file; done is final and stored; the cleanup deletes everything, once, and only in the demo bucket; credentials are dropped |
| extraction workers, `extract-worker.ts` (a Durable Object per shard) | the queue of its entries, `inFlight`, the user's credentials | `extractShard`, `extractOne`, `report` | a pool of loops shares one queue and counter; the isolate dies in the middle | the pool is saturated and never exceeded; reports come in order |
| sharding, `shard.ts` | none (a function) | `shardEntries`, `chooseWorkerCount` | zero sizes, more workers than entries | every entry in one shard, shards balanced |
| entry extraction, `extract.ts`, `zip/multipart-plan.ts` | the open upload, the parts, the stream | single put fed by a pump; plan, create, parts in parallel, complete, abort | siblings of a failed part are still on their way; lost answers | nobody reads a part of a file; done means whole |
| buckets, `effect/services.ts`, `destination.ts` | external | put, create, part, complete, abort, list, delete | a call that took effect and failed | (with the entry extraction) |
| range source, `effect/services.ts` | retry schedule, range metrics | size probe, `readRange`, `streamRange` | Retry-After, backoff, elapsed budget, sources that ignore the header | bounded retries, honoured cooldowns, bytes counted once |
| archive index, `extract.ts`, `zip/eocd.ts`, `zip/central-directory.ts`, `zip/byte-reader.ts` | the tail read so far | `readIndex`: find the end record, grow the window once, read and walk the directory, ZIP64 | sentinels, positional extra fields, comments | the index is the archive's entries |
| destination form and check, `ui.ts`, `destination.ts`, `app.ts` | the form, `byoValidated`, the button; the probe object | edits, "Validate access" (put and delete), Extract | answers after edits; two checks of one bucket | only a checked bucket is written to; a leftover is reported |
| access and usage, `app.ts`, `auth/*`, `registry/*` | Registry tables `codes`, `usage_events`; signed cookies | sign-in, logout, gates, create/revoke code, start a job, usage events | revocation between check and session, sessions that expire between two looks, events lost half-way | revoked codes drain; events tell what happened |
| metrics and messages, `metrics.ts`, `effect/metrics-sink.ts`, `progress.ts` | counters; snapshot and delta messages | merge, observe in-flight, persist, broadcast | overwritten by a rebuilt object | honest counts |
| demo page, `ui.ts` | current and stored job id, poll timer, countdown, what is shown | extract, socket messages, polls, countdown, reload | answers that are stale when they arrive | the page never runs ahead and learns the end |
| sample builder, `scripts/sample-builder/src/builder-do.ts`, `zip64.ts` (a Durable Object) | saved `BuilderState`, the alarm; in memory a copy, the part buffer | start, abort, alarm, `runUntilBudget` | yields within an entry or a header, restarts over uploaded parts, two runs at once | the archive that is completed can be read |
| builder's plan and checksum, `scripts/sample-builder/src/plan.ts`, `crc32.ts` | the variables of a loop | `buildPlan`; `crc32Combine`, called for each block of an entry | an entry trimmed to the target; bits lost past 32, blocks of zero bytes | the plan lands at its target, names differ; each block is advanced over exactly what is behind it |
| verifier, `scripts/sample-builder/verify-disk.ts` | what it read of one archive | locate, parse, count, pick, extract | a misleading end record, a damaged directory, names that repeat | what it passes is whole |
| shared bucket and output routes, `app.ts`, `services.ts`, `job.ts` | the demo bucket with the objects of all jobs | list and download for a client, page by page, against writes and cleanups | keys of two jobs, pages that move while they are read | a client gets files of its job only, and all that is done until the cleanup |
| admin page, `admin-ui.ts` | panel, table, timeline, the code just made, button | enter, list, generate, revoke, timeline, log out | answers in another order than the clicks; a session that ends | the panel shows what the Registry said, to an administrator only |
| entry point, Effect runtime, other scripts | none of their own | - | - | see [left out](#what-is-not-modelled) |

## How the parts interact

The page posts `/extract` to the Worker (`app.ts`), which checks the session,
asks the source for the archive's size and calls the coordinator's `start`.
The coordinator answers at once and goes on in the background: it reads the
archive's index over the range source, waits for the Registry to record
`job_started`, seeds its file table, splits the entries and calls
`extractShard` on every worker at once. A worker runs six loops over its
queue; each loop awaits the coordinator's answer to a report (`extracting`,
then `done` or `failed`) and extracts the entry in between. A report updates
its row and the in-flight map and is broadcast to the sockets. When the call
of the last shard resolves, the job is completed; in the demo bucket an alarm
is set, which later deletes everything under the job's prefix, page by page.
The page follows over a socket and, every two seconds, a poll.

All jobs share one demo bucket: the listing and download routes ask a job's
coordinator for its report and then go to the bucket, while workers of this and
other jobs write and the alarms of expired jobs delete. The admin page talks to
the same Registry as the sign-in.

Shared state is the coordinator's SQLite (turns are atomic: its API is
synchronous), the bucket, the Registry's tables and the page's variables.
Everything else is a message or a call that is awaited, and all interleavings
at those awaits are explored.

## The modules

| module | what it is |
| --- | --- |
| `ExtractWorker` | the workers of one job and the bucket they write to |
| `ExtractJob` (extends it) | the coordinator, composed with the workers: reports, shards, cleanup, eviction |
| `JobPromise` | abstract: what a job promises to the client that polls it |
| `JobProperties` | properties of `ExtractJob`, the refinement to `JobPromise`, fairness |
| `JobInvariant`, `JobProofs`, `SettledProofs` | the inductive invariant of the job; its proofs; the proofs about rows, objects and the promise |
| `ExtractEntry`, `EntryPromise`, `EntryProofs` | one entry's extraction; what a worker relies on; the proofs |
| `JobOutput` | the bucket all jobs share and the routes that read it |
| `RangeFetch` | one range request with its retries |
| `ZipIndex` | reading the index of an archive |
| `VerifyDisk` (extends `ZipIndex`), `ZipProofs` | the verifier of a published sample; the proofs of both |
| `Sharding` | the split of the entries |
| `Access`, `RequestProofs` | codes, sessions, gates, usage events; the proofs of this and of `RangeFetch` |
| `ByoForm` | the destination form and the check of a user's bucket |
| `AdminPage`, `PageProofs` | the administrators' page against the Registry; the proofs of this, the form, the shared bucket and the demo page |
| `ProgressClient` | the page that follows jobs, against the jobs' messages |
| `SampleBuilder`, `BuilderProofs` | the builder of the demo archive; its proofs |
| `SamplePlan`, `Checksum`, `LoopProofs` | the builder's plan and its combined checksums; the proofs of these and of `Sharding` |
| `MC*` | instances for TLC: lists, name maps, symmetry; `MCPages` and `MCLoops` host several small components side by side |

Three compositions carry the design. `ExtractJob` EXTENDS `ExtractWorker` and
conjoins the coordinator's handlers to the workers' (`ReportFileResult` is
`ReportAnswered` of a worker and the update of the row). `ExtractEntry`
implements `EntryPromise`, and that is all `ExtractWorker` assumes of an
extraction: `ExtractEntryOk` is its `Succeed`, `ExtractEntryFails` its `Fail`,
with an object or without. One thing is coarser there: a write that lands
after its failure was reported (`Land` after `Fail`) happens, in
`ExtractWorker`, before the report. The third is `JobOutput`: of each job it
keeps what a reader of the bucket can tell, rows that settle one by one and a
completion when all have, and puts many jobs and their readers around one
bucket, which `ExtractJob` has for one job alone.

## State and actions, module by module

**ExtractWorker.** The loops of a pool are interchangeable, so `stage` has for
each entry how far its extraction is; a loop is an entry in an active stage.
`outbox[w]` holds the `reportFileResult` calls of a worker that are not yet
answered, in the order they were made (calls on one stub are delivered in
order), each with the `inFlight` count it carries. `ExtractShard` is the first
turn of `extractShard`: every loop takes an entry before any of them waits;
`RuntimeFails` is the call that throws in that turn, before any loop, with the
credentials already taken.
`ReportAnswered` lets the loop go on: after a terminal report it gives up its
count and, in the same turn, takes the next entry. `ShardReturns` drops the
credentials. `WorkerDies` is the loss of the isolate, whose sent calls may
still come through and whose credentials are gone with it; `WorkerEvicted` ends
what a worker without a runtime still holds.

**ExtractJob.** `job`, `file` and `alarm`/`tries` are durable, the rest is lost
by `Evict`. `Start`, `ReadIndexOk`, `ReadIndexFails`, `StartRecorded`,
`ApplyShardSummary`, `FailShard` and `RunEnds` are the turns of `runJob`
between its awaits; `FanOut` and `Complete` are what such a turn does.
`StartsWithoutRuntime` is a `start` whose `runJob` throws at once, outside its
`try`: the job stays pending and the credentials stay until `Evict`.
`AlarmFires`, `ListPrefix`, `DeletePage`, `SweepThrows` are the alarm handler;
the platform repeats a handler that throws `ALARM_TRIES` times. A row keeps
whether its `key` and `error` columns are set, not their values; of the
metrics there is the phase, whether the size was measured, workers, peak and
files extracted. Names are numbers in the bucket's listing order.
What `report` says of the metrics is `CurrentMetrics`: those of the live sink
while there is one, the row's otherwise. The alarm of a completed demo job may
be refused (`ScheduleRefused`): `Finish` is the catch of `runJob`, which marks
the job failed. `FILES_PER_WORKER` and the cap of the fleet are constants; which
shard an entry goes to is any assignment here, `Sharding` says which.

**ExtractEntry.** `ctl` says where `extractEntry` stands, `part` where each
part's fiber stands; `flying` are the `uploadPart` calls that have not reached
the bucket, which an interruption does not recall. On the single path `pump`
and `put` run side by side. An object is the sequence of byte ranges it is
made of.

**RangeFetch.** `Fetch`, then one of `AnswerUsable`, `AnswerPermanent`,
`AnswerTransient` (with the cooldown slept and the schedule asked), then
`ReadBody`. Time advances by latencies and waits. A source answers a range as
HTTP defines it: cut at the archive's end, 416 beyond it, an invalid range as
if there were none.

**ZipIndex.** An archive is a layout: lengths, the values that may be promoted,
the comment. `ReadTail` looks for the record in the window and doubles it,
`ReadDirectory` walks the headers and resolves their fields, `ReadFails` is
any read that fails. Lengths and sentinels are scaled down together.

**VerifyDisk.** The parsers of `ZipIndex`, its variables and its operators, in
the hands of another reader: `VerifyTail` has one window and no second,
`VerifyDirectory` parses, counts what it parsed against the end record, asks
for a JPEG and for an offset past 4 GiB, and picks; `VerifyEntry` extracts the
next pick. What an extraction compares is one verdict per entry
(`traits[i].damage`); any of the steps may reject the archive. An end record
inside the comment has fields of its own (`says`), and where they point there
may be headers of another archive, or the rest of this one's (`Headers`,
`Parsed`).

**JobOutput.** A file name is its slash and what is left without it, because
`joinKey` drops leading slashes and so two names may mean one key. `AskFiles`
and `AskFile` are the turn at the coordinator (the report; 404, a user's
bucket, a name with `..`), `ListFiles`, one page at a time, and `GetFile` what
follows at the bucket. `SweepLists` and `SweepDeletes` are the cleanup of one
job. A call keeps
what was done when it asked (`known`), which the code does not: the properties
speak of it.

**Sharding.** One action, `Place`, is one turn of the loop; entries of equal
size may come in either order (the sort is stable, the archive's order is not
modelled, so all orders are covered).

**Access.** A handler is a request in `request` that goes from await to await:
`Send`, `Validate`, `RecordSession`, `SignAdmin`, `Answer` for sign-in;
`Gate`, `AdminCall`, `PreflightFails`, `Start` behind the gates. Tokens are
identities whose signature is sound; `Expires` may happen at any time.
`JobStarted`/`JobCompleted`/`JobFails` are the usage events of a job, recorded
best-effort. `events` keeps the first `MaxEvents` events.

**ByoForm.** A form stands for all six fields. `ValidateClicked` sends what the
form holds, `PutProbe` and `DeleteProbe` are the two calls at the bucket (which
may refuse either, at any time), `CheckLost` the loss of the Worker before or
after either; `Validated`/`ValidateFails` is the answer at the page, or none,
after which the Worker may go on unheard. `DoExtract` is the click and
`ExtractAnswered` its end: an answer sets the button by its rule, a failure
then enables it in any case (`ShowExtractErr`).
With `Patient` the user waits for the answer to a check before typing on, but
not for that to an extraction; `meddled` and `overruled` remember, as the page
does not, that the form was changed while one was under way and that its failure
set the button last, and `told` (`passed`, `refused`, `unheard`) what the page
heard of each form.

**AdminPage.** Every handler is a request in a slot and what is done with its
answer; the Registry serves them in any order (`Serve`), answers come back in
any order or not at all. `calm` remembers whether the user has so far waited
for each answer, and `revokedHere` what this page itself revoked and then
listed: history the properties need and the page does not have.

**ProgressClient.** `server` is the job's side; `ws`, `polls`, `listings`,
`extracting`, `reconnecting` is what is on the way, and answers in the sets
arrive in any order. Page handlers are one action each: `HandleMessage`,
`PollTick`, `PollAnswered`, `CountdownTick`, `FilesListed`/`FilesLost`, `Reload`,
`Reconnected`. "Sign out" is `LogOut`, which forgets the stored job at once, and
then `VisitEnds`, the page loaded again, or `LogoutLost`, the request that
rejects and leaves the page following its job; `left` remembers which jobs those
were. `SignIn` looks for no stored job, a page that is loaded within a session
does (`Loaded`).

**SampleBuilder.** A run works on its own copy of the state (`runs[r].state`)
with a part buffer, and writes `saved` only when it yields, fails or ends.
Bytes are records of what they are. The local steps of a run
(`BeginHeader`, `Copy`, `HeaderDone`, ...) go on, undisturbed by other
handlers, up to its next call to R2 (`Filling`): they touch only the run's own
record, so nothing else can tell. Calls to R2 land (`PartLands`,
`CompleteLands`) before the run hears of it and saves (`PartReturns`,
`CompleteReturns`), and an abort, another start or a restart may come in
between; a part after which the run does not yield is one step, since nobody
can see the difference.

**SamplePlan.** `PlanTurn` is one turn of the `while` loop of `buildPlan`: a
text entry when one is due, and a media entry of the next size in turn or of
what remains, with a floor. `kind`, `folder` and `number` stand for the name.

**Checksum.** CRC-32 is linear, so a checksum of concatenated blocks is the xor
of the blocks' own, each advanced over the zero bits that stand for what comes
behind. An operator of `crc32Combine`, a matrix of bits, is the number of zero
bits it advances over: squaring doubles it, applying it adds. `EvenTurn` and
`OddTurn` are the halves of its loop. `WORD` is 2^32, at which `>>>` cuts.

## The runs

Every run is exhaustive for its bounds. Times are on two cores.

| run | spec, bounds | checks | states |
| --- | --- | --- | --- |
| `job_settles` | 2 entries, 2 workers x 2 loops; workers die or cannot build a runtime, bucket calls throw; fair | `TypeOK`, `CompletedIsHonest`, `CleanedMeansEmpty`, `KeepsPromise` (refinement of `JobPromise`), `ReportedMetricsStay`, `JobSettles`, `OutputExpires` | 109 744, 25 s |
| `job_anyfault` | 2 entries, 2 workers x 1 loop; every fault at once | `PoolSaturated`, `PeakWithinFleet`, `DoneIsStored`, `CompletedDemoIsScheduled`, `CredentialsAreTransient`, `DoneIsFinal`, `ByoIsKept` | 2 717 108, 95 s |
| `lost_report` | reports may be lost | violation of `CompletedMeansSettled` | |
| `entry_faults` | 8 sizes around the threshold and the limits, up to 5 parts, 2 fibers | `NeverPartial`, `FlyingBounded`, `KeepsEntryPromise` (refinement of `EntryPromise`) | 1 508, 1 s |
| `range_honest` | the probe and 3 ranges, all statuses, 4 Retry-After hints, 2 latencies | `RangeInv` (`RetriesBounded`, `CooldownHonoured`, `CountedOnce`, `CountIsPulled` of a source that honours ranges), `BodyIsRange` | 41 464, 3 s |
| `range_empty` | the range of an empty entry | violation of `BodyIsRange` | |
| `zip_wellformed` | archives of up to 2 entries, classic and ZIP64, any promotion, comments up to the longest, damaged ones too; the verifier over 2 and 4 entries | `IndexIsExact`, `ZipInv` (with `GrowthSuffices`), `VerifiedIsWhole` | 269 937, 8 s |
| `loops_bounded` | lists of up to 5 entries of sizes 0..3, limits 0, 2, 3; targets around the floor and the text entries; 12 entry sizes around a pattern of 11 and a word of 16 | `ExactlyOnce`, `WithinOneEntry`, `NearTheOptimum`, `PlanIsSound`, `ChecksumIsExact` | 4 468, 28 s |
| `access_usage` | 2 codes, 2 requests, 2 tokens, a browser, a job, 3 events | `UsageIsTrue` (`EverySessionCounted`, `TimelineIsAStory`), `RevokedAccessDrains` | 2 531 657, 177 s |
| `pages_parts` | one of three parts each time: the form with 2 forms, 2 checks, 2 edits, 2 extractions; the admin page with 2 codes, 2 requests at once, 3 clicks; the bucket with 2 jobs, 3 files, pages of one key, a client | `ExtractsWhatPassed`, `FormInv` (with `LeftoverIsReported`), `PanelIsRight`, `ServesItsOwn`, `DoneCanBeRead`, `OnlyItsJobTakesIt` | 1 734 141, 170 s |
| `client_onejob` | a job, 2 polls in flight, a reload, a drop, a lost answer, any number of sign-outs; fair | `ClientInv` (with `ShowsWhatWas`, `RunningIsRemembered`), `LearnsTheEnd` | 62 170, 9 s |
| `builder_resume` | 2 archives, 2 starts, an abort, a restart, a failure; fair | `BuilderInv` (with `PartsUniform`, `SavedIsUploaded`), `PublishedIsWhole` (`ArchiveIsReadable`, and what is done is stored), `YieldedBuildEnds` | 606 804, 156 s |

What they show:

- **job_settles**: `CompletedIsHonest` is `CompletedMeansSettled` and
  `ExtractedIsHonest`. When a worker's death and failing cleanup calls are all that
  goes wrong, a job is completed in the instant its last file is settled; the
  extracted count lacks only what a dead worker did not get to say; a
  completed demo job's output is in the end deleted for good, page by page,
  unless every repetition of the alarm threw; what a poll says of the metrics
  of a completed job does not depend on whether the object was evicted in
  between; and nothing a client can see
  differs from `JobPromise`. A job on which nothing answers any more is
  excluded by fairness alone, and one whose coordinator could not build its
  runtime stays pending and is none that `JobSettles` speaks of (8).
- **job_anyfault**: what stays true when reports are lost, calls break while
  the worker lives on, and the coordinator itself is lost at any moment: a
  file once done stays done and stored, a worker's pool is always saturated
  and its count exact, the peak is within the fleet, a completed demo job has
  its cleanup ahead of it or behind it, a user's bucket is never swept and
  credentials end with the run, or with the object that could not even build
  its runtime (8). `DoneIsStored` speaks of the time before the first cleanup
  attempt.
- **entry_faults**: with refused calls and lost answers nobody ever sees a
  partial object, on either path; after a failure no more calls are on their
  way than fibers were running; the extraction implements what workers rely on.
- **range_honest**: retries stop at the count and at the elapsed budget
  (including the cooldowns slept), no Retry-After parks a call, an attempt
  that is retried counts no bytes, and the body is the range.
- **zip_wellformed**: every well-formed archive is indexed exactly within two
  windows. Excluded is what the format leaves open: a classic archive whose
  own count or sizes equal the sentinels (`Ambiguous`).
  The verifier, over archives with one damaged entry, a damaged header or a
  misleading comment, passes none of which it has not read every entry that the
  end record declares, or of which the first JPEG or (with distinct names) the
  deepest entry is not right. That these are all the archive's entries holds
  unless the comment has the signature of an end record in it (15).
- **loops_bounded**: of the split: nothing dropped or doubled, totals within one
  entry of each other, and the largest-first bound of 4/3 - 1/(3n) on the
  heaviest shard, for every split TLC can enumerate. A plan ends at its target
  or above it by less than the floor of an entry, counts what it lists, names
  no two entries alike and has a text entry in its place. Each block of a
  combined checksum is advanced over exactly what is behind it.
- **access_usage**: a session that passes the gate is always in its code's
  numbers; timelines tell only stories that happened; from its revocation on,
  what a code still opens only becomes less, sign-ins under way included.
- **pages_parts**: a user who waits for the check of a bucket extracts only to
  what was checked, unless a failed extraction enabled the button over a form
  that was changed meanwhile (28); a probe object that stays is reported, unless
  a check of that bucket got no answer (29). The admin page
  never shows a code or a revocation that was not, and to a user who waits it is
  right about what that user did. A client of the output routes gets objects
  of the job asked for only, gets everything that was done when it asked until
  the cleanup of that job begins, however many pages the listing takes while
  others write and delete, and no job's write or cleanup takes another's object.
- **client_onejob**: with one job per page, late polls and messages never make
  the page claim what is not so, a reload finds the running job unless its user
  signed out while it was followed (25), and the poll alone is enough to learn
  the end.
- **builder_resume**: through yields in the middle of an entry's data or of a
  header, a restart over parts already uploaded, a failure, an abort and a
  second build on the same object, what is saved is matched by what R2 holds,
  every archive that is completed can be read from its end, and a build that
  has yielded once ends.

### Bounds and why they are enough

- *Job*: two entries, two workers. Interactions are between two reports of one
  pool, two workers, a report and the resolution of a call, the last and the
  last but one shard. A shared queue needs an entry that waits:
  one-loop pools with both entries in one shard have it. `LIST_PAGE` 1 makes
  every second object a second page, `ALARM_TRIES` 2 gives one repetition.
  The invariants are also proved without bounds, see below.
- *Entry*: sizes are below, at and one beside the threshold, a multiple of the
  part size and one more, and the largest plan and one part too many.
- *Range*: 3 recurrences and a budget of 8 base delays let either cap trip
  first; hints are in the past, zero, short and above the cap.
- *Zip*: windows of 7 and 12 with records of 2, 2, 3 and comments up to 5:
  the first window misses the record for long comments, the second never; the
  assumption `ZipAssumption` is what the real numbers satisfy. Values are
  below, at and above the sentinels. The verifier picks among four entries, of
  which one may be damaged in its header, its length, its checksum or its bytes,
  with names that all differ or are all one, and offsets on both sides of the
  scaled 4 GiB; more entries only add more that it does not look at. An end
  record in a comment says that nothing follows, or points to the first header
  of two, the second, those of an archive stored inside, with their count or
  another; or its fields are the sentinels, or it is cut off by the file's end.
- *Sharding*: 5 entries on up to 3 workers contain the tight cases of the
  largest-first rule for two workers (3, 3, 2, 2, 2).
- *Plan and checksum*: sizes are the real ones in halves of a megabyte, targets
  lie around the floor, the first sizes and the first two text entries. A
  pattern of 11 bytes and a word of 16 have entries of no, one, several
  patterns, with and without a rest, and lengths whose bits need every turn of
  the loop. Both are proved for all values.
- *Access*: two codes tell whose event it is; two requests race; a token may
  be issued again when nobody holds it. `MaxEvents` 3 holds a session, a start
  and an end.
- *Bucket*: two jobs, of which one's cleanup meets the other's writes, three
  files in all with two names of one key, and pages of one key, so that a
  listing of two objects is already interleaved. Proved for all values.
- *Admin page*: two codes and two requests at once are what a wrong order needs;
  three clicks let a third meet the answers of two.
- *Form and page*: two forms and two checks; two polls that overlap in either
  order. Two edits are the choice of the user's bucket and a change of its
  fields, or both while an extraction is under way. Longer runs repeat these
  states, and the form is proved for all.
- *Builder*: a part of 3 bytes and headers of 2 make a part's end fall into a
  header in one archive and into the middle of the pattern in the other; the
  last part is short or full. One abort, restart and failure each at any
  point, in any combination.

### Fairness

- *Job* (`FairSpec` of `JobProperties`): the source answers or fails
  (`readIndex` is bounded by `RangeFetch`'s retries), each worker takes its
  steps (an event loop), a report is answered or its RPC fails, the call of a
  dead worker fails, the alarm is delivered: what the platform promises. The
  Registry is a conjunct of its own (`RegistryFairness`), for nothing in the
  code bounds its answer: without it (`SlowRegistrySpec`) `JobSettles` fails.
  No fairness makes a fault happen or a worker succeed.
- *Builder*: the event loop goes on with a run, alarms are delivered, an abort
  that was asked for returns. Restarts and failures are never fair.
- *Page*: jobs end, the poll timer ticks, an answered poll arrives. A socket need
  not connect, nor any message on it or listing of the files arrive, and
  `MaxLost` answers may be lost: `LearnsTheEnd` rests on the poll alone. That the
  end is shown is the browser opened for it, which precedes the listing.

All runs but `job_settles`, `job_anyfault`, `lost_report` and `access_usage`
switch the deadlock check off because a request, a form, a loop, a verification
or a build does end.

## What is proved

TLAPS checks these theorems for every value of the constants that the named
assumptions allow (`WorkerAssumption`, `JobAssumption`, `EntryAssumption`,
`ShardingAssumption`, `OutputAssumption`, `FormAssumption`, `AdminAssumption`,
`ZipAssumption` and `ArchivesAssumption`, `RangeAssumption`,
`AccessAssumption`, `ClientAssumption`, `VerifyAssumption`, `PlanAssumption`,
`ChecksumAssumption`, `BuilderAssumption`; TLC evaluates each in the run of its
component).

| theorem | says | under |
| --- | --- | --- |
| `JobProofs!Invariance` | `Spec => []IInv`, the inductive invariant | |
| `JobProofs!TypeCorrect` | `Spec => []TypeOK` | |
| `JobProofs!PoolIsSaturated` | a running worker's counter is the number of entries in flight, within the limit, and at it while the queue holds one | |
| `JobProofs!PeakIsWithinFleet` | the peak is at most `MAX_WORKERS * WORKER_CONCURRENCY` | |
| `JobProofs!CompletedDemoStaysScheduled`, `CredentialsStayTransient` | the cleanup of a completed demo job; credentials end with the run, or with the object that could not build its runtime | |
| `SettledProofs!DoneStaysDone` | a file once done stays done, its row consistent, through every fault | distinct names |
| `SettledProofs!DoneStaysStored` | the object of a done row is in the bucket until the cleanup begins, through every fault | distinct names |
| `SettledProofs!ByoStaysKept` | a user's bucket only gains objects and never gets an alarm | |
| `SettledProofs!CleanedStaysEmpty` | a cleanup that ran to its end left nothing, over any number of pages, failed calls and crashes | calls hold |
| `SettledProofs!ReportedMetricsStayAlways` | what is reported of a completed job's metrics does not change | calls hold |
| `SettledProofs!CompletedStaysHonest` | a completed job has settled as many rows as it says; its extracted count is that of done rows | distinct names, calls hold, reports arrive |
| `SettledProofs!JobKeepsPromise` | `ExtractJob` implements `JobPromise`: the refinement itself | the same |
| `EntryProofs!PlanCovers` | the planned parts are contiguous, cover the entry exactly, each full but the last | |
| `EntryProofs!NoObjectIsPartial`, `FlyingStaysBounded`, `WritesStayReal` | whatever fails, no partial object; calls on their way bounded; the write metric counts real objects | |
| `EntryProofs!EntryKeepsPromise` | `ExtractEntry` implements `EntryPromise`: the refinement itself | |
| `RequestProofs!RangeInvAlways` | attempts, waits and cooldowns within their bounds, bytes counted once and as they came | ranges inside the archive |
| `RequestProofs!BodyAlwaysRange` | the body is the range | the same, and a source that knows ranges |
| `RequestProofs!UsageIsAlwaysTrue` | the sessions of a code and the jobs in its timeline are those that were | |
| `RequestProofs!RevokedAccessAlwaysDrains` | the ways in of a revoked code only become fewer | |
| `LoopProofs!ShardingTypeCorrect`, `EntriesPlacedOnce`, `ShardsBalanced` | every entry in one shard, totals within one entry, for lists and limits of any size | |
| `LoopProofs!AlwaysNearTheOptimum` | the heaviest shard is at most 4/3 - 1/(3 n) of the best of all splits | |
| `LoopProofs!PlanAlwaysSound` | a plan counts what it lists, lands at its target, names no two entries alike, with the text entries in their places | |
| `LoopProofs!ChecksumAlwaysExact` | each block is advanced exactly | patterns below 4 GiB (`ChecksumAssumption`) |
| `PageProofs!OutputInvariance` | the inductive invariant of the shared bucket | |
| `PageProofs!ServesItsOwnAlways`, `DoneCanBeReadAlways`, `OnlyItsJobTakesItAlways` | a client gets its job's files only, and all that are done until the cleanup; no job disturbs another's objects | |
| `PageProofs!FormInvAlways` | a probe object that stays was reported, or is being, or a check got no answer | |
| `PageProofs!PatientExtractsWhatPassed` | what is extracted to a user's bucket has passed the check, but through a button that a failed extraction enabled over a changed form | `Patient` |
| `PageProofs!PanelIsAlwaysRight` | the panel shows what was so, and to a user who waits what is so | |
| `PageProofs!ClientInvAlways` | the page never runs ahead of its job and remembers it while it runs, unless its user signed out | `MaxJobs = 1` |
| `BuilderProofs!BuiltInvAlways` | the inductive invariant of the sample builder | |
| `BuilderProofs!BuilderInvAlways` | parts uniform but the last, what a later run goes on from is what R2 holds, through every abort, restart and rival run | |
| `BuilderProofs!PublishedAlwaysWhole` | the archive under the key is readable from its end; what is reported as done is stored or was replaced | |
| `ZipProofs!IndexAlwaysExact` | the index of a well-formed archive of any size is its entries | |
| `ZipProofs!ZipInvAlways` | types; the largest window suffices and is reached in three reads | |
| `ZipProofs!VerifiedAlwaysWhole` | what the verifier passes is whole, as far as it looks; it has read all that the end record declares, which is all there is unless the comment misleads | `PICKS >= 2` |

The hypotheses of the last column are not conveniences: without each of them
the property is false, and the section on the documentation below has the
behaviour. *Distinct names* is `IsInjective(NameOf)` (2), *calls hold* that
`callBreaks` is not among the `Faults` (3), *reports arrive* that
`loseReport` is not (1); worker deaths, crashes of the coordinator, refused
alarms and failing bucket calls are never excluded. *Ranges inside the archive*
is `CallsInside`: neither empty (10) nor beyond the end; a source that ignores
ranges is 11; an impatient user 27; a second job on one page 23. `PICKS` is 3
in the code; with one, the deepest entry would not be extracted.

**The job.** None of the properties is inductive by itself. That the pool is
saturated depends on what a report may be about when it is answered, so `IInv`
(module `JobInvariant`) adds to `TypeOK`:

- `PoolInv`: shards are disjoint; a worker that has not started has touched
  nothing; every unanswered report is about an entry of its worker, in the
  stage that waits for its answer, and no two about one entry; the counter is
  exact. The last needs cardinalities of `InFlight(w)`, which each action moves
  by one or not at all (the first part of `JobProofs`).
- `LoopsBounded`: the counter, and the counts in reports already sent, are
  within the pool; no loop idles beside a queue.
- `NothingListed`: until the index is read, workers are idle and no file is
  listed, so `Dispatch` meets only idle workers.
- `PeakBounded`: what the coordinator heard of each worker is within a pool, so
  the sum, a cardinality of a union of products, is within the fleet.
- `RunIsLive`, `AlarmFollowsCompletion`: a run that has not ended belongs to a
  running job; the alarm is set by the end of a demo run only. This is what
  lets a sweep, and with it `CompletedDemoIsScheduled`, survive evictions.
- `CredentialsAreTransient`, `CompletedDemoIsScheduled` themselves; of a worker
  that cannot build its runtime it is kept that none of its loops began.

`DoneStaysDone` needs, beside it, `DoneIsSaid`: a row is done only when its
entry is extracted and its worker has nothing more to say about it. That is
why a later `failShard` (which skips settled rows) and late reports cannot
touch it, and why names must be distinct. The rest builds on these two:

- `StoredInv` (for `DoneStaysStored`): rows are those of listed entries, an
  extracted entry has its object in the bucket, and a cleanup only follows a
  completion, so that nothing is deleted before.
- `QuietInv` (for `CleanedStaysEmpty`, `ReportedMetricsStayAlways`): while
  calls hold, a call that came back leaves its worker idle or dead, so a job
  that has completed has no worker that could write or report, and the only
  steps left are those of the alarm. Under the cursor of a sweep nothing is
  left, and a page holds what comes next.
- `HonestInv` (for `CompletedStaysHonest` and the refinement): `total` counts the
  listed rows, which are those of the shards (`ShardsAreListed`); a row follows
  its entry as far as the worker was heard (`FailedIsSaid`, `SettledIsHeard`),
  so the rows of a worker that is waited for no more are settled
  (`ResolvedIsSettled`); the extracted count is that of the entries of merged
  summaries (`ExtractedAreCounted`). Rows are counted by counting entries,
  through the bijection that distinct names give. The refinement then checks
  each step against `JobPromise`: it completes only when no shard is pending.

**The entry.** `EntryInv` is types, which variables each path uses (`Paths`),
the agreement of a fiber with the bucket (`PartsAgree`: an uploaded part is
held, with its planned range), an object made of planned ranges in order, the
metric, and the bound on fibers and calls. `NeverPartial` then follows from
`PlanCovers`, which is arithmetic on part counts.

**The range.** `RetryInv` adds that each attempt but the one under way has used
up one recurrence (`AttemptsAreCounted`) and that a body is the span of its
call (`BodyIsSpan`). The elapsed budget is asked before each wait, so the last
wait may exceed it, by one backoff; that 2^n is positive, which the bounds on
the backoff need, comes from counting the subsets of a set of n.

**Access.** `AccessInv` says where everything that is attributed comes from: a
good token was signed for a code whose session is in the log, unless the log is
full (`TokensWereSigned`), a request past the gate has such a code and, as long
as it is good, a token of it (`RequestsWereGated`), a job is put down to the
session that started it or to nobody (`JobsWereStarted`), and the log has of a
job only what it has reached, in order (`LogWasDue`). `EverySessionCounted`
compares two counts, of held tokens and of events; a step that adds a session
adds the event first, and every other only takes tokens away (`NobodyGains`).
The second theorem compares two finite sets at each step: a sign-in turns into
a token, or either is lost.

**Sharding.** `Place` keeps the totals within the largest entry placed so far
because the entry placed is no larger than those before it and goes to the
lightest shard. The bound of `NearTheOptimum` holds at every turn for what is
placed so far, against every split of it (`NearEverySplit` in `LptInv`), which
is how it is proved: one entry, the smallest yet, of size s, goes to the
lightest of n shards, and some split leaves nobody more than b
(`LightestFits`). If 3 s <= b, the averages decide: the lightest has at most an
n-th of the rest, and all of it fits into n b. If not, no worker of the split
has three entries; then either some shard is empty, or, by counting who is
alone (`ManyAlone`, `FewAlone`), some entry is alone in its shard but not in the
split, and the lightest shard is no heavier than it, so that with s it stays
within b. Sums over sets are cardinalities of the sets of their bytes (`Units`),
and so are compared by injections; that the fold `SumFunctionOnSet` comes to that
(`SumIsWeight`) is an induction, done by taking a smallest set where it does not
(`WFMin`), since the library's induction theorems cannot be used.

**The shared bucket.** `OutInv` ties the three kinds of knowledge to the bucket:
an object lies under the key of the job and the file it is from
(`ObjectsAreTheirs`), a page to be deleted has keys of its own job
(`PagesAreTheirs`), what was written is there, under that key, until the
cleanup begins (`WrittenIsThere`). A listing in progress has found every known
file at or before its cursor; that the cursor advances to the last key of a
page and pages are taken in key order is what makes nothing slip between two
pages.

**The form and the panel.** `FormInv` is inductive with `UnheardIsKnown`: a check
that nobody waits for is of a form that is known to have got no answer.
`CheckedInv`: of a patient user, the fields a check that is waited for was asked
about are those the form holds (`FieldsWereChecked`), so what its answer enables
is what was checked; and while an extraction is under way over an unchanged
form, that form has passed, so that its failure enables nothing new. `AdminInv`
says of each request under way that what its answer says has been so
(`AsksWereSo`) and, while the user has been calm, that there is one at most and
that it knows what this page revoked (`CalmInv`); nothing a calm page shows can
be older than what it did.

**The page.** `TrackInv`: every message in the socket's queue, every poll and
report on its way, was so when it was sent, and the job has only moved on since
(`WiresWereSo`); listings and countdowns follow an end (`EndIsFollowed`), and
sockets and polls are the tracked job's (`TracksItsJob`), which is stored or was
left by a user who signed out.

**The index.** `Resolves` is the heart: whatever the writer promoted, walking
the extra field in its fixed order gives every field its value; eight cases of
three flags. `OnlyItsDirectory` says that whatever the window, what is found in
an archive whose comment does not mislead is its directory, and `LargeEnough`,
from the arithmetic of `ZipAssumption`, that a window that cannot grow holds all
that is needed. `ZipIInv` adds to the properties which read belongs to which
window. The verifier's `VerifyIInv` is about one archive of any kind, whatever
its comment says and whatever headers lie where that points: past the check of
the count it has as many entries as were declared, which is the whole directory
if the record was the archive's own, and the first JPEG and the deepest entry
are sound or among the picks still to be extracted.

**The checksum and the plan.** The invariant of the loop is that what was
advanced, plus what is left of the length times the next operator, is eight
times the length of the block; halving and doubling keep it, and the length is
below `WORD` because a pattern is. In a plan the media entries are numbered in
turn and so are the texts, and the target is overshot by the floor alone. What
`CountsItsData` sums is a recursion over the plan. It needs no induction over
the plan, for the loop is one: that a running total of the plan exists and every
one ends in `dataTotal` (`SumsTo`) is kept by each turn, which adds one entry to
both.

**The sample builder.** `PublishedIsWhole` is about bytes that were uploaded
over many runs, so `BuiltInv` is about the archive so far as a run knows it:
its `Whole`, what the listed parts hold, then its buffer, then what it is about
to append. `Copy` only moves bytes within it (`BytesMove`), and so does an
upload; only the steps that begin a header, data or the directory add to it,
at its end. Of that archive `RecordsLie` says that each record points at a
header followed by as much data as was written, `HeaderLies` and
`DirectoryLies` the same of what is being appended, `CursorAgrees` and
`PartsFull` that cursor, offset and parts agree. `StateFits` asks of a saved
state that a run begun on it (`Run("alarm", saved)`) is as good as one that has
been going on: at a yield the part has been flushed but the bytes still to be
appended are lost, and the invariant says they are to be appended again. For a
header that was cut by the yield this means that the half written one stays in
the archive and no record points to it: the reason why `NoHeaderTwice` fails
(17) and the archive can be read nevertheless. Other runs, aborts and restarts
only let uploads gain parts, keep their targets and complete once
(`WorldGoesOn`), which no live run minds; one whose upload has other parts than
it lists is refused at the end (`Completes`). `Joined` is a recursion over the
parts; the invariant carries that the parts can be joined and however they are
joined give these bytes (`JoinsTo`), and each upload extends that by one part.

Only model-checked is liveness: `JobSettles`, `OutputExpires`, `LearnsTheEnd`,
`YieldedBuildEnds`, for fairness and ENABLED are beyond the prover.

## Where the documentation and the code differ

Each property named here is stated in its module, in most under "Said of the
program and not so". TLC refutes it with the `.cfg` of the run named and the
change given, the property in the place of the others. `lost_report`
and `range_empty` are runs of their own.

The job, from `ExtractJob_lostreport.cfg` (`MCExtractJob`):

1. `CompletedMeansSettled`, as it is (run `lost_report`). A terminal report
   whose RPC fails leaves its row pending or extracting in a completed job:
   `applyShardSummary` (`job.ts:539`) merges only `summary.metrics` and never
   reads `done` and `failed`. `extract-worker.ts:249-251` says "failures are
   swallowed — the coordinator's authoritative `done`/`failed` totals come from
   the returned ShardSummary regardless".
2. `CompletedMeansSettled`, `Faults = {}`, `NameOf <- NameOfShared`. `total`
   counts both entries of one name, the file table is keyed by name
   (`job.ts:393`), so `done + failed` never reaches `total`. `job.ts:385`:
   "Seed the file table with everything we intend to extract."
3. `CompletedMeansSettled`, `Faults = {"callBreaks"}`. After `failShard` the
   worker, still alive, reports `extracting` and unsettles its row
   (`job.ts:595` has no guard on the status). `job.ts:524`: "Mark every entry
   it owned as failed so the job's totals are honest".
4. `MetricsSurviveEviction` (a PROPERTY), `Faults = {"crash"}`. A report that
   reaches a rebuilt coordinator persists a fresh sink over the measured
   numbers (`job.ts:623`). `job.ts:622`: "Persist the live metrics snapshot
   into SQLite so `report()` survives eviction."
5. `JobSettles`, `SPECIFICATION SlowRegistrySpec`, `Faults = {}`. `runJob`
   awaits `recordUsage` twice without a timeout (`job.ts:380`, `415`).
   `job.ts:437-438`: "a Registry hiccup must never fail or stall the
   extraction".
6. `PeakWithinOnePool`, `Faults = {}`. The observed count is a sum over all
   workers. `README.md:180`: "max simultaneous in-flight extractions observed
   (bounded at 6)". `PeakWithinFleet` is the bound that holds. Beyond what the
   model states, the last count heard of a worker whose loops have ended stays
   in the sum until its call resolves, so the peak may count extractions that
   never ran at the same time (`job.ts:577`).
7. `EndedDemoIsScheduled`, `Faults = {"alarmRefused"}`. `setAlarm` is called
   inside the `try` of `runJob` after `completed` was written (`job.ts:411`);
   when it is refused the catch marks the job failed and nothing deletes its
   output. `ui.ts:243`: "Files are written to the demo bucket and
   auto-deleted after the TTL."
8. `CredentialsEndWithRun`, `Faults = {"noRuntime"}`. `start` and `extractShard`
   take the user's credentials, and `createRuntime` comes before the `try` whose
   `finally` drops them (`job.ts:364`, `extract-worker.ts:165`); when it throws,
   the live object keeps them until it is evicted, and such a job stays
   "pending" for good. `job.ts:429`: "Drop transient BYO credentials the moment
   the run ends"; `extract-worker.ts:183`: "the moment the shard ends".

The entry, from `ExtractEntry_faults.cfg`:

9. `FailureAborts`, as it is. When the answer of `createMultipart` is lost
   nobody holds the handle, and the upload stays open (`extract.ts:284`).
   `extract.ts:262`: "On any failure the upload is aborted."

The source, from `RangeFetch_honest.cfg` (`MCRangeFetch`):

10. `BodyIsRange` with `Calls <- EmptyCalls` (run `range_empty`). The range
   [n, n) of an empty STORED entry becomes `bytes=n-(n-1)`, which HTTP calls
   invalid (`effect/services.ts:166`): the body is the whole archive, or an
   error. `effect/services.ts:94`: "Range-GET `[start, end)` and return the
   bytes."
11. `CountIsPulled`, `IgnoresRange = TRUE`. A 200 with the whole archive counts
    as the span that was asked for (`effect/services.ts:133`). `:112-113`: "so
    the headline "bytes fetched" metric reflects bytes actually pulled over the
    wire".

The index, from `ZipIndex_wellformed.cfg` (`MCZipIndex`):

12. `EveryEntry`, as it is. The walk ends at the first
    header without a signature and reports success
    (`zip/central-directory.ts:39`). `extract.ts:70`: "Read and parse the
    central directory, returning every entry."
13. `FoundReliably`, as it is. The last signature wins and its
    comment length is not compared with the file's end, so one inside the
    comment is taken (`zip/byte-reader.ts:64`). `:59-60`: "we scan backwards to
    find it reliably even when the same signature bytes happen to appear
    earlier in the data".
14. `BothMethodsExtracted`, as it is. The JPEG, the deepest entry and the first
    DEFLATE may be three entries, all of them DEFLATE; three are enough, and the
    first STORED one, fourth in line, is not extracted
    (`scripts/sample-builder/verify-disk.ts:191-195`).
    `:8`: "a JPEG, plus a STORED and a DEFLATE if distinct".
15. `AllEntriesVerified`, as it is. An end record inside the comment may point to a
    part of the directory and give its count; what is parsed then matches what
    is declared, and the archive passes without its other entries having been
    read (`scripts/sample-builder/verify-disk.ts:160-175`). `:5`: "Parses the
    full central directory (all entries) and asserts the entry count".

The sample builder, from `SampleBuilder_resume.cfg` (`MCSampleBuilder`), all but
the last with `MaxStarts = 1` (`scripts/sample-builder/src/builder-do.ts`):

16. `DataIsPlanned`. A STORED entry that is resumed starts its pattern from the
    beginning (`:360`) although its cursor is, in general, inside it, so the
    bytes differ from those its CRC-32 was computed from. `:231-232`: "On
    resume the entry continues from there with no gap and no duplication."
17. `NoHeaderTwice`. A full part inside `append(header)` may yield before
    `emittingLocalHeader` is cleared (`:259`), and the header is written again.
    `:180`: "the persisted state is exactly consistent with the uploaded
    parts". The archive stays readable (`PublishedIsWhole`), for the directory
    points at the second header.
18. `PersistedAtEveryPart`. The state is saved only when a yield was requested
    (`:207`). `:8`: "state is persisted to the DO's SQLite at every PART
    boundary".
19. `BuildEnds` (a PROPERTY, under `FairSpec`). The first run has no alarm
    before its first yield (`:117`); after a restart during it the build stays
    "running" for good. `:13`: "the 30 GB build completes across as many
    invocations as needed". `YieldedBuildEnds` is what holds.
20. `OneBuild`. `start` awaits `createMultipartUpload` between its check and
    `saveState` (`:101`), so two starts both build. `:99` answers a second
    start with "already running/done". Two runs may even come to write one
    upload (a start that returns late puts its state where the alarm of the
    other then finds it); R2 then holds parts of both, and `complete` refuses
    them, which is why `PartsUniform` speaks of the parts a run lists.

The page, from `ProgressClient_onejob.cfg`:

21. `StoredUntilOver`. `expiresAt - Date.now()` with an `expiresAt` that a late
    snapshot has put back to null is negative, so the countdown forgets the job
    while its output is there (`ui.ts:756`). `ui.ts:760-761`: "The demo output
    has been cleaned up — drop the stored id so a later reload starts fresh".
22. `EndStaysShown` (a PROPERTY). An answer to a poll that was read before the
    `done` message is rendered after it (`ui.ts:615`). `README.md:315`: "a
    terminal `done`".
23. `RunningIsRemembered`, `MaxJobs = 2`. Nothing stops the countdown of the job
    before, and when it is over the running job's id is dropped (`ui.ts:762`).
    `ui.ts:581`: "persist so a reload re-attaches to this job".
24. `LearnsTheEnd` (a PROPERTY, under `FairSpec`), `MaxJobs = 2`,
    `MaxPolls = 1`, `MaxReloads = 0`, `MaxLost = 0`. The answer to a poll of an
    earlier job clears the timer of the next (`ui.ts:616`). `ui.ts:593`:
    "Fallback poll in case the socket drops."
25. `FollowedIsRemembered`, as it is. "Sign out" drops the stored id at once and
    then waits for `/logout` (`ui.ts:431`); when that request rejects the page is
    not loaded again and goes on following the running job, which no reload will
    find. `ui.ts:581`: "persist so a reload re-attaches to this job".

Access and the pages:

26. `EveryJobAttributed`, from `Access_usage.cfg`. The cookie is verified again
    after the pre-flight read (`app.ts:213`); a session that expired meanwhile
    starts a job nobody is credited with. `app.ts:210`: "Attribute the job to
    the code that started this session".
27. `ExtractsWhatPassed`, from `Pages_parts.cfg` with `Patient = FALSE`. An
    answer sets `byoValidated` whatever the fields hold by then (`ui.ts:542`).
    `README.md:270-271`: "The UI requires this to pass before enabling
    **Extract** in BYO mode."
28. `ExtractsOnlyWhatPassed`, from `Pages_parts.cfg`. The failure of an extraction
    enables the button whatever the destination is by then (`ui.ts:584`, after
    `:577` had set it rightly), so a user who changed it while that extraction
    was under way, waiting for every check, may extract to a bucket that was
    never checked. The same lines of `README.md`.
29. `LeftoverIsSurfaced`, from `Pages_parts.cfg`. When the Worker is lost between
    the PUT and the DELETE of its check (`destination.ts:324`, `:337`), or the
    answer that it failed is, the small object stays and the page says nothing
    of it. `destination.ts:335-336`: "A failed DELETE still means the key COULD
    be written, but signals the key lacks delete rights — surface it."

30. `TimelineOfHeading`, from `Pages_parts.cfg`. Two timelines are asked for, and
    the one whose answer comes last is shown under the heading of the one
    clicked last (`admin-ui.ts:298`). `admin-ui.ts:169`: "Usage timeline —"
    and the code.
31. `DoneIsNeverRefused`, from `Pages_parts.cfg`. A name with two dots anywhere
    ("a..b") is refused with 400 although its file is done (`app.ts:316`).
    `app.ts:19`: "stream one extracted object back".
32. `DoneHoldsItsFile`, from `Pages_parts.cfg`. Entries "/a" and "a" have one key,
    for leading slashes are dropped (`app.ts:313`), and the later write is what
    both names serve. The same line of `app.ts`.

Sharding:

33. `NoEmptyShard`, from `Loops_bounded.cfg`. Entries of size 0 do not make a
    shard heavier, so all of them land in the first (`shard.ts:114`).
    `shard.ts:83`: "it never exceeds the number of entries (no empty shards)".

Some are plain to read and need no model. `job.ts:56` says of the fleet "~144 at
the cap", which is 24 workers of six loops; the cap is 64 (`shard.ts:50`).
`scripts/sample-builder/build-local.ts:39` and `:120` call
`buildPlan(sources, target)`, which `plan.ts` does not have (it takes the target
alone). `scripts/sample-builder/src/crc32.ts:77-78` calls the squares of the
one-bit operator "one zero byte step" and "two zero bytes"; they advance over
two and four bits, as the loop needs. When the request behind "Generate" is
lost the button stays disabled (`admin-ui.ts:226`).

## What is not modelled

- *Routes that read no bucket* (status, samples): they change no state. What
  `report()` returns is in `ProgressClient`; the usage timeline of a code is in
  `Access` and, as the page shows it, in `AdminPage`.
- *Bytes and formats*: inflating, dates, names and their sanitising, XML,
  request signing, HTML and its layout, rates and percentages. Signatures and
  the random codes are taken as sound, so `Access` says nothing of forgery.
  That CRC-32 is linear, and the table of its streaming form, is assumed by
  `Checksum`; no caller combines a block of 4 GiB or more.
- *A ZIP64 locator inside an archive's comment*: an end record there brings its
  own fields, but what lies before it is not taken for a locator.
- *A reload of the form's page*: it starts the page again, and the Workers of its
  checks are those of `ValidateFails`.
- *The parsing of a local file header* (`extract.ts`, `dataOffset`): arithmetic
  on two lengths, behind the data range of `ExtractEntry`.
- *The entry point, the Effect runtime, error types, the list of samples*: wiring
  and constants; the error tags that decide a retry are in `RangeFetch`.
- *The local scripts* that make or upload samples, and the verifiers of a local
  build and of a deployment: run by hand, sequential, without state of their own.
- *Time*: budgets, TTLs and alarms are choices (late or not, now or later)
  except in `RangeFetch`, where ticks are counted.
- *The bucket* is external: it keeps what it is given, lists in key order,
  joins parts in order, and an aborted or completed upload takes no more parts.

## Plan

Done: all modules above, their runs, and the proofs of every invariant and
action property they check. Next: a property of two selected entries that share
a name (`job.ts:393`), for which none is stated yet.
