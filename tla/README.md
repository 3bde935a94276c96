# aws-broom: TLA+ models, model checks and proofs

AWS Broom is a web application that scans an AWS account and deletes what the
user confirms. One Go server (`cmd/broom`) keeps sessions and jobs in memory;
every scan or clean-up is a job whose work is done by a *worker*, a child process
of the same executable that wraps the cloud-nuke library; a browser application
(`web/`) starts the jobs, follows them over Server-Sent Events and keeps their
results in its own history. There is no database: what the server forgets is only
in the browser.

This directory holds TLA+ modules translated from that code, TLC configurations
that check them on small instances, and proofs checked by TLAPS.
`PROJECT.json` lists the runs, the source lines behind every definition, the
hazards, the findings and the theorems.

    tlc -config Jobs.cfg Jobs               # one run
    tlapm JobsProofs.tla                    # the proofs of one module

## 1. Inventory

| Part | Code | State | Operations | Model |
|---|---|---|---|---|
| Job registry and supervisor | `internal/jobs/store.go`, `supervisor.go`, `job.go` | map of jobs; per job state, cancel function, context, child process | Admit, Start, exit, Cancel, CancelSession, reaping, shutdown | `Jobs`, `JobLifecycle` |
| Session store | `internal/session/session.go` | map of sessions; lastSeen, expiresAt, closed | Create, Get, Touch, Delete, RunReaper, Close | `Sessions` |
| Server wiring and handlers | `cmd/broom/main.go`, `internal/api` | none of its own | login, startJob, cancel, logout, shutdown; hooks SetBusy and onClose | `Server` |
| Scan and clean-up requests | `handlers.go`, `spec.go` | none | validation, derivation of the worker's spec | `Wizard`, `Review` (partly) |
| Worker: clean-up | `internal/engine` | rescan result, seen, tallies | rescan, nukeSelected, reports, summary | `NukeRun` (partly) |
| Event log, stream, page | `job.go`, `internal/api/sse.go`, `web/app/lib/use-job.ts` | log, aggregates, subscriptions; EventSource, snapshot, what is shown | Publish, Subscribe, the handler's loop, frames, snapshots | `JobEvents` (partly) |
| History and tracker | `lib/jobs.tsx`, `history.ts`, the history pages | history in IndexedDB; running, seen, saved; the chain | refresh, recordFinished, sync, markLostHistory, delete, clear | `HistoryTracker` (partly) |
| Browser session | `lib/session.tsx`, `api.ts`, `routes/connect.tsx` | status, account, cached queries, cookie, requests under way | load, login, logout, expire, the auth middleware's answers | `WebSession` |
| Wizard | `lib/wizard.tsx`, the regions and services pages | choices, their copy in sessionStorage, the form | effects, choices, "scan again", start of a scan | `Wizard` |
| Scan, review and clean-up pages | `routes/wizard/scan.tsx`, `review.tsx`, `clean.tsx` | job id of the path, snapshot, selection, request | navigation, snapshots, selection, confirmation | `Review`, `ReviewedDeletion` (partly) |
| Region map and theme | `components/ui/map.tsx`, `lib/use-dark.ts`, `root.tsx`, the regions page | stored theme, `dark` class per tab; map, style, layers, markers | theme changes, the map's life under React, clicks | `RegionMap` (partly) |
| Resource catalog | `internal/catalog` | a constant table | look-ups | constants of `Wizard` and `NukeRun` |
| Rate limiter | `internal/api/ratelimit.go` | counter and window per address | Allow | not modelled |
| AWS access, other middleware, embedded files, tools, build, presentation | see `PROJECT.json` | constant, or none that outlives a request | | not modelled |

(`lib`, `routes` and `components` are under `web/app`.)

How they interact. The auth middleware looks the session up (Get, Touch) and
hands it to a handler. startJob copies the session's credentials, admits a job
and starts a goroutine (Supervisor.Start) that launches the worker, reads its
events into the job (Publish) and decides the final state. The session store
calls back into the registry: `busy` (does the session have unfinished jobs?)
before it declares a session idle, and `onClose` (CancelSession) after it has
deleted one. The reapers of both stores run on tickers; SIGTERM cancels the base
context of all jobs and closes all sessions. In the browser, the wizard's choices
become the request for a scan; the review page turns a finished scan's snapshot and
the user's marks into the request for a clean-up, whose selection is what the worker
may delete. A page subscribes to its job, and both it and the tracker write the
history through one promise chain. The session provider decides what is mounted at
all, and any request's 401 may end it.

What is hard here:

- *Locks are released between steps that belong together.* Cancel reads
  `job.cancel` under the lock and acts after it; Session.expired asks the busy hook
  without a lock; Delete acts on a verdict reached earlier; startJob reads the
  credentials long before it admits the job.
- *The worker is a process.* It may exit, hang, be killed, or exit with status 0
  after it was cancelled; the context has three reasons to end.
- *Partial failure of deletions.* Listers fail, Nuke answers for some of a batch
  and returns an error for the rest, somebody else deletes at the same time, the
  context ends anywhere, and still each resource must be reported once.
- *Delivery of events.* A slow subscriber is dropped, a connection is lost and
  resumed, a snapshot overtakes the stream, the page applies events later.
- *Callbacks in the browser.* Every `await` of the tracker lets a page write the
  same history entry; answers of requests sent with an earlier cookie arrive after a
  later sign-in; a page keeps its state when only the job id in its path changes; an
  effect runs with the values of the render that called for it; a marker's click
  handler is older than what it is to change.

What makes each part correct:

- registry: the caps hold, terminal states are final, success is earned, a
  cancelled run is not a success, every job and every worker ends;
- sessions: onClose runs once and last, the hard limit cannot be outlived,
  credentials are always dropped in the end;
- server: a session takes its jobs with it, and a busy session is not idle;
- clean-up: nothing is deleted that was not confirmed, in dependency order, one
  report for each resource, counted alike everywhere, no work after a cancel, the run
  ends;
- events: a page shows an exact prefix of the log and in the end all of it;
- history: one final record for each job, nothing live is declared lost, what the user
  deleted stays deleted, every run the browser knew of is settled;
- browser session: what is shown belongs to the account that requests act on;
- wizard: the scan that starts is the one the user asked for, and a refusal has a
  reason the user can see;
- review: what is deleted was found deletable and was marked where it was confirmed,
  and the rescan reaches all of it and nothing outside the scan;
- map: tabs agree on the theme, the map gets painted, a click flips its region.

`PROJECT.json` gives 40 hazards with the source line at which each of these bites. Four
have no property: three that the code does not survive (section 4 describes them) and one
whose state is left out (a second tab's history).

## 2. Modules and how they correspond to the code

**`Jobs`**. One action per critical section. A job's
goroutine is a program counter (`pc`: admitted, armed, launched, waiting, a verdict,
returning, failing, done), because Start takes the job's lock several times and a cancel may
fall between any two: `Arm` stores the cancel function, `Launch`/`LaunchFails` is cmd.Start,
`MarkRunning` the state change after it, `Judge` the look at the context and the exit status
after the wait, `Settle` the setState that follows under the job's lock, and `Return` the
deferred cancel. A cancel between `Judge` and `Settle` comes too late: the job may succeed
with a cancelled context. A
cancelling goroutine (`Caller`) first reads `armed` (`CancelJob`, `CancelNext`) and
acts later (`CancelAct`). `Deadline`, `WorkerExits` and `WorkerKilled` are the
environment. `Admit`'s count reads each job's state under that job's own lock while
others may change, but jobs only leave the count meanwhile, so taking it in one step
loses nothing but a needless refusal.

**`JobLifecycle`** is the abstract specification: what GET /api/jobs promises, with
no goroutines or contexts. `Jobs` implements it with the mapping
view = state, or "forgotten" once the registry has dropped the job (`View`).

**`Sessions`**. Requests, the reaper and main are actors with a
position. Get, expired, Delete and RunReaper are split where the code releases a
lock or calls a hook: look up, judge, ask the busy hook, renew or remove, zero the
credentials, onClose. `inflight` stands for the busy hook's answer, and changes freely
in this module. Each actor judges with the clock it read when it started.

**`Server`** composes the two: `Jobs` with the session store's actors as
callers, `Sessions` with inflight <- "has unfinished jobs". It adds the handlers that
touch both: reading the credentials, admitting, cancelling, logging out, and onClose as
CancelSession.

**`NukeRun`** (`MCNukeRun`). The worker in clean-up mode. Each region is a goroutine
with a position in the loops of nukeRegionSelected; `StartRegion` is limited by
`Parallelism`; the global region follows. cloud-nuke is external: a rescan lists the
account except the types whose lister failed; one call of Nuke answers for any part of
its batch, with an error if not for all. Batches are sets: the order of
identifiers within a type means nothing to the properties. At its end the module has
the views that the server and the pages derive from the reported events, with their own
counting each (`EntryCounts`, `Brief`, `Remaining`, `Pending`, `RegionDone`).

**`JobEvents`**, over the state and the promise in **`JobPage`**. One job, one page. The event's seq is its index in the
log. `Publish` appends, aggregates and hands out to the subscriber or drops it; the
handler's loop sends, resubscribes or ends; the network holds a bounded number of
messages; the page's EventSource collects events that `Frame` applies; a snapshot is
requested, served and applied in three steps. Handlers of abandoned connections are
left out (they cost memory only). The model is of a job with a well-behaved worker: it
publishes nothing after the terminal state.

**`HistoryTracker`**. One tab. An action is what JavaScript runs between two awaits.
`chain` is the serialised history; each of its operations carries who awaits it, so
that `NextOp` can resume the tracker's refresh or recordFinished. The user deletes and
clears records and signs out; a reload forgets everything but the history. A refresh is
assumed to take less than the minute of grace of markLostHistory (`GrowOld`'s guard);
without that assumption a job created during a refresh could be given up, which is the
grace period's very purpose.

**`WebSession`**, over the state and the promise in **`SessionTab`**. One tab and the sessions it signs in to, numbered in order. A request of
each kind is sent with the cookie of that moment, served, and answered at another time;
a Set-Cookie header takes effect when the answer arrives. A list of regions asked for
before a sign-out goes on as a "stray": TanStack Query has removed the query, but the
answer may still carry a cookie. The server may drop a session at any time. `hasty` marks
the one case that `AccountShown` excludes: the form was submitted before the page's first
getSession was answered, whose late answer then shows the account of the cookie before.

**`Wizard`** (`MCWizard`). What the user chooses for a scan, in the provider, in
sessionStorage and in the form of the services page, whose effects are part of the action
that opens the page or brings an answer, because React runs them before the user can do
anything else. `ScanAgain` presets the choices from a history record or from a clean-up.
`ServeScan` is handleCreateScan with all its checks (their order only chooses the message),
the limits on regions and types included; they are the constants `MaxRegions` and `MaxTypes`.

**`Review`** (`MCReview`). The pages that show a job, with the id of the path apart from
the snapshot they hold, the review page's selection and the request it sends, and
handleCreateNuke with the spec it derives. The user may sign in again, also in
another tab, and reach old pages through links and the browser's history.

**`ReviewedDeletion`** is the abstract specification of that part, in three actions: a scan
finds resources, some of them deletable; the user confirms some of those; some of the
confirmed ones are deleted. `Review` implements it: the confirmed set of a clean-up is
what its user had seen marked at the moment of confirming (`shown`), and deletion is the
worker's report.

**`RegionMap`** (`MCRegionMap`). The theme of several tabs (storage, media and class changes
reach a tab later) and one tab's map: `want` is the React state that was set, `seen` what
was rendered last, and `Render` runs the effects of Map, MapGeoJSON and MapMarker in
React's order, children first. MapLibre's part (`StyleLoads`, `MapLoads`) is external.

**Proof modules**: `JobsProofs`, `SessionsProofs`, `ServerProofs`, `NukeRunProofs`,
`HistoryProofs`, `WizardProofs`, `ReviewProofs` and `RegionMapProofs`, each extending the
module it is about (section 6). Two of them have a second part about a module that shares no
state with the first: `HistoryProofs` about `JobEvents` (the instance `E`) and `ServerProofs`
about `WebSession` (the instance `S`).

Definitions named "Bug: ..." are plausible mistakes. No specification uses them: each
is there to show that one property notices it. Most modules have a `TypeOK` that served
while they were written and that the proofs have their own form of; only `jobs` checks it
in a run.

## 3. Runs

One passing run per module or composition. Bounds are constants of the configurations. Symmetry is
used in `wizard` only, whose properties are all safety; most other runs check liveness. Where a
configuration can say all that an instance needs, TLC runs on the module itself; the
`MC` modules add initial states, functions and records as constants.

| Run | Instance | Checks |
|---|---|---|
| `jobs` | 2 jobs of 1 session, global cap 1, one canceller, JOB_TIMEOUT set | TypeOK, GlobalCap, SucceededIsEarned, RunningIsCounted, CancelIsNotSuccess, ImplementsLifecycle (refinement), CancelSessionWorks |
| `sessions` | 1 session, a request, the reaper, shutdown, clock to 4 | OnCloseOnce, ClosedBeforeNotified, HardLimitHolds, CredentialsDropped |
| `server` | 1 job, 1 session, a request, JOB_TIMEOUT set, clock to 1 | OnlyLateJobsSurvive, WorkersEndWithSession, EveryJobEnds |
| `nuke` | 2 regions and the global one, 2 types, batches of 2 out of 3 identifiers | OnlyConfirmed, GlobalLast, DependenciesFirst, ReportedOnce, CountsAgree, CancelStops, RunEnds |
| `events` | 3 events, 2 lost or refused connections, failing snapshots | PageIsPrefix, NeverReplayed, NeverGoesBack, EventsArrive, PageSettles |
| `history` | 2 jobs, a page for one of them, 1 upset: a failing request, a reload, a deletion or a sign-out | RecordedOnce, LostIsGone, DeletedStays, RunsAreSettled |
| `web` | 2 sessions, 1 lost message or reload | RegionsOfSession, AccountShown, PillsSettle |
| `review` | 2 scans and a clean-up, 2 resources, 2 sessions | ScopeCoversSelection, ImplementsReview (refinement) |
| `wizard` | 3 regions of 2 accounts, 3 types, at most 1 region and 2 types a scan, 2 history records, inputs of 0.4 and 9000 hours | RefusedForReason, ScanAgainIsTheSame |
| `map` | 2 tabs, 2 regions, 3 changes of theme | TabsAgree, MapGetsPainted, ClickTogglesOne |

Why these bounds are enough to be interesting.

- `jobs`: two jobs under a cap of one are the smallest instance in which a job is
  refused, and in which a cancelled job's slot is reused while its goroutine still runs.
  Under that cap a logout collects one job; the theorems about Jobs and Server
  (`OnlyLateSurvive`) are for any number of them, of any number of sessions. Deadlines
  pass here but need not, so a collected job has to end because of the cancel; that they
  do pass is assumed in `server`, which checks that every job ends.
- `sessions`: the request, the reaper and main are one caller of each kind of Delete. A
  clock of four steps with limits of one and two covers: renewed, idle, past the hard
  limit, and judged with an old reading.
- `server`: the session ends by a logout, on a stale or a current idle verdict or at
  shutdown, at any point of the request's startJob and of the job. One tick is enough to
  make it idle, and a request that looks it up after the tick renews it behind the
  reaper's verdict. The hard limit leads to the same Delete, and is judged in `sessions`.
- `nuke`: the specification leaves the account and the selection open, which is what the
  proofs are about. TLC starts from three selections: one identifier in all three
  regions, confirmed in two; a type with a full and a partial batch, followed by another
  type; and both regions at work, with a confirmed resource that is gone already.
- `events`: a channel with room for one event beyond its backlog overflows while one
  event is on the wire and one is queued; the third is then missed and has to be resumed
  from. Two lost connections give one before and one after any event has arrived.
- `history`: one job can be listed as running while the other is being recorded, by the
  tracker and by a page, each before and after the upset.
- `web`: a request sent with the first session's cookie can be answered after the second
  sign-in; more sign-ins repeat that. One fault loses any one message or the page's state.
- `review`: two scans let the page hold one's selection while its path names the other,
  and the third job is their clean-up. The regional and the global resource are the two
  cases of the derived scope; one report protects a resource, the other does not. Two
  sessions let a page of the first meet the second.
- `wizard`: two accounts with different regions, one of them with more than the limit; one
  type more than the limit; a type the catalog has dropped, an
  input that rounds to nothing and one that is too large, a regional and a global type.
- `map`: three changes reach every phase of the map (made, loaded, styled, painted) with one
  more on the way; two regions tell the clicked one from another.

MaxTime bounds the clock, LastCreate the clock at sign-in, MaxDrops the lost connections,
MaxEvents the log, MaxWire the messages under way, MaxUpsets, MaxFaults, MaxLogins, MaxJobs, MaxSessions and MaxChanges
what their names say; each is a guard, and past it the system simply goes on without
further such events. Deadlock is not checked because every one of these systems may come
to rest: jobs end, a session is closed, a run completes, a page is left alone.

## 4. What the code says of itself and does not do

Two runs expect a violation; `PROJECT.json` "findings" quotes the text.

| Run | Claim | What happens |
|---|---|---|
| `server_logout` (NoWorkerAfterSession) | signing out kills the session's workers | a request that read the credentials before the logout admits its job after CancelSession |
| `web_signed_out` (SignedOutIsGone) | the same, and the credentials are dropped | a sign-out whose request fails is taken for one of a session that is already gone |

The first is a narrow race; what remains true is checked too (`OnlyLateJobsSurvive`,
`WorkersEndWithSession`).

Four claims are stated in the modules, and TLC refutes each when it is made the invariant
or property of the module's run:

- `Jobs!WorkersWithinCap` (`store.go:108`): MaxJobs does not cap the running workers. A job
  that is cancelled before Start armed it leaves the count and is launched all the same;
  `RunningIsCounted` is what holds.
- `NukeRun!GoneIsGone` (`nuke.go:38`, `98-103`): "already gone" also counts resources of a
  type whose lister failed, and those that a cancelled run never got to.
- `JobEvents!ScannedIsCounted` (`use-job.ts:133`): a page that loads a running scan
  undercounts the scanned pairs.
- `HistoryTracker!FinalStays` (`history.ts:59`, `jobs.tsx:66`): a placeholder "is replaced by the
  full record", but the full record can also be replaced by the placeholder.

More that showed up while modelling. The models contain it unless said otherwise:

- `cmd/broom/main.go:110` says a session with a job in flight is never idle-expired.
  RunReaper and Get delete by id on a verdict reached earlier, so a session that was
  renewed and started a job in between is deleted with it.
- `internal/api/sse.go:58` says a dropped subscriber is resumed instead of being told
  "done". If the job ends before the handler looks, "done" is sent after all; the page
  loads a snapshot then, and `PageSettles` shows that this makes up for it.
- `use-job.ts:13` says the hook keeps the job live until it is terminal. The stream is
  closed before the snapshot is requested, and a failed request is never repeated: the page
  shows the error. `EventsArrive` and `PageSettles` say "or the error" for that reason.
- A final record that the user deleted comes back after a reload, as the tracker's set of
  saved jobs is gone and the server still lists the job. `DeletedStays` is about one page
  load.
- The tracker signs the tab out on any 401 of its listing (`jobs.tsx:57`), also one sent with
  an earlier identity whose answer comes after the next sign-in. `AccountShown` and
  `PillsSettle` hold all the same: the user sees the form.
- The services page sends 0.4 hours as a filter of 0 hours, which the server refuses, as
  it does 9000 hours: the form checks neither.
- After a jump from one finished scan to another the review page counts, and keeps, the
  keys selected in the first; only those that the second also found are sent.
- The stop buttons (`clean.tsx:116`, `scan.tsx:115`) act on the job of the path, while the page
  may still show the snapshot of the one before, and their disabled state outlives a change of
  path. In `Review` a stop is one of the ways a running job ends; the flag is left out.
- `map.tsx:368-397`, given two different base styles, can set a style while the one before is
  still loading; the first load then opens the gate for layers that the second removes. The
  application gives both themes the same blank style, which is the instance checked.

## 5. Fairness

No safety property needs any. For the liveness properties, weak fairness is put on
exactly what the runtime provides:

- `Jobs`: goroutines under way are scheduled, and the kernel kills a process whose
  context has ended (exec.CommandContext). Users need not act, workers need not exit and
  deadlines need not pass: a cancel has to work without them.
- `Server`: the same for supervisors and processes, and the deadline's timer fires. It
  needs no fairness of requests, of onClose or of the reaper: they may stop half way.
- `Sessions`: time passes and the reaper's ticker fires; requests run to their end.
- `NukeRun`: goroutines are scheduled and calls to AWS return (the SDK has time limits).
- `JobEvents`: the handler, the network and the page's frame callback make progress,
  and snapshots are answered or fail. Connections are lost finitely often.
- `HistoryTracker`: requests are answered, the chain progresses, and the timer fires
  *while the list of running jobs is not empty*, which is when the code sets it. The
  user's coming back to the tab is not assumed: a failed fetch after the last job has
  ended is not retried until then, which is why `RunsAreSettled` says "or a request failed".
- `WebSession`: a listing is served, its answer arrives, and the interval fires while the
  code has set it. Sign-ins, sign-outs and visits are the user's.
- `RegionMap`: React renders what was set, observers and listeners run, MapLibre loads what
  it is given.
- `Wizard` and `Review` have none: all their properties are about what a step may do.

## 6. Proofs

TLAPS checks the following for every value of the constants, from the ASSUMEs named in the
modules, which TLC evaluates in the runs.

`JobsProofs`: *TypeCorrect, RunningCounted, SucceededEarned, TerminalFinal, CancelNotSuccess,
CapsHold, LifecycleImplemented*. None of the invariants is inductive by itself: that a
succeeded job ran a worker to exit status 0 depends on where its goroutine is and which
verdict it carries. `Inv`
therefore says for each position of the goroutine which states of job, context and
worker go with it (`Consistent`), and that a cancel in progress is about jobs that were
admitted (`CallsAdmitted`). For *CancelNotSuccess*, `Doomed` is what a cancel or
a timeout in time leads to: the context stays done until it is examined, and from then on
neither the verdict nor the state is success. *CapsHold* covers the cap per session, which the run's
instance leaves off, too. For the caps, `ActiveStep` shows that only Admit adds to what
Admit counts, and one job at a time. The refinement maps Admit, MarkRunning, the setState
calls and Reap to the four abstract actions and every other step to a stutter. *TerminalFinal*
has no run of its own, as the lifecycle that `jobs` checks implies it of what a browser sees.

`SessionsProofs`: *ClosedOnce, ClosedFirst, LimitHolds*. The strengthening of the first two is
`OneDeleter`: removal from the map hands the session to exactly one actor, which alone goes
on to close it and to call onClose, and `NotifiedOK`. For the hard limit, `LimitOK` adds that
a request past its verdict holds a session whose limit it compared with its own clock, and
which was known, so that no Create sets its limit anew.

`ServerProofs`: *JobsImplemented, SessionsImplemented, OnlyLateSurvive*, and what follows from
the first two, *JobsSafeInServer* and *SessionsSafeInServer*. The first says that the wired
server is a behaviour of `Jobs` with all its actors as callers, the second that it is one of
`Sessions` with the busy hook's answer taken from the jobs; so every theorem about the
components holds of the server, and the last two say so for the caps, the counting of workers,
final states, onClose and the hard limit. The steps that have to be shown are those where the
two meet: an admission is one for a session that was handed out (`HeldOK`, `JobsKnown`), and
what the hook counts never changes for another (`StepOfSessions`). *OnlyLateSurvive* adds to
the invariants of both components that a session which was notified has had all its
jobs told to stop, but the late ones (`CollectOK`), by following each job from CancelSession's
look at it to its act: a job of the session that is not late and not over has been told, or is still in its
list, or is the one it is about to cancel (`Cornered`), and a job that was read as armed
stays so (`JobsOK`).

`NukeRunProofs`: *DeletesOnlyConfirmed, GlobalComesLast, RegistryOrderKept,
CancelledStops*. `Inv` says that the batches of a region hold identifiers that were listed
and confirmed (`Batched`), that what was attempted lies at or before its region's
position (`Reached`), that what lies behind a position has a report (`Answered`), and
that the global region waits until all others have returned (`GlobalWaits`,
`GlobalAlone`). `EmitLen` is the lemma about reporting. Types, batch size and
parallelism are arbitrary, and so are regions and identifiers; that there are finitely many
of those, as in an account, is used for *CountsAlwaysAgree* only.

*ReportsOnce*, further down in the same module, uses that invariant and `Told`: what lies ahead of a
region's position, or was not seen, has no report yet (`Owed`); a region's batches were seen
and do not overlap (`Held`); only a cancelled run returns from a region early (`Exhausted`).
So a batch is reported for the first time when Nuke returns, what is reported as gone was not
reported before, and when an uncancelled run is over everything seen lies behind.

*CountsAlwaysAgree* adds `Counted`: the summary's counter of an outcome is the number of
resources reported with it. Nuke's answers and its bare error are for resources that had no
report (`Told`), and for different ones, so what they add to the counters is what they add to
those sets (`EmitCounted`). With one report at most, the rows are the resources
reported (`RowsAre`); then each page's count is the size of one of these sets, of two that are
disjoint, or of a difference, and a region has as many rows as confirmed resources only when
they are the same (`RegionsCount`).

`HistoryProofs`: *OnceRecorded, LostOnlyGone, DeletedForGood* and *TypeCorrect*, for any number
of jobs, pages and upsets. All that is ever written goes through the queue, so the invariant
speaks of every operation in it: who awaits it is at the place it was queued from (`Waits`),
so it is the only one of its kind (`Rivals`), and what is queued as the final record is of a
job that is in `saved` and was not recorded before. The tracker's refresh may call a run lost
only if it was old and not alive when the server was asked (`RefreshOK`).

*PrefixShown, NothingReplayed, PageGoesForward*, of `E` in `HistoryProofs`, for any log, channel, wire and number of faults:
what the page shows, what waits for a frame, what is on the wire and what is in the channel
are consecutive pieces of the log (`EventsInv`: `PrefixesShown`, `Collected`, `OnTheWire`,
`InTheChannel`). `Shows` says what somebody who has had the first n events shows, be it the
page, the server's aggregates or a snapshot under way, since one replaces another; each event keeps
it, and so does a frame, whose recursive function `Applied` is followed event by event (the
least one at which it failed cannot exist). That the page never goes back needs `Forward`
besides: a snapshot that has been answered holds everything that waits for the frame, because
the stream is closed before one is asked for; and the page's own set, which does not know the
snapshot's pairs, never holds a pair that the log up to `lastSeq` does not (`Counts`), so its
count is at most the one the next snapshot brings.

*RegionsAreOwn, AccountIsOwn*, of `S` in `ServerProofs`. Of all answers only that of a successful
login brings a new cookie (`NetOK`); a region list under way, like the cached one, is the
cookie's as long as there is one (`RegionsOK`); and while the page load's own request is under
way nothing else is, unless the user did not wait for it (`AccountOK`).

`ReviewProofs`: *RescanCovers, DeletionIsReviewed*. `JobsOK` says of every scan that what it
found lies within its scope, and of every clean-up that a scan of its session covers it and
that its selection was shown as marked; `RequestOK` says of the request under way, which
outlives the page that sent it, that what is deletable of it was marked on that page. For the refinement each step is a Scan, a Confirm, a Delete
or a stutter.

`WizardProofs`: *OnlyTheseReasons, SameScanAgain*. `ChoicesOK` and `QueriesOK` say where each copy of the
choices comes from: the catalog and the enabled regions, or as a whole from a record;
`JobOK` and `RequestOK` carry that through the job shown and the request. `OfferedOK` follows
the regions in the same way: no choice mixes those of two accounts, as a toggle keeps to what
is enabled, so a request with too many is the fault of one account or record. `IntactOK` says
that storage, and the provider while there is one, hold the record's scan until the user
changes something: its types and regions are not empty and its hours are whole, so the
effects of the services page write back what they read (`ServicesOpensSame`).

`RegionMapProofs`: *ThemesAgree, ClickFlipsOne*. `TabsAgree` is inductive once the
variables have their types (`ThemeInv`). `MarkerInv` says that the selection that was set is
the one rendered, and that the callbacks of markers that are there are those of the last
render.

So every invariant and every action property that a run checks is a theorem, and so are both
refinements. Only model-checked: everything under fairness (TLAPS does not prove liveness
here, nor what ENABLED says): CancelSessionWorks, CredentialsDropped, WorkersEndWithSession,
EveryJobEnds, RunEnds, EventsArrive, PageSettles, RunsAreSettled, PillsSettle and
MapGetsPainted.

## 7. Not modelled

- the rate limiter: one critical section with a counter per address and a fixed window of a
  minute, whose only effect on the rest is a refusal. Requests that are refused are in
  `Wizard` and `WebSession`;
- scan mode of the worker: one call into cloud-nuke and a summary; buildQuery, and
  Spec.Validate, by which a worker checks again what its server derived;
- the limits on the number of selections of a clean-up and their deduplication;
- text: reasons, messages, labels, formats; sizes and durations other than those named;
- reading a worker's output line by line (malformed lines are logged and skipped);
- the history's limit of 50 entries, and a second tab that writes the history: the chain
  serialises one tab's writers only, so nothing is promised there;
- the review page's filters, and the disabled state of the stop buttons;
- the parts of `map.tsx` that the application does not use (popups, routes, clusters, arcs,
  controls): a copied library component;
- AWS access, the other middleware, embedded files, tools, build and presentation: no state
  that outlives a request or a page.
