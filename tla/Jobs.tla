------------------------------- MODULE Jobs -------------------------------
(***************************************************************************)
(* The job registry (internal/jobs/store.go), the job's lifecycle           *)
(* (internal/jobs/job.go) and the supervisor that runs one worker process   *)
(* per job (internal/jobs/supervisor.go, with the startJob handler that     *)
(* calls it).                                                               *)
(*                                                                         *)
(* Actors, all in one server process except the workers:                    *)
(*   - per job, the request goroutine of startJob and then the supervisor's *)
(*     goroutine: `pc` is its position;                                     *)
(*   - per job, the worker process and the runtime's context timer;         *)
(*   - Caller: request goroutines in Store.Cancel or Store.CancelSession,   *)
(*     which read job.cancel under the lock and act after releasing it;     *)
(*   - the registry's reaper and the server's shutdown signal.              *)
(* Every action is one critical section of a lock, or one call that other   *)
(* actors can observe.                                                      *)
(***************************************************************************)
EXTENDS Naturals, FiniteSets

CONSTANTS
  Job,        \* job identifiers; newID() never repeats one
  Session,    \* session identifiers
  Caller,     \* goroutines that may be cancelling something at one time
  PerSession, \* Config.MaxJobsPerSession, 0 = unlimited
  Global,     \* Config.MaxJobs, 0 = unlimited
  Timed,      \* Supervisor.Timeout > 0
  NoSession, NoJob

ASSUME CapsAssumption    == PerSession \in Nat /\ Global \in Nat
ASSUME TimedAssumption   == Timed \in BOOLEAN
ASSUME NoValueAssumption == NoSession \notin Session /\ NoJob \notin Job

VARIABLES
  registry,   \* Store.jobs: the jobs that can be looked up
  owner,      \* Job.SessionID
  state,      \* Job.state
  armed,      \* jobs whose Job.cancel is set
  ctx,        \* the job's context
  pc,         \* where startJob / the supervisor's goroutine stands
  worker,     \* the worker process
  call,       \* per caller: the Cancel or CancelSession in progress
  stopping    \* the server's base context is cancelled (SIGTERM received)

vars == <<registry, owner, state, armed, ctx, pc, worker, call, stopping>>

-----------------------------------------------------------------------------
(* Values *)

TerminalStates == {"succeeded", "failed", "cancelled"}
Terminal(s) == s \in TerminalStates

States    == {"none", "queued", "running"} \cup TerminalStates
CtxStates == {"none", "live", "canceled", "deadline"}

\* "none" before Admit; "admitted" until Start sets job.cancel; "armed" until
\* cmd.Start; "launched" until setState(running); "waiting" in the goroutine
\* that waits for the worker; a verdict until it is given to setState;
\* "returning" until the deferred cancel; "failing" when Start returned an error
\* and the handler has not called Fail yet; "done" afterwards.
Positions == {"none", "admitted", "armed", "launched", "waiting", "returning", "failing", "done"}
               \cup TerminalStates

\* Where startJob has nothing left to do: the goroutine goes on by itself.
Detached == {"waiting", "returning", "done"} \cup TerminalStates

\* A worker that exited did so with status 0 ("ok") or not ("error").
WorkerStates == {"none", "running", "ok", "error"}
Exited(j) == worker[j] \in {"ok", "error"}

Calls == [todo : SUBSET Job, target : Job \cup {NoJob}, captured : BOOLEAN]
NoCall == [todo |-> {}, target |-> NoJob, captured |-> FALSE]

\* What Admit counts: the registered jobs that are not terminal.
Active == {j \in registry : ~Terminal(state[j])}
ActiveOf(s) == {j \in Active : owner[j] = s}

Init ==
  /\ registry = {}
  /\ owner    = [j \in Job |-> NoSession]
  /\ state    = [j \in Job |-> "none"]
  /\ armed    = {}
  /\ ctx      = [j \in Job |-> "none"]
  /\ pc       = [j \in Job |-> "none"]
  /\ worker   = [j \in Job |-> "none"]
  /\ call     = [c \in Caller |-> NoCall]
  /\ stopping = FALSE

-----------------------------------------------------------------------------
(* Helpers the actions are built from *)

\* Bug: setState without its early return.
SetStateAlways(j, s) == state' = [state EXCEPT ![j] = s]

\* Job.setState: a no-op once the job is terminal.
SetState(j, s) ==
  state' = IF Terminal(state[j]) THEN state ELSE [state EXCEPT ![j] = s]

\* The context's cancel function: only the first cause sticks.
CancelCtx(j) ==
  ctx' = IF ctx[j] = "live" THEN [ctx EXCEPT ![j] = "canceled"] ELSE ctx

\* Bug: the comparison admits one job too many.
BelowOrAt(n, cap) == cap = 0 \/ n <= cap

\* Below a cap, where 0 means there is none.
Below(n, cap) == cap = 0 \/ n < cap

Goto(j, from, to) ==
  /\ pc[j] = from
  /\ pc' = [pc EXCEPT ![j] = to]

-----------------------------------------------------------------------------
(* startJob and Supervisor.Start *)

\* Store.Admit: both caps are checked and the job inserted under one lock.
Admit(s, j) ==
  /\ Goto(j, "none", "admitted")
  /\ Below(Cardinality(ActiveOf(s)), PerSession)
  /\ Below(Cardinality(Active), Global)
  /\ registry' = registry \cup {j}
  /\ owner' = [owner EXCEPT ![j] = s]
  /\ state' = [state EXCEPT ![j] = "queued"]
  /\ UNCHANGED <<armed, ctx, worker, call, stopping>>

\* os.Executable fails: Start returns before the job has a cancel function.
NoExecutable(j) ==
  /\ Goto(j, "admitted", "failing")
  /\ UNCHANGED <<registry, owner, state, armed, ctx, worker, call, stopping>>

\* The context is derived from the base context and job.cancel is set.
Arm(j) ==
  /\ Goto(j, "admitted", "armed")
  /\ ctx' = [ctx EXCEPT ![j] = IF stopping THEN "canceled" ELSE "live"]
  /\ armed' = armed \cup {j}
  /\ UNCHANGED <<registry, owner, state, worker, call, stopping>>

\* A pipe or the process cannot be created, or cmd.Start finds the context
\* done: Start cancels the context and returns the error.
LaunchFails(j) ==
  /\ Goto(j, "armed", "failing")
  /\ CancelCtx(j)
  /\ UNCHANGED <<registry, owner, state, armed, worker, call, stopping>>

\* cmd.Start: it refuses a context that is already done.
Launch(j) ==
  /\ Goto(j, "armed", "launched")
  /\ ctx[j] = "live"
  /\ worker' = [worker EXCEPT ![j] = "running"]
  /\ UNCHANGED <<registry, owner, state, armed, ctx, call, stopping>>

MarkRunning(j) ==
  /\ Goto(j, "launched", "waiting")
  /\ SetState(j, "running")
  /\ UNCHANGED <<registry, owner, armed, ctx, worker, call, stopping>>

\* startJob, after Start returned an error: job.Fail.
Fail(j) ==
  /\ Goto(j, "failing", "done")
  /\ SetState(j, "failed")
  /\ UNCHANGED <<registry, owner, armed, ctx, worker, call, stopping>>

\* Bugs: the exit status taken for a state; the exit status ignored; the exit
\* status examined before the context.
VerdictRaw(j) == IF ctx[j] = "canceled" THEN "cancelled" ELSE worker[j]
VerdictIgnoringExit(j) ==
  CASE ctx[j] = "canceled" -> "cancelled"
    [] ctx[j] = "deadline" -> "failed"
    [] OTHER -> "succeeded"
VerdictExitFirst(j) ==
  IF worker[j] = "ok" THEN "succeeded"
  ELSE IF ctx[j] = "canceled" THEN "cancelled" ELSE "failed"

\* The verdict of the supervisor's goroutine once cmd.Wait has returned. The
\* code reads ctx.Err() for each of the first two cases: a context that ends in
\* between is a live one to the first and is what the second finds, so reading
\* it once, before or after, gives the same.
Verdict(j) ==
  CASE ctx[j] = "canceled" -> "cancelled"
    [] ctx[j] = "deadline" -> "failed"
    [] OTHER -> IF worker[j] = "ok" THEN "succeeded" ELSE "failed"

\* Bug: the goroutine does not wait for the process.
JudgeWithoutWait(j) ==
  /\ Goto(j, "waiting", Verdict(j))
  /\ UNCHANGED <<registry, owner, state, armed, ctx, worker, call, stopping>>

\* The pipes are drained and cmd.Wait has returned: the goroutine examines the
\* context and the exit status.
Judge(j) ==
  /\ Exited(j)
  /\ Goto(j, "waiting", Verdict(j))
  /\ UNCHANGED <<registry, owner, state, armed, ctx, worker, call, stopping>>

\* setState, under the job's lock; the context may have ended since.
Settle(j) ==
  /\ pc[j] \in TerminalStates
  /\ SetState(j, pc[j])
  /\ Goto(j, pc[j], "returning")
  /\ UNCHANGED <<registry, owner, armed, ctx, worker, call, stopping>>

\* The goroutine returns: the deferred cancel.
Return(j) ==
  /\ Goto(j, "returning", "done")
  /\ CancelCtx(j)
  /\ UNCHANGED <<registry, owner, state, armed, worker, call, stopping>>

-----------------------------------------------------------------------------
(* The worker process and its context *)

\* The process exits by itself. It needs the spec, written to its stdin by the
\* supervisor's goroutine, to exit with status 0.
WorkerExits(j) ==
  /\ worker[j] = "running"
  /\ \E how \in {"ok", "error"} :
       /\ how = "ok" => pc[j] = "waiting"
       /\ worker' = [worker EXCEPT ![j] = how]
  /\ UNCHANGED <<registry, owner, state, armed, ctx, pc, call, stopping>>

\* Bug: the process is signalled on cancellation only.
WorkerKilledOnCancel(j) ==
  /\ worker[j] = "running"
  /\ ctx[j] = "canceled"
  /\ worker' = [worker EXCEPT ![j] = "error"]
  /\ UNCHANGED <<registry, owner, state, armed, ctx, pc, call, stopping>>

\* SIGTERM when the context is done, SIGKILL five seconds later.
WorkerKilled(j) ==
  /\ worker[j] = "running"
  /\ ctx[j] \in {"canceled", "deadline"}
  /\ worker' = [worker EXCEPT ![j] = "error"]
  /\ UNCHANGED <<registry, owner, state, armed, ctx, pc, call, stopping>>

\* JOB_TIMEOUT passes.
Deadline(j) ==
  /\ Timed
  /\ ctx[j] = "live"
  /\ ctx' = [ctx EXCEPT ![j] = "deadline"]
  /\ UNCHANGED <<registry, owner, state, armed, pc, worker, call, stopping>>

-----------------------------------------------------------------------------
(* Store.Cancel and Store.CancelSession *)

Idle(c) == call[c] = NoCall

\* Cancel(id) from the cancel handler: a job of the caller's own session is
\* looked up, and job.cancel read under the job's lock.
CancelJob(c, s, j) ==
  /\ Idle(c)
  /\ j \in registry /\ owner[j] = s
  /\ call' = [call EXCEPT ![c] = [todo |-> {}, target |-> j, captured |-> j \in armed]]
  /\ UNCHANGED <<registry, owner, state, armed, ctx, pc, worker, stopping>>

\* CancelSession: the ids are collected under the registry's read lock.
CancelSession(c, s) ==
  /\ Idle(c)
  /\ ActiveOf(s) # {}
  /\ call' = [call EXCEPT ![c].todo = ActiveOf(s)]
  /\ UNCHANGED <<registry, owner, state, armed, ctx, pc, worker, stopping>>

\* The next id of the loop: Cancel looks it up, and skips it if it is gone.
CancelNext(c) ==
  /\ call[c].target = NoJob
  /\ \E j \in call[c].todo :
       call' = IF j \in registry
                 THEN [call EXCEPT ![c] = [todo |-> @.todo \ {j}, target |-> j,
                                           captured |-> j \in armed]]
                 ELSE [call EXCEPT ![c].todo = @ \ {j}]
  /\ UNCHANGED <<registry, owner, state, armed, ctx, pc, worker, stopping>>

\* Bug: a job without a cancel function is left alone.
CancelActIfArmed(c) ==
  /\ call[c].target # NoJob
  /\ IF call[c].captured THEN CancelCtx(call[c].target) ELSE UNCHANGED ctx
  /\ call' = [call EXCEPT ![c].target = NoJob, ![c].captured = FALSE]
  /\ UNCHANGED <<registry, owner, state, armed, pc, worker, stopping>>

\* The second half of Cancel, on what the first half read.
CancelAct(c) ==
  /\ call[c].target # NoJob
  /\ \/ /\ call[c].captured
        /\ CancelCtx(call[c].target)
        /\ UNCHANGED state
     \/ /\ ~call[c].captured
        /\ SetState(call[c].target, "cancelled")
        /\ UNCHANGED ctx
  /\ call' = [call EXCEPT ![c].target = NoJob, ![c].captured = FALSE]
  /\ UNCHANGED <<registry, owner, armed, pc, worker, stopping>>

-----------------------------------------------------------------------------
(* The reaper and the shutdown *)

\* Store.RunReaper: one tick drops finished jobs older than the retention.
Reap ==
  /\ ~stopping
  /\ \E old \in SUBSET {j \in registry : Terminal(state[j])} :
       old # {} /\ registry' = registry \ old
  /\ UNCHANGED <<owner, state, armed, ctx, pc, worker, call, stopping>>

\* SIGTERM or SIGINT: the base context is cancelled, and every job's with it.
Shutdown ==
  /\ ~stopping
  /\ stopping' = TRUE
  /\ ctx' = [j \in Job |-> IF ctx[j] = "live" THEN "canceled" ELSE ctx[j]]
  /\ UNCHANGED <<registry, owner, state, armed, pc, worker, call>>

-----------------------------------------------------------------------------
\* The goroutine that starts a job and waits for it.
Supervise(j) ==
  \/ NoExecutable(j) \/ Arm(j) \/ LaunchFails(j) \/ Launch(j)
  \/ MarkRunning(j) \/ Fail(j) \/ Judge(j) \/ Settle(j) \/ Return(j)

Process(j) == WorkerExits(j) \/ WorkerKilled(j) \/ Deadline(j)

CancelStep(c) == CancelNext(c) \/ CancelAct(c)

Next ==
  \/ \E s \in Session, j \in Job : Admit(s, j)
  \/ \E j \in Job : Supervise(j) \/ Process(j)
  \/ \E c \in Caller, s \in Session, j \in Job : CancelJob(c, s, j)
  \/ \E c \in Caller, s \in Session : CancelSession(c, s)
  \/ \E c \in Caller : CancelStep(c)
  \/ Reap
  \/ Shutdown

Spec == Init /\ [][Next]_vars

\* Goroutines are scheduled and the kernel delivers SIGKILL. Users need not act,
\* a worker need not exit by itself, and the deadline may be too far off to wait
\* for (Server adds that it passes).
Fairness ==
  /\ \A j \in Job : WF_vars(Supervise(j)) /\ WF_vars(WorkerKilled(j))
  /\ \A c \in Caller : WF_vars(CancelStep(c))

FairSpec == Spec /\ Fairness

-----------------------------------------------------------------------------
(* Correctness *)

TypeOK ==
  /\ registry \in SUBSET Job
  /\ owner \in [Job -> Session \cup {NoSession}]
  /\ state \in [Job -> States]
  /\ armed \in SUBSET Job
  /\ ctx \in [Job -> CtxStates]
  /\ pc \in [Job -> Positions]
  /\ worker \in [Job -> WorkerStates]
  /\ call \in [Caller -> Calls]
  /\ stopping \in BOOLEAN

\* Store.Admit's comment: concurrent requests cannot push the registered
\* non-terminal jobs over the global cap, whatever cancels, failures and
\* reaping happen in between.
GlobalCap == Global # 0 => Cardinality(Active) <= Global

\* The same for every session's own cap.
SessionCap ==
  PerSession # 0 => \A s \in Session : Cardinality(ActiveOf(s)) <= PerSession

\* A running worker is either counted by Admit (its job is registered and not
\* terminal) or belongs to a job that was cancelled: no failure path, verdict
\* or reaping lets a worker escape the caps except a cancellation.
RunningIsCounted ==
  \A j \in Job : worker[j] = "running" => j \in Active \/ state[j] = "cancelled"

\* A job reported succeeded ran a worker that exited with status 0, and its
\* goroutine has only its return left to do: nobody but the goroutine that
\* waited for the worker reports success.
SucceededIsEarned ==
  \A j \in Job : state[j] = "succeeded" =>
    worker[j] = "ok" /\ pc[j] \in {"returning", "done"}

\* Once a job is terminal its state never changes, although the goroutine that
\* starts it, the one that waits for it and any number of cancels still call
\* setState.
TerminalIsFinal ==
  [][\A j \in Job : Terminal(state[j]) => state'[j] = state[j]]_vars

\* Before the goroutine examined the context a cancel or a timeout has come in
\* time, whatever the worker did meanwhile and however late the verdict is. One
\* that comes between the verdict and setState does not count.
InTime(j) == pc[j] \in {"armed", "launched", "waiting"} /\ ctx[j] \in {"canceled", "deadline"}

\* A cancel or a timeout that reached the context in time is never answered with
\* success, now or later, even if the worker has exited with status 0: a user who
\* cancelled a cleanup is not told it completed.
CancelIsNotSuccess ==
  \A j \in Job : [](InTime(j) => [](state[j] # "succeeded"))

\* Every admitted job reaches a terminal state, even with a worker that hangs
\* and callers that give up half way: JOB_TIMEOUT sees to it.
EveryJobEnds == \A j \in Job : pc[j] = "admitted" ~> Terminal(state[j])

\* Logout and expiry: every job CancelSession collected ends up terminal.
CancelSessionWorks ==
  \A c \in Caller, j \in Job : j \in call[c].todo ~> Terminal(state[j])

\* What the job list shows: a registered job's state; a job that is not
\* registered was never admitted or has been reaped.
View == [j \in Job |-> IF j \in registry THEN state[j]
                       ELSE IF state[j] = "none" THEN "absent" ELSE "forgotten"]

Lifecycle == INSTANCE JobLifecycle WITH view <- View

\* The registry, supervisor and processes together implement the lifecycle the
\* API promises: every step of theirs is one step of it, or invisible.
ImplementsLifecycle == Lifecycle!Spec

-----------------------------------------------------------------------------
(* A claim of the code's comments that does not hold *)

\* Config.MaxJobs is documented as the "global cap on concurrently running
\* workers". A job cancelled before Start set job.cancel is terminal, hence no
\* longer counted, but Start launches its worker all the same.
WorkersWithinCap ==
  Global # 0 => Cardinality({j \in Job : worker[j] = "running"}) <= Global
=============================================================================
