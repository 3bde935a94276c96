------------------------------- MODULE Server -------------------------------
(***************************************************************************)
(* The session store and the job registry as the server wires them          *)
(* (cmd/broom/main.go, internal/api): the busy hook of the sessions counts   *)
(* the jobs, onClose is CancelSession, and the handlers go from one to the   *)
(* other. The steps are those of Sessions and of Jobs; this module adds the  *)
(* handlers that take steps of both.                                         *)
(***************************************************************************)
EXTENDS Naturals, FiniteSets

CONSTANTS
  Job, Session, Request, Reaper, Main, PerSession, Global, Timed,
  IdleTTL, MaxTTL, MaxTime, LastCreate, NoSession, NoJob

ASSUME CapsAssumption    == PerSession \in Nat /\ Global \in Nat
ASSUME TimedAssumption   == Timed \in BOOLEAN
ASSUME NoValueAssumption == NoSession \notin Session /\ NoJob \notin Job
ASSUME ActorAssumption   ==
  Reaper # Main /\ Reaper \notin Request /\ Main \notin Request
ASSUME WorkAssumption    ==
  Job \cap {"nothing", "creds", "refused", "cancel", "collected"} = {}
ASSUME TimeAssumption    ==
  IdleTTL \in Nat /\ MaxTTL \in Nat /\ MaxTime \in Nat /\ LastCreate \in Nat

VARIABLES
  registry, owner, state, armed, ctx, pc, worker, call, stopping,         \* Jobs
  now, sessions, known, lastSeen, expiresAt, closed, notified, act,       \* Sessions
  work,   \* per actor: what its handler or its Delete has got so far
  late    \* history: jobs admitted after their session's credentials were zeroed

jobVars  == <<registry, owner, state, armed, ctx, pc, worker, call, stopping>>
sessVars == <<now, sessions, known, lastSeen, expiresAt, closed, notified, act>>
vars     == <<jobVars, sessVars, work, late>>

Actor == Request \cup {Reaper, Main}

Jb == INSTANCE Jobs WITH Caller <- Actor

\* The busy hook: jobStore.RunningForSession(id) > 0.
Busy == {s \in Session : Jb!ActiveOf(s) # {}}

Ss == INSTANCE Sessions WITH inflight <- Busy

\* nothing; the credentials read by startJob; the job startJob admitted, or its
\* refusal; a cancel; the session's jobs collected by CancelSession.
Works == {"nothing", "creds", "refused", "cancel", "collected"} \cup Job

Init == Jb!Init /\ Ss!Init /\ work = [a \in Actor |-> "nothing"] /\ late = {}

Sess(a)    == act[a].sess
Serving(r) == act[r].at = "serve"
Free(r)    == Serving(r) /\ work[r] = "nothing" /\ Jb!Idle(r)

-----------------------------------------------------------------------------
(* The handlers *)

\* startJob: Credentials() fails once the session is closed.
ReadCredentials(r) ==
  /\ Free(r)
  /\ work' = [work EXCEPT ![r] = IF Sess(r) \in closed THEN "refused" ELSE "creds"]
  /\ UNCHANGED <<jobVars, sessVars, late>>

\* startJob: Admit for the session of the request, whether or not that session
\* still exists.
AdmitJob(r, j) ==
  /\ Serving(r) /\ work[r] = "creds"
  /\ Jb!Admit(Sess(r), j)
  /\ work' = [work EXCEPT ![r] = j]
  /\ late' = IF Sess(r) \in closed THEN late \cup {j} ELSE late
  /\ UNCHANGED sessVars

\* Bug: a refused request does not return.
AdmitRefusedOn(r) ==
  /\ Serving(r) /\ work[r] = "creds"
  /\ ~ (/\ Jb!Below(Cardinality(Jb!ActiveOf(Sess(r))), PerSession)
        /\ Jb!Below(Cardinality(Jb!Active), Global))
  /\ work' = [work EXCEPT ![r] = "created"]
  /\ UNCHANGED <<jobVars, sessVars, late>>

\* Admit refuses; 409 or 503.
AdmitRefused(r) ==
  /\ Serving(r) /\ work[r] = "creds"
  /\ ~ (/\ Jb!Below(Cardinality(Jb!ActiveOf(Sess(r))), PerSession)
        /\ Jb!Below(Cardinality(Jb!Active), Global))
  /\ work' = [work EXCEPT ![r] = "refused"]
  /\ UNCHANGED <<jobVars, sessVars, late>>

\* handleCancelJob: jobFor only finds jobs of the request's session.
CancelRequest(r, j) ==
  /\ Free(r)
  /\ Jb!CancelJob(r, Sess(r), j)
  /\ work' = [work EXCEPT ![r] = "cancel"]
  /\ UNCHANGED <<sessVars, late>>

\* The handler answers: startJob once Start has returned (and Fail, if it
\* failed), handleCancelJob once Cancel has, a read-only handler at any time.
Respond(r) ==
  /\ Ss!Respond(r)
  /\ Jb!Idle(r)
  /\ \/ work[r] \in {"nothing", "refused", "cancel"}
     \/ work[r] \in Job /\ pc[work[r]] \in Jb!Detached
  /\ work' = [work EXCEPT ![r] = "nothing"]
  /\ UNCHANGED <<jobVars, late>>

\* handleDeleteSession.
SignOut(r) == Free(r) /\ Ss!SignOut(r) /\ UNCHANGED <<jobVars, work, late>>

-----------------------------------------------------------------------------
(* onClose = jobStore.CancelSession *)

\* Bug: only jobs that already have a worker are collected.
CollectRunning(a) ==
  /\ act[a].at = "notify" /\ work[a] = "nothing"
  /\ call' = [call EXCEPT ![a].todo = {j \in Jb!ActiveOf(Sess(a)) : state[j] = "running"}]
  /\ work' = [work EXCEPT ![a] = "collected"]
  /\ UNCHANGED <<registry, owner, state, armed, ctx, pc, worker, stopping, sessVars, late>>

\* Delete calls onClose: CancelSession collects the session's jobs.
Collect(a) ==
  /\ act[a].at = "notify" /\ work[a] = "nothing"
  /\ \/ Jb!CancelSession(a, Sess(a))
     \/ Jb!ActiveOf(Sess(a)) = {} /\ UNCHANGED jobVars
  /\ work' = [work EXCEPT ![a] = "collected"]
  /\ UNCHANGED <<sessVars, late>>

\* CancelSession has cancelled them all, and Delete returns.
OnClose(a) ==
  /\ work[a] = "collected" /\ Jb!Idle(a)
  /\ Ss!OnClose(a)
  /\ work' = [work EXCEPT ![a] = "nothing"]
  /\ UNCHANGED <<jobVars, late>>

-----------------------------------------------------------------------------
(* Steps of one component *)

SessionStep ==
  /\ \/ \E s \in Session : Ss!Create(s) \/ Ss!StreamTouch(s)
     \/ \E r \in Request, s \in Session : Ss!Lookup(r, s)
     \/ \E r \in Request : Ss!Renew(r)
     \/ \E a \in Actor :
          Ss!Judge(a) \/ Ss!AskBusy(a) \/ Ss!Delete(a) \/ Ss!CloseSession(a) \/ Ss!PurgeNext(a)
     \/ Ss!SweepNext
     \/ ~stopping /\ Ss!Tick
     \/ stopping /\ Ss!CloseAll
     \/ Ss!TimePasses
  /\ UNCHANGED <<jobVars, work, late>>

JobStep ==
  /\ \/ \E j \in Job : Jb!Supervise(j) \/ Jb!Process(j)
     \/ \E a \in Actor : Jb!CancelStep(a)
     \/ Jb!Reap
     \/ Jb!Shutdown
  /\ UNCHANGED <<sessVars, work, late>>

HandlerStep(r) ==
  \/ ReadCredentials(r) \/ AdmitRefused(r) \/ Respond(r) \/ SignOut(r)
  \/ \E j \in Job : AdmitJob(r, j) \/ CancelRequest(r, j)

Next ==
  \/ SessionStep
  \/ JobStep
  \/ \E r \in Request : HandlerStep(r)
  \/ \E a \in Actor : Collect(a) \/ OnClose(a)

Spec == Init /\ [][Next]_vars

\* What the runtime keeps scheduling: the supervisor of a job, the timer of its
\* context and the kernel's kill. Requests, logouts and the reaper may stop for
\* good at any point, also in the middle of onClose.
Fairness ==
  \A j \in Job :
    /\ WF_vars(Jb!Supervise(j) /\ UNCHANGED <<sessVars, work, late>>)
    /\ WF_vars(Jb!WorkerKilled(j) /\ UNCHANGED <<sessVars, work, late>>)
    /\ WF_vars(Jb!Deadline(j) /\ UNCHANGED <<sessVars, work, late>>)

FairSpec == Spec /\ Fairness

-----------------------------------------------------------------------------
(* Correctness *)

TypeOK ==
  /\ Jb!TypeOK /\ Ss!TypeOK
  /\ work \in [Actor -> Works] /\ late \in SUBSET Job

\* A session that ends takes its work with it: when onClose has returned, every
\* job of the session that is not terminal has been told to stop, at whatever
\* point of startJob it was, unless it was admitted after the credentials were
\* zeroed by a request that had read them before.
OnlyLateJobsSurvive ==
  \A s \in Session : notified[s] > 0 =>
    \A j \in Jb!ActiveOf(s) \ late : ctx[j] \in {"canceled", "deadline"}

\* No worker outlives its session for good, whoever raced with the logout: it
\* ends and no other is started for that session.
WorkersEndWithSession ==
  \A s \in Session : s \in closed ~>
    [](\A j \in Job : owner[j] = s => worker[j] # "running")

\* Every job that startJob admitted reaches a terminal state, whatever becomes of
\* the session it was admitted for: the deadline of its context sees to it.
EveryJobEnds == Jb!EveryJobEnds

-----------------------------------------------------------------------------
(* Claims of the documentation and of the code's comments that do not hold *)

\* docs/security.md: signing out "kills the session's running workers". A
\* request that read the credentials before they were zeroed still starts one
\* after CancelSession has collected the session's jobs.
NoWorkerAfterSession ==
  [][\A j \in Job : worker[j] = "none" /\ worker'[j] = "running"
       => notified[owner[j]] = 0]_vars
=============================================================================
