----------------------------- MODULE Sessions -----------------------------
(***************************************************************************)
(* The in-memory session store (internal/session/session.go).               *)
(*                                                                         *)
(* Actors: request goroutines (Store.Get in the auth middleware, then the   *)
(* handler), the reaper (Store.RunReaper) and the main goroutine            *)
(* (Store.Close at shutdown). Get, expired and Delete take and release the  *)
(* store's and the session's locks several times; each action below is one  *)
(* such critical section, and the clock sampled at the start of an          *)
(* operation is carried along in `act`.                                     *)
(*                                                                         *)
(* `inflight` is what the busy hook reports (Store.SetBusy); it is the      *)
(* job registry's business and changes freely here.                         *)
(***************************************************************************)
EXTENDS Naturals

CONSTANTS
  Session,          \* session tokens; newToken() never repeats one
  Request,          \* request goroutines
  Reaper, Main,     \* the goroutine of RunReaper and the main goroutine
  IdleTTL, MaxTTL,  \* SESSION_IDLE_TTL and SESSION_MAX_TTL, in clock ticks
  MaxTime,          \* bound on the clock
  LastCreate,       \* bound on the clock of sign-ins
  NoSession

ASSUME ActorAssumption ==
  /\ Reaper # Main
  /\ Reaper \notin Request /\ Main \notin Request
  /\ NoSession \notin Session
ASSUME TimeAssumption ==
  IdleTTL \in Nat /\ MaxTTL \in Nat /\ MaxTime \in Nat /\ LastCreate \in Nat

VARIABLES
  now,        \* the wall clock
  sessions,   \* Store.sessions
  known,      \* tokens handed out so far
  lastSeen,   \* Session.lastSeen
  expiresAt,  \* Session.ExpiresAt
  closed,     \* sessions closed, their credentials zeroed
  notified,   \* how often onClose has been called for the session
  act,        \* per actor: where it stands in Get, RunReaper, Close or Delete
  inflight    \* sessions with a non-terminal job

svars == <<now, sessions, known, lastSeen, expiresAt, closed, notified, act>>
vars  == <<svars, inflight>>

Actor == Request \cup {Reaper, Main}

\* judge: expired() is about to read the flags; ask: it saw an idle session and
\* is about to call busy(); remove / drop: Delete is called for an expired
\* session / for any other reason; close, notify: the rest of Delete.
\* touch, serve: the rest of Get and the handler. sweep, purge: the reaper's
\* two loops (purge also Close's).
Places == {"idle", "judge", "ask", "touch", "serve", "remove", "drop", "close",
           "notify", "sweep", "purge"}

ActorState == [at : Places, sess : Session \cup {NoSession}, clock : 0 .. MaxTime,
               todo : SUBSET Session, stale : SUBSET Session]
Idling == [at |-> "idle", sess |-> NoSession, clock |-> 0, todo |-> {}, stale |-> {}]

Init ==
  /\ now       = 0
  /\ sessions  = {}
  /\ known     = {}
  /\ lastSeen  = [s \in Session |-> 0]
  /\ expiresAt = [s \in Session |-> 0]
  /\ closed    = {}
  /\ notified  = [s \in Session |-> 0]
  /\ act       = [a \in Actor |-> Idling]
  /\ inflight  = {}

-----------------------------------------------------------------------------
(* Create and Touch *)

\* Store.Create.
Create(s) ==
  /\ s \notin known
  /\ now <= LastCreate
  /\ known'     = known \cup {s}
  /\ sessions'  = sessions \cup {s}
  /\ lastSeen'  = [lastSeen EXCEPT ![s] = now]
  /\ expiresAt' = [expiresAt EXCEPT ![s] = now + MaxTTL]
  /\ UNCHANGED <<now, closed, notified, act>>

\* Store.Touch: the ping of an open event stream.
StreamTouch(s) ==
  /\ s \in sessions
  /\ lastSeen[s] # now
  /\ lastSeen' = [lastSeen EXCEPT ![s] = now]
  /\ UNCHANGED <<now, sessions, known, expiresAt, closed, notified, act>>

-----------------------------------------------------------------------------
(* Store.expired: shared by Get and by the reaper *)

At(a, place) == act[a].at = place
Become(a, r) == act' = [act EXCEPT ![a] = r]
Move(a, place) == Become(a, [act[a] EXCEPT !.at = place])

\* Where the caller of expired goes on: Get deletes the session or renews it,
\* the reaper notes a stale session and turns to the next one.
IfExpired(a) ==
  IF a = Reaper
    THEN Become(a, [act[a] EXCEPT !.at = "sweep", !.stale = act[a].stale \cup {act[a].sess}])
    ELSE Move(a, "remove")
IfLive(a) == Move(a, IF a = Reaper THEN "sweep" ELSE "touch")

PastHardLimit(a) == act[a].clock > expiresAt[act[a].sess]
IdleTooLong(a)   == act[a].clock > lastSeen[act[a].sess] + IdleTTL

\* Bug: the hard limit is checked only for sessions that are idle, too.
JudgeIdleFirst(a) ==
  /\ At(a, "judge")
  /\ CASE ~IdleTooLong(a)  -> IfLive(a)
       [] PastHardLimit(a) -> IfExpired(a)
       [] OTHER            -> Move(a, "ask")
  /\ UNCHANGED <<now, sessions, known, lastSeen, expiresAt, closed, notified>>

\* The flags are read under the session's lock.
Judge(a) ==
  /\ At(a, "judge")
  /\ CASE act[a].sess \in closed \/ PastHardLimit(a) -> IfExpired(a)
       [] OTHER -> IF IdleTooLong(a) THEN Move(a, "ask") ELSE IfLive(a)
  /\ UNCHANGED <<now, sessions, known, lastSeen, expiresAt, closed, notified>>

\* Bug: a busy session's timer is set ahead instead of renewed.
AskBusyAhead(a) ==
  /\ At(a, "ask")
  /\ IF act[a].sess \in inflight
       THEN /\ lastSeen' = [lastSeen EXCEPT ![act[a].sess] = act[a].clock + IdleTTL]
            /\ IfLive(a)
       ELSE IfExpired(a) /\ UNCHANGED lastSeen
  /\ UNCHANGED <<now, sessions, known, expiresAt, closed, notified>>

\* An idle session is asked about: a busy one is renewed as of the caller's
\* clock, the others have expired.
AskBusy(a) ==
  /\ At(a, "ask")
  /\ IF act[a].sess \in inflight
       THEN /\ lastSeen' = [lastSeen EXCEPT ![act[a].sess] = act[a].clock]
            /\ IfLive(a)
       ELSE IfExpired(a) /\ UNCHANGED lastSeen
  /\ UNCHANGED <<now, sessions, known, expiresAt, closed, notified>>

-----------------------------------------------------------------------------
(* Store.Delete *)

\* Delete returns: a request is answered, the reaper and Close take the next.
Return(a) == IF a \in Request THEN Become(a, Idling) ELSE Move(a, "purge")

\* Bug: Delete does not look whether the session was still there.
DeleteBlindly(a) ==
  /\ At(a, "remove") \/ At(a, "drop")
  /\ sessions' = sessions \ {act[a].sess}
  /\ Move(a, "close")
  /\ UNCHANGED <<now, known, lastSeen, expiresAt, closed, notified>>

\* The session is taken out of the map; only who took it out goes on.
Delete(a) ==
  /\ At(a, "remove") \/ At(a, "drop")
  /\ sessions' = sessions \ {act[a].sess}
  /\ IF act[a].sess \in sessions THEN Move(a, "close") ELSE Return(a)
  /\ UNCHANGED <<now, known, lastSeen, expiresAt, closed, notified>>

\* Bug: the credentials are kept for the jobs that still need them.
CloseUnlessBusy(a) ==
  /\ At(a, "close")
  /\ closed' = closed \cup ({act[a].sess} \ inflight)
  /\ Move(a, "notify")
  /\ UNCHANGED <<now, sessions, known, lastSeen, expiresAt, notified>>

\* Session.close: the credentials are zeroed.
CloseSession(a) ==
  /\ At(a, "close")
  /\ closed' = closed \cup {act[a].sess}
  /\ Move(a, "notify")
  /\ UNCHANGED <<now, sessions, known, lastSeen, expiresAt, notified>>

\* onClose returns: the jobs of the session have been cancelled.
OnClose(a) ==
  /\ At(a, "notify")
  /\ notified' = [notified EXCEPT ![act[a].sess] = @ + 1]
  /\ Return(a)
  /\ UNCHANGED <<now, sessions, known, lastSeen, expiresAt, closed>>

-----------------------------------------------------------------------------
(* Store.Get and the handlers *)

\* Get finds the session and samples the clock.
Lookup(r, s) ==
  /\ At(r, "idle")
  /\ s \in sessions
  /\ Become(r, [Idling EXCEPT !.at = "judge", !.sess = s, !.clock = now])
  /\ UNCHANGED <<now, sessions, known, lastSeen, expiresAt, closed, notified>>

\* Get renews the session and the handler runs.
Renew(r) ==
  /\ At(r, "touch")
  /\ lastSeen' = [lastSeen EXCEPT ![act[r].sess] = act[r].clock]
  /\ Move(r, "serve")
  /\ UNCHANGED <<now, sessions, known, expiresAt, closed, notified>>

\* The handler returns.
Respond(r) ==
  /\ At(r, "serve")
  /\ Become(r, Idling)
  /\ UNCHANGED <<now, sessions, known, lastSeen, expiresAt, closed, notified>>

\* handleDeleteSession calls Delete.
SignOut(r) ==
  /\ At(r, "serve")
  /\ Move(r, "drop")
  /\ UNCHANGED <<now, sessions, known, lastSeen, expiresAt, closed, notified>>

-----------------------------------------------------------------------------
(* Store.RunReaper and Store.Close *)

Tick ==
  /\ At(Reaper, "idle")
  /\ sessions # {}
  /\ Become(Reaper, [Idling EXCEPT !.at = "sweep", !.clock = now, !.todo = sessions])
  /\ UNCHANGED <<now, sessions, known, lastSeen, expiresAt, closed, notified>>

SweepNext ==
  /\ At(Reaper, "sweep")
  /\ \/ \E s \in act[Reaper].todo :
          Become(Reaper, [act[Reaper] EXCEPT !.at = "judge", !.sess = s,
                                             !.todo = act[Reaper].todo \ {s}])
     \/ act[Reaper].todo = {} /\ Move(Reaper, "purge")
  /\ UNCHANGED <<now, sessions, known, lastSeen, expiresAt, closed, notified>>

\* Close collects every id; no session has expired for that.
CloseAll ==
  /\ At(Main, "idle")
  /\ sessions # {}
  /\ Become(Main, [Idling EXCEPT !.at = "purge", !.stale = sessions])
  /\ UNCHANGED <<now, sessions, known, lastSeen, expiresAt, closed, notified>>

\* The loop over the collected ids, the reaper's and Close's.
PurgeNext(a) ==
  /\ At(a, "purge")
  /\ \/ \E s \in act[a].stale :
          Become(a, [act[a] EXCEPT !.at = IF a = Reaper THEN "remove" ELSE "drop",
                                   !.sess = s, !.stale = act[a].stale \ {s}])
     \/ act[a].stale = {} /\ Become(a, Idling)
  /\ UNCHANGED <<now, sessions, known, lastSeen, expiresAt, closed, notified>>

-----------------------------------------------------------------------------
TimePasses ==
  /\ now < MaxTime
  /\ now' = now + 1
  /\ UNCHANGED <<sessions, known, lastSeen, expiresAt, closed, notified, act>>

\* What an actor does once it is under way, the handler's own steps excepted.
Step(a) ==
  \/ Judge(a) \/ AskBusy(a) \/ Delete(a) \/ CloseSession(a) \/ OnClose(a)
  \/ PurgeNext(a)
  \/ a \in Request /\ Renew(a)
  \/ a = Reaper /\ SweepNext

\* Jobs start and end.
JobsChange ==
  /\ inflight' \in SUBSET known
  /\ UNCHANGED svars

Next ==
  \/ /\ \/ \E s \in Session : Create(s) \/ StreamTouch(s)
        \/ \E r \in Request, s \in Session : Lookup(r, s)
        \/ \E r \in Request : Respond(r) \/ SignOut(r)
        \/ \E a \in Actor : Step(a)
        \/ Tick
        \/ CloseAll
        \/ TimePasses
     /\ UNCHANGED inflight
  \/ JobsChange

Spec == Init /\ [][Next]_vars

\* Time passes, goroutines are scheduled and the reaper's ticker fires.
Fairness ==
  /\ WF_vars(TimePasses /\ UNCHANGED inflight)
  /\ WF_vars(Tick /\ UNCHANGED inflight)
  /\ \A a \in Actor : WF_vars(Step(a) /\ UNCHANGED inflight)

FairSpec == Spec /\ Fairness

-----------------------------------------------------------------------------
(* Correctness *)

TypeOK ==
  /\ now \in 0 .. MaxTime
  /\ sessions \in SUBSET Session
  /\ known \in SUBSET Session
  /\ lastSeen \in [Session -> 0 .. now]
  /\ expiresAt \in [Session -> 0 .. LastCreate + MaxTTL]
  /\ closed \in SUBSET Session
  /\ notified \in [Session -> Nat]
  /\ act \in [Actor -> ActorState]
  /\ inflight \in SUBSET Session

\* Delete "is safe to call twice": however a logout, an expired Get, the reaper
\* and the shutdown race, a session's jobs are cancelled once.
OnCloseOnce == \A s \in Session : notified[s] <= 1

\* The order that makes onClose conclusive: when it has returned, the session
\* cannot be looked up and its credentials are gone, so a request that reads
\* them afterwards starts nothing.
ClosedBeforeNotified ==
  \A s \in Session : notified[s] > 0 => s \in closed /\ s \notin sessions

\* SetBusy: "The hard maxTTL still applies". No request is served on a session
\* whose hard limit had passed when the request looked it up, however busy the
\* session is and however often streams and requests renew it.
HardLimitHolds ==
  \A r \in Request : act[r].at \in {"touch", "serve"} =>
    act[r].clock <= expiresAt[act[r].sess]

\* Every session's credentials are dropped in the end, even if jobs keep it
\* busy and a stream keeps touching it.
CredentialsDropped == \A s \in Session : s \in known ~> s \in closed
=============================================================================
