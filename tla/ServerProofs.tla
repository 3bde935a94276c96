---------------------------- MODULE ServerProofs ----------------------------
(***************************************************************************)
(* Theorems about Server, for any number of jobs, sessions and requests.    *)
(* The wired server is a behaviour of Jobs and of Sessions, so what their   *)
(* proofs say of them holds of it; and a session that ends takes every job  *)
(* with it that was admitted before its credentials were zeroed.            *)
(* Further down, theorems about WebSession, the browser's side of a session. *)
(***************************************************************************)
EXTENDS Server, TLAPS, SessionTab

JP == INSTANCE JobsProofs WITH Caller <- Actor
SP == INSTANCE SessionsProofs WITH inflight <- Busy

-----------------------------------------------------------------------------
(* The steps of the two components are those their proofs are about *)

LEMMA SameCounts ==
  /\ \A S : Jb!Cardinality(S) = JP!Cardinality(S)
  /\ Jb!Active = JP!Active /\ \A s : Jb!ActiveOf(s) = JP!ActiveOf(s)
<1>1. \A S : Jb!Cardinality(S) = JP!Cardinality(S)
  BY DEF Jb!Cardinality, JP!Cardinality
<1>2. Jb!Active = JP!Active /\ \A s : Jb!ActiveOf(s) = JP!ActiveOf(s)
  BY DEF Jb!Active, JP!Active, Jb!ActiveOf, JP!ActiveOf, Jb!Terminal, JP!Terminal,
         Jb!TerminalStates, JP!TerminalStates
<1>3. QED  BY <1>1, <1>2

LEMMA SameSupervise == \A j : Jb!Supervise(j) <=> JP!Supervise(j)
BY DEF Jb!Supervise, JP!Supervise, Jb!NoExecutable, JP!NoExecutable, Jb!Arm, JP!Arm,
       Jb!LaunchFails, JP!LaunchFails, Jb!Launch, JP!Launch, Jb!MarkRunning, JP!MarkRunning,
       Jb!Fail, JP!Fail, Jb!Judge, JP!Judge, Jb!Settle, JP!Settle,
       Jb!Return, JP!Return, Jb!Goto, JP!Goto, Jb!SetState, JP!SetState,
       Jb!CancelCtx, JP!CancelCtx, Jb!Verdict, JP!Verdict, Jb!Exited, JP!Exited,
       Jb!Terminal, JP!Terminal, Jb!TerminalStates, JP!TerminalStates

LEMMA SameProcess == \A j : Jb!Process(j) <=> JP!Process(j)
BY DEF Jb!Process, JP!Process, Jb!WorkerExits, JP!WorkerExits, Jb!WorkerKilled,
       JP!WorkerKilled, Jb!Deadline, JP!Deadline

LEMMA SameCancel == \A c : Jb!CancelStep(c) <=> JP!CancelStep(c)
BY DEF Jb!CancelStep, JP!CancelStep, Jb!CancelNext, JP!CancelNext, Jb!CancelAct, JP!CancelAct,
       Jb!SetState, JP!SetState, Jb!CancelCtx, JP!CancelCtx,
       Jb!Terminal, JP!Terminal, Jb!TerminalStates, JP!TerminalStates

LEMMA SameJobs ==
  /\ Jb!Init <=> JP!Init
  /\ \A s, j : Jb!Admit(s, j) <=> JP!Admit(s, j)
  /\ \A c, s, j : Jb!CancelJob(c, s, j) <=> JP!CancelJob(c, s, j)
  /\ \A c, s : Jb!CancelSession(c, s) <=> JP!CancelSession(c, s)
  /\ Jb!Reap <=> JP!Reap
  /\ Jb!Shutdown <=> JP!Shutdown
<1>1. Jb!Init <=> JP!Init  BY DEF Jb!Init, JP!Init, Jb!NoCall, JP!NoCall
<1>2. \A s, j : Jb!Admit(s, j) <=> JP!Admit(s, j)
  BY SameCounts DEF Jb!Admit, JP!Admit, Jb!Below, JP!Below, Jb!Goto, JP!Goto
<1>3. \A c, s, j : Jb!CancelJob(c, s, j) <=> JP!CancelJob(c, s, j)
  BY DEF Jb!CancelJob, JP!CancelJob, Jb!Idle, JP!Idle, Jb!NoCall, JP!NoCall
<1>4. \A c, s : Jb!CancelSession(c, s) <=> JP!CancelSession(c, s)
  BY SameCounts DEF Jb!CancelSession, JP!CancelSession, Jb!Idle, JP!Idle, Jb!NoCall, JP!NoCall
<1>5. (Jb!Reap <=> JP!Reap) /\ (Jb!Shutdown <=> JP!Shutdown)
  BY DEF Jb!Reap, JP!Reap, Jb!Shutdown, JP!Shutdown, Jb!Terminal, JP!Terminal,
         Jb!TerminalStates, JP!TerminalStates
<1>6. QED  BY <1>1, <1>2, <1>3, <1>4, <1>5

LEMMA SameJudge ==
  /\ \A a : Ss!Judge(a) <=> SP!Judge(a)
  /\ \A a : Ss!AskBusy(a) <=> SP!AskBusy(a)
BY DEF Ss!Judge, SP!Judge, Ss!AskBusy, SP!AskBusy, Ss!IfExpired, SP!IfExpired,
       Ss!IfLive, SP!IfLive, Ss!Move, SP!Move, Ss!Become, SP!Become, Ss!At, SP!At,
       Ss!PastHardLimit, SP!PastHardLimit, Ss!IdleTooLong, SP!IdleTooLong

LEMMA SameDelete ==
  /\ \A a : Ss!Delete(a) <=> SP!Delete(a)
  /\ \A a : Ss!CloseSession(a) <=> SP!CloseSession(a)
  /\ \A a : Ss!OnClose(a) <=> SP!OnClose(a)
  /\ \A a : Ss!PurgeNext(a) <=> SP!PurgeNext(a)
BY DEF Ss!Delete, SP!Delete, Ss!CloseSession, SP!CloseSession, Ss!OnClose, SP!OnClose,
       Ss!PurgeNext, SP!PurgeNext, Ss!Return, SP!Return, Ss!Move, SP!Move,
       Ss!Become, SP!Become, Ss!At, SP!At, Ss!Idling, SP!Idling

LEMMA SameRequests ==
  /\ \A s : Ss!Create(s) <=> SP!Create(s)
  /\ \A s : Ss!StreamTouch(s) <=> SP!StreamTouch(s)
  /\ \A r, s : Ss!Lookup(r, s) <=> SP!Lookup(r, s)
  /\ \A r : Ss!Renew(r) <=> SP!Renew(r)
  /\ \A r : Ss!Respond(r) <=> SP!Respond(r)
  /\ \A r : Ss!SignOut(r) <=> SP!SignOut(r)
BY DEF Ss!Create, SP!Create, Ss!StreamTouch, SP!StreamTouch, Ss!Lookup, SP!Lookup,
       Ss!Renew, SP!Renew, Ss!Respond, SP!Respond, Ss!SignOut, SP!SignOut,
       Ss!Move, SP!Move, Ss!Become, SP!Become, Ss!At, SP!At, Ss!Idling, SP!Idling

LEMMA SameRest ==
  /\ Ss!Init <=> SP!Init
  /\ Ss!Tick <=> SP!Tick
  /\ Ss!SweepNext <=> SP!SweepNext
  /\ Ss!CloseAll <=> SP!CloseAll
  /\ Ss!TimePasses <=> SP!TimePasses
BY DEF Ss!Init, SP!Init, Ss!Actor, SP!Actor, Ss!Tick, SP!Tick, Ss!SweepNext, SP!SweepNext,
       Ss!CloseAll, SP!CloseAll, Ss!TimePasses, SP!TimePasses,
       Ss!Move, SP!Move, Ss!Become, SP!Become, Ss!At, SP!At, Ss!Idling, SP!Idling

-----------------------------------------------------------------------------
(* A step of the server is a step of the jobs, and one of the sessions *)

\* Whoever serves a request, or is to call onClose, has a session in hand.
LEMMA InHand ==
  ASSUME SP!Inv, NEW a \in Actor, act[a].at \in {"serve", "notify"}
  PROVE  Sess(a) \in Session
BY DEF SP!Inv, SP!ActorsOK, SP!Holding, SP!Actor, Actor, Sess

LEMMA StepOfJobs == SP!Inv /\ [Next]_vars => [JP!Next]_jobVars
<1> SUFFICES ASSUME SP!Inv, [Next]_vars PROVE JP!Next \/ UNCHANGED jobVars  OBVIOUS
<1>1. CASE SessionStep  BY <1>1 DEF SessionStep
<1>2. CASE JobStep
  BY <1>2, SameSupervise, SameProcess, SameCancel, SameJobs DEF JobStep, JP!Next
<1>3. ASSUME NEW r \in Request, HandlerStep(r) PROVE JP!Next \/ UNCHANGED jobVars
  <2>1. CASE ReadCredentials(r) \/ AdmitRefused(r) \/ Respond(r) \/ SignOut(r)
    BY <2>1 DEF ReadCredentials, AdmitRefused, Respond, SignOut
  <2>2. ASSUME NEW j \in Job, AdmitJob(r, j) PROVE JP!Next
    <3>1. Sess(r) \in Session  BY <2>2, InHand DEF AdmitJob, Serving, Actor
    <3>2. JP!Admit(Sess(r), j)  BY <2>2, SameJobs DEF AdmitJob
    <3>3. QED  BY <3>1, <3>2 DEF JP!Next
  <2>3. ASSUME NEW j \in Job, CancelRequest(r, j) PROVE JP!Next
    <3>1. Sess(r) \in Session  BY <2>3, InHand DEF CancelRequest, Free, Serving, Actor
    <3>2. JP!CancelJob(r, Sess(r), j)  BY <2>3, SameJobs DEF CancelRequest
    <3>3. r \in Actor  BY DEF Actor
    <3>4. QED  BY <3>1, <3>2, <3>3 DEF JP!Next
  <2>4. QED  BY <1>3, <2>1, <2>2, <2>3 DEF HandlerStep
<1>4. ASSUME NEW a \in Actor, Collect(a) PROVE JP!Next \/ UNCHANGED jobVars
  <2>1. Sess(a) \in Session  BY <1>4, InHand DEF Collect
  <2>2. JP!CancelSession(a, Sess(a)) \/ UNCHANGED jobVars  BY <1>4, SameJobs DEF Collect
  <2>3. QED  BY <2>1, <2>2 DEF JP!Next
<1>5. ASSUME NEW a \in Actor, OnClose(a) PROVE UNCHANGED jobVars
  BY <1>5 DEF OnClose
<1>6. CASE UNCHANGED vars  BY <1>6 DEF vars
<1>7. QED  BY <1>1, <1>2, <1>3, <1>4, <1>5, <1>6 DEF Next

\* What an actor has in hand was handed out, and so was the session of every job.
HeldOK ==
  \A a \in Actor :
    act[a].sess \in known \cup {NoSession} /\ act[a].todo \cup act[a].stale \subseteq known

JobsKnown == \A j \in registry : owner[j] \in known

\* The steps that are the session store's own.
LEMMA StepOfStore ==
  ASSUME SessionStep \/ (\E r \in Request : Respond(r) \/ SignOut(r)) \/ (\E a \in Actor : OnClose(a))
  PROVE  /\ UNCHANGED jobVars /\ Busy' = Busy
         /\ \/ \E s \in Session : SP!Create(s) \/ SP!StreamTouch(s)
            \/ \E r \in Request, s \in Session : SP!Lookup(r, s)
            \/ \E r \in Request : SP!Respond(r) \/ SP!SignOut(r)
            \/ \E a \in SP!Actor : SP!Step(a)
            \/ SP!Tick \/ SP!CloseAll \/ SP!TimePasses
<1>1. UNCHANGED jobVars  BY DEF SessionStep, Respond, SignOut, OnClose
<1>2. Busy' = Busy  BY <1>1 DEF jobVars, Busy, Jb!ActiveOf, Jb!Active, Jb!Terminal, Jb!TerminalStates
<1> USE SameJudge, SameDelete, SameRequests, SameRest DEF SP!Step, SP!Actor, Actor
<1>3. CASE \E a \in Actor : OnClose(a)
  BY <1>1, <1>2, <1>3 DEF OnClose
<1>4. CASE \E r \in Request : Respond(r) \/ SignOut(r)
  BY <1>1, <1>2, <1>4 DEF Respond, SignOut
<1>5. CASE SessionStep
  <2>1. CASE \E s \in Session : Ss!Create(s) \/ Ss!StreamTouch(s)
    BY <1>1, <1>2, <2>1
  <2>2. CASE \E r \in Request, s \in Session : Ss!Lookup(r, s)
    BY <1>1, <1>2, <2>2
  <2>3. CASE \E r \in Request : Ss!Renew(r)
    BY <1>1, <1>2, <2>3
  <2>4. CASE \E a \in Actor :
               Ss!Judge(a) \/ Ss!AskBusy(a) \/ Ss!Delete(a) \/ Ss!CloseSession(a) \/ Ss!PurgeNext(a)
    BY <1>1, <1>2, <2>4
  <2>5. CASE Ss!SweepNext
    BY <1>1, <1>2, <2>5
  <2>6. CASE Ss!Tick \/ Ss!CloseAll \/ Ss!TimePasses
    BY <1>1, <1>2, <2>6
  <2>7. QED  BY <1>5, <2>1, <2>2, <2>3, <2>4, <2>5, <2>6 DEF SessionStep
<1>6. QED  BY <1>3, <1>4, <1>5

\* Every other step leaves the store alone.
LEMMA StoreAlone ==
  ASSUME JobStep
         \/ (\E r \in Request : ReadCredentials(r) \/ AdmitRefused(r)
               \/ \E j \in Job : AdmitJob(r, j) \/ CancelRequest(r, j))
         \/ (\E a \in Actor : Collect(a)) \/ UNCHANGED vars
  PROVE  UNCHANGED sessVars
BY DEF JobStep, ReadCredentials, AdmitRefused, AdmitJob, CancelRequest, Collect, vars

LEMMA StepOfSessions ==
  [Next]_vars /\ JobsKnown' => [SP!Next]_SP!vars
<1> SUFFICES ASSUME [Next]_vars, JobsKnown' PROVE SP!Next \/ UNCHANGED SP!vars  OBVIOUS
<1>1. CASE SessionStep \/ (\E r \in Request : Respond(r) \/ SignOut(r)) \/ (\E a \in Actor : OnClose(a))
  BY <1>1, StepOfStore DEF SP!Next
<1>2. CASE UNCHANGED sessVars
  <2>1. Busy' \in SUBSET known  BY <1>2 DEF sessVars, JobsKnown, Busy, Jb!ActiveOf, Jb!Active
  <2>2. UNCHANGED SP!svars  BY <1>2 DEF sessVars, SP!svars
  <2>3. QED  BY <2>1, <2>2 DEF SP!Next, SP!JobsChange
<1>3. QED  BY <1>1, <1>2, StoreAlone DEF Next, HandlerStep

-----------------------------------------------------------------------------
(* Who holds what was handed out *)

LEMMA HeldAfterMove ==
  ASSUME HeldOK, SP!ActorsOK, NEW a \in Actor, NEW r, known \subseteq known',
         act' = [act EXCEPT ![a] = r],
         r.sess \in known \cup {NoSession}, r.todo \cup r.stale \subseteq known
  PROVE  HeldOK'
<1>1. \A b \in Actor : act'[b] = IF b = a THEN r ELSE act[b]
  BY DEF SP!ActorsOK, SP!Actor, Actor
<1>2. QED  BY <1>1 DEF HeldOK

LEMMA IdlingHeld == SP!Idling.sess = NoSession /\ SP!Idling.todo = {} /\ SP!Idling.stale = {}
BY DEF SP!Idling

\* What an actor becomes has nothing in hand that it had not before.
LEMMA StepHeld ==
  ASSUME HeldOK, SP!Inv,
         \/ \E s \in Session : SP!Create(s) \/ SP!StreamTouch(s)
         \/ \E r \in Request, s \in Session : SP!Lookup(r, s)
         \/ \E r \in Request : SP!Respond(r) \/ SP!SignOut(r)
         \/ \E a \in SP!Actor : SP!Step(a)
         \/ SP!Tick \/ SP!CloseAll \/ SP!TimePasses
  PROVE  HeldOK' /\ known \subseteq known'
<1> USE DEF SP!Move, SP!Become, SP!At
<1>0. SP!Actor = Actor /\ SP!ActorsOK /\ sessions \subseteq known
  BY DEF SP!Inv, SP!SetsOK, SP!Actor, Actor
<1>1. \A a \in Actor : /\ act[a] \in SP!ActorState
                       /\ act[a].sess \in known \cup {NoSession}
                       /\ act[a].todo \subseteq known /\ act[a].stale \subseteq known
  BY <1>0 DEF HeldOK, SP!ActorsOK
<1>2. ASSUME NEW a \in Actor, NEW p, SP!Move(a, p), UNCHANGED known PROVE HeldOK'
  <2>1. act' = [act EXCEPT ![a] = [act[a] EXCEPT !.at = p]]  BY <1>2
  <2> DEFINE r == [act[a] EXCEPT !.at = p]
  <2>2. r.sess = act[a].sess /\ r.todo = act[a].todo /\ r.stale = act[a].stale
    BY <1>1 DEF SP!ActorState
  <2> HIDE DEF r
  <2>3. act' = [act EXCEPT ![a] = r]  BY <2>1 DEF r
  <2>4. QED  BY <1>0, <1>1, <1>2, <2>2, <2>3, HeldAfterMove
<1>3. ASSUME NEW a \in Actor, SP!Become(a, SP!Idling), UNCHANGED known PROVE HeldOK'
  BY <1>0, <1>3, IdlingHeld, HeldAfterMove
<1>4. ASSUME NEW a \in Actor, SP!IfExpired(a) \/ SP!IfLive(a), UNCHANGED known, act[a].sess \in Session PROVE HeldOK'
  <2>1. CASE a = Reaper /\ SP!IfExpired(a)
    <3> DEFINE r == [act[a] EXCEPT !.at = "sweep", !.stale = act[a].stale \cup {act[a].sess}]
    <3>1. r.sess = act[a].sess /\ r.todo = act[a].todo /\ r.stale = act[a].stale \cup {act[a].sess}
      BY <1>1 DEF SP!ActorState
    <3>2. act' = [act EXCEPT ![a] = r]  BY <2>1 DEF SP!IfExpired
    <3>3. act[a].sess \in known  BY <1>1, <1>4, NoValueAssumption
    <3> HIDE DEF r
    <3>4. QED  BY <1>0, <1>1, <1>4, <3>1, <3>2, <3>3, HeldAfterMove
  <2>2. CASE ~(a = Reaper /\ SP!IfExpired(a))
    <3>1. \E p : SP!Move(a, p)  BY <1>4, <2>2 DEF SP!IfExpired, SP!IfLive
    <3>2. QED  BY <1>2, <1>4, <3>1
  <2>3. QED  BY <2>1, <2>2
<1>5. \A a \in Actor : act[a].at \in {"judge", "ask"} => act[a].sess \in Session
  BY <1>0 DEF SP!ActorsOK, SP!Holding
<1>6. ASSUME NEW s \in Session, SP!Create(s) \/ SP!StreamTouch(s)
      PROVE  HeldOK' /\ known \subseteq known'
  BY <1>6 DEF SP!Create, SP!StreamTouch, HeldOK
<1>7. ASSUME NEW r \in Request, NEW s \in Session, SP!Lookup(r, s) PROVE HeldOK' /\ UNCHANGED known
  <2> DEFINE q == [SP!Idling EXCEPT !.at = "judge", !.sess = s, !.clock = now]
  <2>1. q.sess = s /\ q.todo = {} /\ q.stale = {}  BY DEF SP!Idling
  <2>2. act' = [act EXCEPT ![r] = q] /\ UNCHANGED known /\ s \in known
    BY <1>0, <1>7 DEF SP!Lookup
  <2>3. r \in Actor  BY DEF Actor
  <2> HIDE DEF q
  <2>4. QED  BY <1>0, <2>1, <2>2, <2>3, HeldAfterMove
<1>8. ASSUME NEW r \in Request, SP!Respond(r) \/ SP!SignOut(r) PROVE HeldOK' /\ UNCHANGED known
  <2>1. r \in Actor  BY DEF Actor
  <2>2. QED  BY <1>2, <1>3, <1>8, <2>1 DEF SP!Respond, SP!SignOut
<1>9. ASSUME NEW a \in Actor, SP!Step(a) PROVE HeldOK' /\ UNCHANGED known
  <2>1. CASE SP!Judge(a)
    <3>1. SP!IfExpired(a) \/ SP!IfLive(a) \/ SP!Move(a, "ask")  BY <2>1 DEF SP!Judge
    <3>2. QED  BY <1>2, <1>4, <1>5, <2>1, <3>1 DEF SP!Judge
  <2>2. CASE SP!AskBusy(a)
    BY <1>4, <1>5, <2>2 DEF SP!AskBusy
  <2>3. CASE SP!Delete(a) \/ SP!CloseSession(a) \/ SP!OnClose(a) \/ SP!Renew(a)
    BY <1>2, <1>3, <2>3 DEF SP!Delete, SP!CloseSession, SP!OnClose, SP!Renew, SP!Return
  <2>4. CASE SP!PurgeNext(a)
    <3>1. CASE SP!Become(a, SP!Idling)  BY <1>3, <2>4, <3>1 DEF SP!PurgeNext
    <3>2. ASSUME NEW s \in act[a].stale,
                 SP!Become(a, [act[a] EXCEPT !.at = IF a = Reaper THEN "remove" ELSE "drop",
                                             !.sess = s, !.stale = act[a].stale \ {s}])
          PROVE  HeldOK'
      <4> DEFINE r == [act[a] EXCEPT !.at = IF a = Reaper THEN "remove" ELSE "drop",
                                     !.sess = s, !.stale = act[a].stale \ {s}]
      <4>1. r.sess = s /\ r.todo = act[a].todo /\ r.stale = act[a].stale \ {s}
        BY <1>1 DEF SP!ActorState
      <4>2. act' = [act EXCEPT ![a] = r]  BY <3>2
      <4> HIDE DEF r
      <4>3. known \subseteq known'  BY <2>4 DEF SP!PurgeNext
      <4>4. QED  BY <1>0, <1>1, <4>1, <4>2, <4>3, HeldAfterMove
    <3>3. QED  BY <2>4, <3>1, <3>2 DEF SP!PurgeNext
  <2>5. CASE a = Reaper /\ SP!SweepNext
    <3>1. CASE SP!Move(a, "purge")  BY <1>2, <2>5, <3>1 DEF SP!SweepNext
    <3>2. ASSUME NEW s \in act[a].todo,
                 SP!Become(a, [act[a] EXCEPT !.at = "judge", !.sess = s, !.todo = act[a].todo \ {s}])
          PROVE  HeldOK'
      <4> DEFINE r == [act[a] EXCEPT !.at = "judge", !.sess = s, !.todo = act[a].todo \ {s}]
      <4>1. r.sess = s /\ r.todo = act[a].todo \ {s} /\ r.stale = act[a].stale
        BY <1>1 DEF SP!ActorState
      <4>2. act' = [act EXCEPT ![a] = r]  BY <3>2
      <4> HIDE DEF r
      <4>3. known \subseteq known'  BY <2>5 DEF SP!SweepNext
      <4>4. QED  BY <1>0, <1>1, <4>1, <4>2, <4>3, HeldAfterMove
    <3>3. QED  BY <2>5, <3>1, <3>2 DEF SP!SweepNext
  <2>6. UNCHANGED known
    BY <1>9 DEF SP!Step, SP!Judge, SP!AskBusy, SP!Delete, SP!CloseSession, SP!OnClose,
                SP!PurgeNext, SP!Renew, SP!SweepNext
  <2>7. QED  BY <1>9, <2>1, <2>2, <2>3, <2>4, <2>5, <2>6 DEF SP!Step
<1>10. CASE SP!Tick \/ SP!CloseAll
  <2>1. PICK a, r :
          /\ a \in Actor /\ act' = [act EXCEPT ![a] = r] /\ r.sess = NoSession
          /\ r.todo \subseteq sessions /\ r.stale \subseteq sessions
    <3> DEFINE t == [SP!Idling EXCEPT !.at = "sweep", !.clock = now, !.todo = sessions]
               c == [SP!Idling EXCEPT !.at = "purge", !.stale = sessions]
    <3>1. t.sess = NoSession /\ t.todo = sessions /\ t.stale = {}  BY DEF SP!Idling
    <3>2. c.sess = NoSession /\ c.todo = {} /\ c.stale = sessions  BY DEF SP!Idling
    <3>3. act' = [act EXCEPT ![Reaper] = t] \/ act' = [act EXCEPT ![Main] = c]
      BY <1>10 DEF SP!Tick, SP!CloseAll
    <3> HIDE DEF t, c
    <3>4. QED  BY <3>1, <3>2, <3>3 DEF Actor
  <2>2. UNCHANGED known  BY <1>10 DEF SP!Tick, SP!CloseAll
  <2>3. QED  BY <1>0, <2>1, <2>2, HeldAfterMove
<1>11. CASE SP!TimePasses
  BY <1>11 DEF SP!TimePasses, HeldOK
<1>12. QED
  BY <1>0, <1>6, <1>7, <1>8, <1>9, <1>10, <1>11

-----------------------------------------------------------------------------
(* What a step does to the jobs *)

Told(j) == ctx[j] \in {"canceled", "deadline"}

\* A job has a cancel function from the moment it has a context, and a Cancel
\* that read one read it from an armed job.
JobsOK ==
  /\ \A j \in Job : pc[j] \in {"none", "admitted"} => ctx[j] = "none" /\ j \notin armed
  /\ \A j \in armed : ctx[j] # "none"
  /\ \A a \in Actor : call[a].target # NoJob /\ call[a].captured => call[a].target \in armed

\* The CancelSession of actor a has dealt with the job, or will.
Cornered(a, j) == Told(j) \/ j \in call[a].todo \/ call[a].target = j

LEMMA JobsOKStep ==
  ASSUME JP!Inv, JobsOK, [JP!Next]_jobVars
  PROVE  JobsOK'
<1> USE NoValueAssumption
<1>0. JP!TypeOK  BY DEF JP!Inv
<1>1. ASSUME NEW s \in Session, NEW j \in Job, JP!Admit(s, j) PROVE JobsOK'
  BY <1>0, <1>1 DEF JP!Admit, JP!Goto, JobsOK, JP!TypeOK
<1>2. ASSUME NEW j \in Job, JP!Supervise(j) PROVE JobsOK'
  <2> USE <1>0 DEF JP!TypeOK, JobsOK, JP!Goto
  <2>1. CASE JP!NoExecutable(j)   BY <2>1 DEF JP!NoExecutable
  <2>2. CASE JP!Arm(j)            BY <2>2 DEF JP!Arm
  <2>3. CASE JP!LaunchFails(j)    BY <2>3 DEF JP!LaunchFails, JP!CancelCtx
  <2>4. CASE JP!Launch(j)         BY <2>4 DEF JP!Launch
  <2>5. CASE JP!MarkRunning(j)    BY <2>5 DEF JP!MarkRunning
  <2>6. CASE JP!Fail(j)           BY <2>6 DEF JP!Fail
  <2>7. CASE JP!Judge(j)          BY <2>7 DEF JP!Judge, JP!Verdict
  <2>8. CASE JP!Settle(j)         BY <2>8 DEF JP!Settle
  <2>9. CASE JP!Return(j)         BY <2>9 DEF JP!Return, JP!CancelCtx
  <2>10. QED  BY <1>2, <2>1, <2>2, <2>3, <2>4, <2>5, <2>6, <2>7, <2>8, <2>9 DEF JP!Supervise
<1>3. ASSUME NEW j \in Job, JP!Process(j) PROVE JobsOK'
  BY <1>0, <1>3 DEF JP!Process, JP!WorkerExits, JP!WorkerKilled, JP!Deadline, JobsOK, JP!TypeOK
<1>4. ASSUME NEW c \in Actor, JP!CancelStep(c) PROVE JobsOK'
  <2>1. CASE JP!CancelNext(c)
    <3>1. call \in [Actor -> JP!Calls]  BY <1>0 DEF JP!TypeOK
    <3>2. ASSUME NEW b \in Actor, call'[b].target # NoJob, call'[b].captured
          PROVE  call'[b].target \in armed
      <4>1. CASE b # c
        BY <2>1, <3>1, <3>2, <4>1 DEF JP!CancelNext, JobsOK
      <4>2. CASE b = c
        <5>1. PICK j \in call[c].todo :
                call' = IF j \in registry
                          THEN [call EXCEPT ![c] = [todo |-> @.todo \ {j}, target |-> j,
                                                    captured |-> j \in armed]]
                          ELSE [call EXCEPT ![c].todo = @ \ {j}]
          BY <2>1 DEF JP!CancelNext
        <5>2. CASE j \in registry
          BY <3>1, <3>2, <4>2, <5>1, <5>2
        <5>3. CASE j \notin registry
          BY <2>1, <3>1, <3>2, <4>2, <5>1, <5>3 DEF JP!CancelNext, JP!Calls
        <5>4. QED  BY <5>2, <5>3
      <4>3. QED  BY <4>1, <4>2
    <3>3. QED  BY <2>1, <3>2 DEF JP!CancelNext, JobsOK
  <2>2. CASE JP!CancelAct(c)
    BY <1>0, <2>2 DEF JP!CancelAct, JP!CancelCtx, JobsOK, JP!TypeOK, JP!Calls
  <2>3. QED  BY <1>4, <2>1, <2>2 DEF JP!CancelStep
<1>5. ASSUME NEW c \in Actor, NEW s \in Session,
             JP!CancelSession(c, s) \/ \E j \in Job : JP!CancelJob(c, s, j)
      PROVE  JobsOK'
  <2>1. call \in [Actor -> JP!Calls]  BY <1>0 DEF JP!TypeOK
  <2>2. ASSUME NEW j \in Job, JP!CancelJob(c, s, j) PROVE JobsOK'
    BY <2>1, <2>2 DEF JP!CancelJob, JobsOK
  <2>3. ASSUME JP!CancelSession(c, s) PROVE JobsOK'
    <3>1. call' = [call EXCEPT ![c] = [call[c] EXCEPT !.todo = JP!ActiveOf(s)]]
      BY <2>3 DEF JP!CancelSession
    <3>2. \A b \in Actor : call'[b].target = call[b].target /\ call'[b].captured = call[b].captured
      BY <2>1, <3>1 DEF JP!Calls
    <3>3. QED  BY <2>3, <3>2 DEF JP!CancelSession, JobsOK
  <2>4. QED  BY <1>5, <2>2, <2>3
<1>6. CASE JP!Reap \/ JP!Shutdown
  BY <1>0, <1>6 DEF JP!Reap, JP!Shutdown, JobsOK, JP!TypeOK
<1>7. CASE UNCHANGED jobVars  BY <1>7 DEF jobVars, JobsOK
<1>8. QED  BY <1>1, <1>2, <1>3, <1>4, <1>5, <1>6, <1>7 DEF JP!Next

\* No step loses a job that the loop of CancelSession has still to deal with.
LEMMA CorneredKept ==
  ASSUME JP!Inv, JobsOK, [JP!Next]_jobVars, NEW a \in Actor, NEW j \in Job, Cornered(a, j)
  PROVE  Cornered(a, j)' \/ j \notin Jb!Active'
<1> USE NoValueAssumption DEF Cornered, Told
<1>0. JP!TypeOK  BY DEF JP!Inv
<1>1. ASSUME NEW s \in Session, NEW k \in Job, JP!Admit(s, k) PROVE Cornered(a, j)'
  BY <1>1 DEF JP!Admit
<1>2. ASSUME NEW k \in Job, JP!Supervise(k) PROVE Cornered(a, j)'
  <2> USE <1>0 DEF JP!TypeOK, JobsOK, JP!Goto
  <2>1. CASE JP!NoExecutable(k)   BY <2>1 DEF JP!NoExecutable
  <2>2. CASE JP!Arm(k)            BY <2>2 DEF JP!Arm
  <2>3. CASE JP!LaunchFails(k)    BY <2>3 DEF JP!LaunchFails, JP!CancelCtx
  <2>4. CASE JP!Launch(k)         BY <2>4 DEF JP!Launch
  <2>5. CASE JP!MarkRunning(k)    BY <2>5 DEF JP!MarkRunning
  <2>6. CASE JP!Fail(k)           BY <2>6 DEF JP!Fail
  <2>7. CASE JP!Judge(k)          BY <2>7 DEF JP!Judge, JP!Verdict
  <2>8. CASE JP!Settle(k)         BY <2>8 DEF JP!Settle
  <2>9. CASE JP!Return(k)         BY <2>9 DEF JP!Return, JP!CancelCtx
  <2>10. QED  BY <1>2, <2>1, <2>2, <2>3, <2>4, <2>5, <2>6, <2>7, <2>8, <2>9 DEF JP!Supervise
<1>3. ASSUME NEW k \in Job, JP!Process(k) PROVE Cornered(a, j)'
  BY <1>0, <1>3 DEF JP!Process, JP!WorkerExits, JP!WorkerKilled, JP!Deadline, JP!TypeOK
<1>4. ASSUME NEW c \in Actor, JP!CancelStep(c) PROVE Cornered(a, j)' \/ j \notin Jb!Active'
  <2>1. CASE JP!CancelNext(c)
    BY <1>0, <2>1 DEF JP!CancelNext, JP!TypeOK, JP!Calls, Jb!Active
  <2>2. CASE JP!CancelAct(c)
    <3>1. CASE call[c].target = j /\ call[c].captured
      BY <1>0, <2>2, <3>1 DEF JP!CancelAct, JP!CancelCtx, JobsOK, JP!TypeOK, JP!CtxStates
    <3>2. CASE call[c].target = j /\ ~call[c].captured
      BY <1>0, <2>2, <3>2 DEF JP!CancelAct, JP!SetState, JP!TypeOK, JP!Terminal,
           JP!TerminalStates, Jb!Active, Jb!Terminal, Jb!TerminalStates
    <3>3. CASE call[c].target # j
      BY <1>0, <2>2, <3>3 DEF JP!CancelAct, JP!CancelCtx, JP!TypeOK, JP!Calls
    <3>4. QED  BY <3>1, <3>2, <3>3
  <2>3. QED  BY <1>4, <2>1, <2>2 DEF JP!CancelStep
<1>5. ASSUME NEW c \in Actor, NEW s \in Session,
             JP!CancelSession(c, s) \/ \E k \in Job : JP!CancelJob(c, s, k)
      PROVE  Cornered(a, j)'
  BY <1>0, <1>5 DEF JP!CancelSession, JP!CancelJob, JP!Idle, JP!NoCall, JP!TypeOK, JP!Calls
<1>6. CASE JP!Reap \/ JP!Shutdown
  BY <1>0, <1>6 DEF JP!Reap, JP!Shutdown, JP!TypeOK
<1>7. CASE UNCHANGED jobVars  BY <1>7 DEF jobVars
<1>8. QED  BY <1>1, <1>2, <1>3, <1>4, <1>5, <1>6, <1>7 DEF JP!Next

\* A context that is done stays done.
LEMMA ToldStays ==
  ASSUME JP!Inv, JobsOK, [JP!Next]_jobVars, NEW j \in Job, Told(j)
  PROVE  Told(j)'
<1> USE DEF Told
<1>0. JP!TypeOK  BY DEF JP!Inv
<1>1. ASSUME NEW k \in Job, JP!Supervise(k) PROVE Told(j)'
  <2> USE <1>0 DEF JP!TypeOK, JobsOK, JP!Goto
  <2>1. CASE JP!Arm(k)  BY <2>1 DEF JP!Arm
  <2>2. CASE JP!LaunchFails(k) \/ JP!Return(k)
    BY <2>2 DEF JP!LaunchFails, JP!Return, JP!CancelCtx
  <2>3. CASE ctx' = ctx  BY <2>3
  <2>4. QED  BY <1>1, <2>1, <2>2, <2>3 DEF JP!Supervise, JP!NoExecutable, JP!Launch, JP!MarkRunning, JP!Fail,
           JP!Judge, JP!Settle
<1>2. ASSUME NEW k \in Job, JP!Process(k) PROVE Told(j)'
  BY <1>0, <1>2 DEF JP!Process, JP!WorkerExits, JP!WorkerKilled, JP!Deadline, JP!TypeOK
<1>3. ASSUME NEW c \in Actor, JP!CancelStep(c) PROVE Told(j)'
  BY <1>0, <1>3 DEF JP!CancelStep, JP!CancelNext, JP!CancelAct, JP!CancelCtx, JP!TypeOK
<1>4. CASE JP!Shutdown
  BY <1>0, <1>4 DEF JP!Shutdown, JP!TypeOK
<1>5. CASE ctx' = ctx  BY <1>5
<1>6. QED
  BY <1>1, <1>2, <1>3, <1>4, <1>5 DEF JP!Next, jobVars, JP!Admit, JP!CancelJob, JP!CancelSession, JP!Reap

LEMMA JobsInductive ==
  /\ JP!Init => JP!Inv
  /\ JP!Inv /\ [JP!Next]_jobVars => JP!Inv'
BY CapsAssumption, TimedAssumption, NoValueAssumption, JP!InitInv, JP!NextInv DEF jobVars, JP!vars

LEMMA SessionsInductive ==
  /\ SP!Init => SP!Inv
  /\ SP!Inv /\ [SP!Next]_SP!vars => SP!Inv'
BY ActorAssumption, NoValueAssumption, TimeAssumption, SP!InitInv, SP!NextInv

\* Only AdmitJob adds a job, or gives one an owner.
LEMMA NoOtherJobs ==
  ASSUME JP!TypeOK, JobStep \/ (\E c \in Actor : \E s, j : Jb!CancelJob(c, s, j))
                    \/ (\E c \in Actor : \E s : Jb!CancelSession(c, s)) \/ UNCHANGED jobVars
  PROVE  registry' \subseteq registry /\ owner' = owner /\ Jb!Active' \subseteq Jb!Active
<1> USE DEF Jb!Active, Jb!Terminal, Jb!TerminalStates
<1>1. ASSUME NEW j \in Job, JP!Supervise(j)
      PROVE  registry' = registry /\ owner' = owner /\ Jb!Active' \subseteq Jb!Active
  <2> USE DEF JP!TypeOK, JP!Goto, JP!SetState, JP!Terminal, JP!TerminalStates
  <2>1. CASE JP!NoExecutable(j)   BY <2>1 DEF JP!NoExecutable
  <2>2. CASE JP!Arm(j)            BY <2>2 DEF JP!Arm
  <2>3. CASE JP!LaunchFails(j)    BY <2>3 DEF JP!LaunchFails
  <2>4. CASE JP!Launch(j)         BY <2>4 DEF JP!Launch
  <2>5. CASE JP!MarkRunning(j)    BY <2>5 DEF JP!MarkRunning
  <2>6. CASE JP!Fail(j)           BY <2>6 DEF JP!Fail
  <2>7. CASE JP!Judge(j)          BY <2>7 DEF JP!Judge, JP!Verdict
  <2>8. CASE JP!Settle(j)         BY <2>8 DEF JP!Settle
  <2>9. CASE JP!Return(j)         BY <2>9 DEF JP!Return
  <2>10. QED  BY <1>1, <2>1, <2>2, <2>3, <2>4, <2>5, <2>6, <2>7, <2>8, <2>9 DEF JP!Supervise
<1>2. ASSUME NEW j \in Job, JP!Process(j)
      PROVE  registry' = registry /\ owner' = owner /\ Jb!Active' \subseteq Jb!Active
  BY <1>2 DEF JP!Process, JP!WorkerExits, JP!WorkerKilled, JP!Deadline
<1>3. ASSUME NEW c \in Actor, JP!CancelStep(c)
      PROVE  registry' = registry /\ owner' = owner /\ Jb!Active' \subseteq Jb!Active
  BY <1>3 DEF JP!CancelStep, JP!CancelNext, JP!CancelAct, JP!SetState, JP!TypeOK,
     JP!Terminal, JP!TerminalStates
<1>4. CASE Jb!Reap \/ Jb!Shutdown
  BY <1>4 DEF Jb!Reap, Jb!Shutdown
<1>5. CASE (\E c \in Actor : \E s, j : Jb!CancelJob(c, s, j)) \/ (\E c \in Actor : \E s : Jb!CancelSession(c, s))
  BY <1>5 DEF Jb!CancelJob, Jb!CancelSession
<1>6. CASE UNCHANGED jobVars  BY <1>6 DEF jobVars
<1>7. CASE JobStep
  BY <1>1, <1>2, <1>3, <1>4, <1>7, SameSupervise, SameProcess, SameCancel DEF JobStep
<1>8. QED  BY <1>5, <1>6, <1>7

-----------------------------------------------------------------------------
(* What a step does to the sessions *)

WorkOK == work \in [Actor -> Works] /\ late \in SUBSET Job

\* What onClose is to know: it is under way, the session's credentials are
\* zeroed, and every job that is not late has been told to stop or is on the list.
CollectOK ==
  \A a \in Actor : work[a] = "collected" =>
    /\ act[a].at = "notify"
    /\ \A j \in Jb!ActiveOf(Sess(a)) \ late : Cornered(a, j)

Inv ==
  /\ JP!Inv /\ SP!Inv
  /\ HeldOK /\ JobsKnown /\ JobsOK /\ WorkOK
  /\ CollectOK /\ OnlyLateJobsSurvive

LEMMA WorkStep ==
  ASSUME WorkOK, [Next]_vars
  PROVE  WorkOK'
<1> USE DEF WorkOK, Works, Actor
<1>1. CASE SessionStep \/ JobStep  BY <1>1 DEF SessionStep, JobStep
<1>2. ASSUME NEW r \in Request, HandlerStep(r) PROVE WorkOK'
  BY <1>2 DEF HandlerStep, ReadCredentials, AdmitRefused, Respond, SignOut, AdmitJob, CancelRequest
<1>3. ASSUME NEW a \in Actor, Collect(a) \/ OnClose(a) PROVE WorkOK'
  BY <1>3 DEF Collect, OnClose
<1>4. CASE UNCHANGED vars  BY <1>4 DEF vars
<1>5. QED  BY <1>1, <1>2, <1>3, <1>4 DEF Next

\* Which jobs a step adds, and for which session.
LEMMA AdmitEffect ==
  ASSUME JP!TypeOK, NEW r \in Request, NEW j \in Job, AdmitJob(r, j)
  PROVE  /\ registry' = registry \cup {j} /\ Jb!Active' \subseteq Jb!Active \cup {j}
         /\ owner'[j] = Sess(r) /\ \A k \in Job \ {j} : owner'[k] = owner[k]
         /\ UNCHANGED sessVars
<1>1. Jb!Admit(Sess(r), j) /\ UNCHANGED sessVars  BY DEF AdmitJob
<1>2. QED
  BY <1>1 DEF Jb!Admit, JP!TypeOK, Jb!Active, Jb!Terminal, Jb!TerminalStates

LEMMA KnownStep ==
  ASSUME Inv, [Next]_vars
  PROVE  HeldOK' /\ JobsKnown'
<1> USE DEF Inv
<1>0. JP!TypeOK  BY DEF JP!Inv
<1>1. CASE SessionStep \/ (\E r \in Request : Respond(r) \/ SignOut(r)) \/ (\E a \in Actor : OnClose(a))
  <2>1. UNCHANGED jobVars  BY <1>1, StepOfStore
  <2>2. HeldOK' /\ known \subseteq known'  BY <1>1, StepOfStore, StepHeld
  <2>3. QED  BY <2>1, <2>2 DEF JobsKnown, jobVars
<1>2. ASSUME NEW r \in Request, NEW j \in Job, AdmitJob(r, j) PROVE HeldOK' /\ JobsKnown'
  <2>1. Sess(r) \in Session  BY <1>2, InHand DEF AdmitJob, Serving, Actor
  <2>2. Sess(r) \in known  BY <2>1, NoValueAssumption DEF HeldOK, Sess, Actor
  <2>3. UNCHANGED sessVars /\ registry' = registry \cup {j}
        /\ owner'[j] = Sess(r) /\ \A k \in Job \ {j} : owner'[k] = owner[k]
    BY <1>0, <1>2, AdmitEffect
  <2>4. QED  BY <1>0, <2>2, <2>3 DEF HeldOK, JobsKnown, sessVars, JP!TypeOK
<1>3. ASSUME UNCHANGED sessVars, registry' \subseteq registry, owner' = owner
      PROVE  HeldOK' /\ JobsKnown'
  BY <1>3 DEF HeldOK, JobsKnown, sessVars
<1>4. CASE JobStep
  BY <1>0, <1>3, <1>4, NoOtherJobs DEF JobStep
<1>5. ASSUME NEW r \in Request, NEW j \in Job, CancelRequest(r, j) PROVE HeldOK' /\ JobsKnown'
  BY <1>0, <1>3, <1>5, NoOtherJobs DEF CancelRequest, Actor
<1>6. ASSUME NEW a \in Actor, Collect(a) PROVE HeldOK' /\ JobsKnown'
  BY <1>0, <1>3, <1>6, NoOtherJobs DEF Collect
<1>7. CASE UNCHANGED vars \/ \E r \in Request : ReadCredentials(r) \/ AdmitRefused(r)
  BY <1>3, <1>7 DEF vars, jobVars, ReadCredentials, AdmitRefused
<1>8. QED  BY <1>1, <1>2, <1>4, <1>5, <1>6, <1>7 DEF Next, HandlerStep

\* Once the credentials are zeroed, only late jobs are added for a session.
LEMMA LateOnly ==
  ASSUME Inv, [Next]_vars, NEW s \in Session, s \in closed,
         NEW j \in Job, j \in Jb!ActiveOf(s)', j \notin late'
  PROVE  j \in Jb!ActiveOf(s) \ late
<1> USE DEF Jb!ActiveOf
<1>0. JP!TypeOK  BY DEF Inv, JP!Inv
<1>1. ASSUME NEW r \in Request, NEW k \in Job, AdmitJob(r, k) PROVE j \in Jb!ActiveOf(s) \ late
  <2>1. late \subseteq late' /\ (Sess(r) \in closed => k \in late')  BY <1>1 DEF AdmitJob
  <2>2. QED  BY <1>0, <1>1, <2>1, AdmitEffect
<1>2. ASSUME Jb!Active' \subseteq Jb!Active, owner' = owner, late' = late PROVE j \in Jb!ActiveOf(s) \ late
  BY <1>2
<1>3. CASE JobStep
  BY <1>0, <1>2, <1>3, NoOtherJobs DEF JobStep
<1>4. ASSUME NEW r \in Request, NEW k \in Job, CancelRequest(r, k) PROVE j \in Jb!ActiveOf(s) \ late
  BY <1>0, <1>2, <1>4, NoOtherJobs DEF CancelRequest, Actor
<1>5. ASSUME NEW a \in Actor, Collect(a) PROVE j \in Jb!ActiveOf(s) \ late
  BY <1>0, <1>2, <1>5, NoOtherJobs DEF Collect
<1>6. ASSUME UNCHANGED <<jobVars, late>> PROVE j \in Jb!ActiveOf(s) \ late
  BY <1>6 DEF jobVars, Jb!Active
<1>7. CASE SessionStep \/ UNCHANGED vars
           \/ (\E r \in Request : ReadCredentials(r) \/ AdmitRefused(r) \/ Respond(r) \/ SignOut(r))
           \/ (\E a \in Actor : OnClose(a))
  BY <1>6, <1>7 DEF SessionStep, ReadCredentials, AdmitRefused, Respond, SignOut, OnClose, vars
<1>8. QED  BY <1>1, <1>3, <1>4, <1>5, <1>7 DEF Next, HandlerStep

\* Only OnClose moves an actor that is to call it, and only OnClose notifies.
LEMMA NotifyStays ==
  ASSUME Inv, [Next]_vars
  PROVE  \/ \E a \in Actor : OnClose(a)
         \/ /\ UNCHANGED notified
            /\ \A a \in Actor : act[a].at = "notify" => act'[a] = act[a]
<1> USE DEF Ss!Move, Ss!Become, Ss!At
<1>0. \A a \in Actor : act[a] \in SP!ActorState /\ act \in [Actor -> SP!ActorState]
  BY DEF Inv, SP!Inv, SP!ActorsOK, SP!Actor, Actor
<1>1. ASSUME NEW b \in Actor, act[b].at # "notify", NEW r, act' = [act EXCEPT ![b] = r]
      PROVE  \A a \in Actor : act[a].at = "notify" => act'[a] = act[a]
  BY <1>0, <1>1
<1>2. CASE UNCHANGED sessVars  BY <1>2 DEF sessVars
<1>3. ASSUME NEW r \in Request, Respond(r) \/ SignOut(r)
      PROVE  /\ UNCHANGED notified
             /\ \A a \in Actor : act[a].at = "notify" => act'[a] = act[a]
  BY <1>1, <1>3 DEF Respond, SignOut, Ss!Respond, Ss!SignOut, Actor
<1>4. ASSUME NEW s \in Session, Ss!Create(s) \/ Ss!StreamTouch(s)
      PROVE  UNCHANGED notified /\ UNCHANGED act
  BY <1>4 DEF Ss!Create, Ss!StreamTouch
<1>5. ASSUME NEW r \in Request, Ss!Renew(r) \/ \E s \in Session : Ss!Lookup(r, s)
      PROVE  UNCHANGED notified /\ act[r].at # "notify" /\ \E q : act' = [act EXCEPT ![r] = q]
  BY <1>5 DEF Ss!Renew, Ss!Lookup
<1>6. ASSUME NEW b \in Actor, Ss!Judge(b) \/ Ss!AskBusy(b)
      PROVE  UNCHANGED notified /\ act[b].at # "notify" /\ \E q : act' = [act EXCEPT ![b] = q]
  BY <1>6 DEF Ss!Judge, Ss!AskBusy, Ss!IfExpired, Ss!IfLive
<1>7. ASSUME NEW b \in Actor, Ss!Delete(b) \/ Ss!CloseSession(b) \/ Ss!PurgeNext(b)
      PROVE  UNCHANGED notified /\ act[b].at # "notify" /\ \E q : act' = [act EXCEPT ![b] = q]
  BY <1>7 DEF Ss!Delete, Ss!CloseSession, Ss!PurgeNext, Ss!Return
<1>8. ASSUME Ss!SweepNext \/ Ss!Tick
      PROVE  UNCHANGED notified /\ act[Reaper].at # "notify" /\ \E q : act' = [act EXCEPT ![Reaper] = q]
  BY <1>8 DEF Ss!SweepNext, Ss!Tick
<1>9. ASSUME Ss!CloseAll
      PROVE  UNCHANGED notified /\ act[Main].at # "notify" /\ \E q : act' = [act EXCEPT ![Main] = q]
  BY <1>9 DEF Ss!CloseAll
<1>10. ASSUME Ss!TimePasses PROVE UNCHANGED notified /\ UNCHANGED act
  BY <1>10 DEF Ss!TimePasses
<1>11. CASE SessionStep
  BY <1>1, <1>4, <1>5, <1>6, <1>7, <1>8, <1>9, <1>10, <1>11 DEF SessionStep, Actor
<1>12. QED  BY <1>2, <1>3, <1>11, StoreAlone DEF Next, HandlerStep

-----------------------------------------------------------------------------
(* A session takes its jobs with it *)

LEMMA CollectStep ==
  ASSUME Inv, [Next]_vars
  PROVE  CollectOK'
<1> SUFFICES ASSUME NEW a \in Actor, work'[a] = "collected"
             PROVE  /\ act'[a].at = "notify"
                    /\ \A j \in Jb!ActiveOf(Sess(a))' : j \notin late' => Cornered(a, j)'
  BY DEF CollectOK
<1>0. JP!Inv /\ SP!Inv /\ JP!TypeOK /\ WorkOK /\ JobsOK  BY DEF Inv, JP!Inv
<1>1. CASE Collect(a)
  <2>1. act[a].at = "notify" /\ UNCHANGED sessVars /\ UNCHANGED <<registry, owner, state, late>>
    BY <1>1 DEF Collect, Jb!CancelSession, jobVars
  <2>2. act' = act  BY <2>1 DEF sessVars
  <2>3. Jb!ActiveOf(Sess(a))' = Jb!ActiveOf(Sess(a))
    BY <2>1, <2>2 DEF Jb!ActiveOf, Jb!Active, Jb!Terminal, Jb!TerminalStates, Sess
  <2>4. ASSUME NEW j \in Jb!ActiveOf(Sess(a)) PROVE Cornered(a, j)'
    <3>1. call' = [call EXCEPT ![a].todo = Jb!ActiveOf(Sess(a))]
      BY <1>1, <2>4 DEF Collect, Jb!CancelSession
    <3> DEFINE L == Jb!ActiveOf(Sess(a))
    <3>2. call'[a].todo = L
      <4> HIDE DEF L
      <4>1. call' = [call EXCEPT ![a].todo = L]  BY <3>1 DEF L
      <4>2. call[a] \in JP!Calls /\ call \in [Actor -> JP!Calls]  BY <1>0 DEF JP!TypeOK
      <4>3. QED  BY <4>1, <4>2 DEF JP!Calls
    <3>3. QED  BY <3>2 DEF Cornered
  <2>5. QED  BY <2>1, <2>2, <2>3, <2>4
<1>2. CASE work[a] = "collected" /\ ~Collect(a)
  <2>1. ~OnClose(a)  BY <1>0, <1>2 DEF OnClose, WorkOK
  <2>2. act[a].at = "notify"  BY <1>2 DEF Inv, CollectOK
  <2>3. ASSUME NEW b \in Actor, OnClose(b) PROVE act'[a] = act[a]
    <3>1. b # a  BY <2>1, <2>3
    <3>2. act \in [Actor -> SP!ActorState]  BY <1>0 DEF SP!Inv, SP!ActorsOK, SP!Actor, Actor
    <3>3. QED  BY <2>3, <3>1, <3>2 DEF OnClose, Ss!OnClose, Ss!Return, Ss!Become, Ss!Move
  <2>4. act'[a] = act[a]  BY <2>2, <2>3, NotifyStays
  <2>5. Sess(a) \in closed /\ Sess(a) \in Session
    BY <1>0, <2>2, InHand DEF SP!Inv, SP!OneDeleter, SP!Deleting, SP!Actor, Actor, Sess
  <2>6. [JP!Next]_jobVars  BY <1>0, StepOfJobs
  <2>7. ASSUME NEW j \in Jb!ActiveOf(Sess(a))', j \notin late' PROVE Cornered(a, j)'
    <3>1. PICK s \in Session : s = Sess(a)  BY <2>5
    <3>2. s = Sess(a)'  BY <2>4, <3>1 DEF Sess
    <3>3. j \in Jb!ActiveOf(s)' /\ j \in Jb!Active'
      BY <2>7, <3>2 DEF Jb!ActiveOf
    <3>4. j \in Job
      <4>1. JP!Inv'  BY <1>0, <2>6, JobsInductive
      <4>2. QED  BY <3>3, <4>1 DEF Jb!Active, JP!Inv, JP!TypeOK
    <3>5. j \in Jb!ActiveOf(s) \ late  BY <2>5, <2>7, <3>1, <3>3, <3>4, LateOnly
    <3>6. Cornered(a, j)  BY <1>2, <3>1, <3>5 DEF Inv, CollectOK
    <3>7. QED  BY <1>0, <2>6, <3>3, <3>4, <3>6, CorneredKept
  <2>8. QED  BY <2>2, <2>4, <2>7
<1>3. CASE work[a] # "collected" /\ ~Collect(a)
  <2>1. work'[a] # "collected"
    BY <1>0, <1>3, WorkAssumption DEF Next, vars, SessionStep, JobStep, HandlerStep,
       ReadCredentials, AdmitRefused, Respond, SignOut, AdmitJob, CancelRequest, Collect,
       OnClose, WorkOK, Actor
  <2>2. QED  BY <2>1
<1>4. QED  BY <1>1, <1>2, <1>3

LEMMA SurviveStep ==
  ASSUME Inv, [Next]_vars
  PROVE  OnlyLateJobsSurvive'
<1> SUFFICES ASSUME NEW s \in Session, notified'[s] > 0,
                    NEW j \in Jb!ActiveOf(s)', j \notin late'
             PROVE  Told(j)'
  BY DEF OnlyLateJobsSurvive, Told
<1>0. JP!Inv /\ SP!Inv /\ JobsOK /\ JP!TypeOK  BY DEF Inv, JP!Inv
<1>1. [JP!Next]_jobVars  BY <1>0, StepOfJobs
<1>2. j \in Job
  <2>1. JP!Inv'  BY <1>0, <1>1, JobsInductive
  <2>2. QED  BY <2>1 DEF Jb!ActiveOf, Jb!Active, JP!Inv, JP!TypeOK
<1>3. ASSUME NEW a \in Actor, OnClose(a), Sess(a) = s PROVE Told(j)'
  <2>1. UNCHANGED <<jobVars, late>> /\ call[a] = Jb!NoCall /\ work[a] = "collected"
    BY <1>3 DEF OnClose, Jb!Idle
  <2>2. j \in Jb!ActiveOf(s) \ late
    BY <2>1 DEF jobVars, Jb!ActiveOf, Jb!Active, Jb!Terminal, Jb!TerminalStates
  <2>3. Cornered(a, j)  BY <1>3, <2>1, <2>2 DEF Inv, CollectOK
  <2>4. Told(j)  BY <1>2, <2>1, <2>3, NoValueAssumption DEF Cornered, Jb!NoCall
  <2>5. QED  BY <2>1, <2>4 DEF jobVars, Told
<1>4. CASE notified[s] > 0
  <2>1. s \in closed  BY <1>0, <1>4 DEF SP!Inv, SP!NotifiedOK
  <2>2. j \in Jb!ActiveOf(s) \ late  BY <1>2, <2>1, LateOnly
  <2>3. Told(j)  BY <1>4, <2>2 DEF Inv, OnlyLateJobsSurvive, Told
  <2>4. QED  BY <1>0, <1>1, <1>2, <2>3, ToldStays
<1>5. CASE ~(notified[s] > 0) /\ ~\E a \in Actor : OnClose(a) /\ Sess(a) = s
  <2>1. notified'[s] = notified[s]
    <3>1. CASE UNCHANGED notified  BY <3>1
    <3>2. ASSUME NEW a \in Actor, OnClose(a) PROVE notified'[s] = notified[s]
      BY <1>0, <1>5, <3>2 DEF OnClose, Ss!OnClose, Sess, SP!Inv, SP!SetsOK
    <3>3. QED  BY <3>1, <3>2, NotifyStays
  <2>2. QED  BY <1>5, <2>1
<1>6. QED  BY <1>3, <1>4, <1>5

LEMMA InitInv == Init => Inv
<1> SUFFICES ASSUME Init PROVE Inv  OBVIOUS
<1>1. JP!Inv  BY SameJobs, JobsInductive DEF Init
<1>2. SP!Inv
  <2>1. Busy = {}  BY DEF Init, Jb!Init, Busy, Jb!ActiveOf, Jb!Active
  <2>2. SP!Init  BY <2>1, SameRest DEF Init, Ss!Init, SP!Init
  <2>3. QED  BY <2>2, SessionsInductive
<1>3. HeldOK
  BY DEF Init, Ss!Init, Ss!Actor, Actor, Ss!Idling, HeldOK
<1>4. JobsKnown /\ JobsOK
  BY NoValueAssumption DEF Init, Jb!Init, Jb!NoCall, JobsKnown, JobsOK
<1>5. WorkOK /\ CollectOK
  BY DEF Init, WorkOK, Works, CollectOK
<1>6. OnlyLateJobsSurvive
  BY DEF Init, Ss!Init, OnlyLateJobsSurvive
<1>7. QED  BY <1>1, <1>2, <1>3, <1>4, <1>5, <1>6 DEF Inv

LEMMA NextInv == Inv /\ [Next]_vars => Inv'
<1> SUFFICES ASSUME Inv, [Next]_vars PROVE Inv'  OBVIOUS
<1>1. JP!Inv /\ SP!Inv /\ JobsOK  BY DEF Inv
<1>2. [JP!Next]_jobVars  BY <1>1, StepOfJobs
<1>3. JP!Inv'  BY <1>1, <1>2, JobsInductive
<1>4. JobsOK'  BY <1>1, <1>2, JobsOKStep
<1>5. HeldOK' /\ JobsKnown'  BY KnownStep
<1>6. [SP!Next]_SP!vars  BY <1>5, StepOfSessions
<1>7. SP!Inv'  BY <1>1, <1>6, SessionsInductive
<1>8. WorkOK'  BY WorkStep DEF Inv
<1>9. QED  BY <1>3, <1>4, <1>5, <1>7, <1>8, CollectStep, SurviveStep DEF Inv

-----------------------------------------------------------------------------
\* Both components keep their own invariants in the server, their calls agree, and
\* a session that has ended has told its jobs to stop, all but the late ones.
THEOREM Invariance == Spec => []Inv
<1>1. QED  BY InitInv, NextInv, PTL DEF Spec

\* A session that ends takes its work with it, whoever ended it and at whatever
\* point of startJob each of its jobs was: CancelSession has told all of them to
\* stop but those a request admitted with credentials it had read before.
THEOREM OnlyLateSurvive == Spec => []OnlyLateJobsSurvive
<1>1. Inv => OnlyLateJobsSurvive  BY DEF Inv
<1>2. QED  BY <1>1, Invariance, PTL

\* The wiring drives the job registry only as Jobs allows: the server is a
\* behaviour of Jobs, with its requests, its reaper and its shutdown as callers.
THEOREM JobsImplemented == Spec => JP!Spec
<1>1. Init => JP!Init  BY SameJobs DEF Init
<1>2. Inv /\ [Next]_vars => [JP!Next]_JP!vars
  BY StepOfJobs DEF Inv, jobVars, JP!vars
<1>3. QED  BY <1>1, <1>2, Invariance, PTL DEF Spec, JP!Spec

\* And the session store only as Sessions allows: what the busy hook counts
\* changes only for sessions that were handed out.
THEOREM SessionsImplemented == Spec => SP!Spec
<1>1. Init => SP!Init
  <2>1. Init => Busy = {}  BY DEF Init, Jb!Init, Busy, Jb!ActiveOf, Jb!Active
  <2>2. QED  BY <2>1, SameRest DEF Init, Ss!Init, SP!Init
<1>2. Inv /\ Inv' /\ [Next]_vars => [SP!Next]_SP!vars
  BY StepOfSessions DEF Inv
<1>3. QED  BY <1>1, <1>2, Invariance, PTL DEF Spec, SP!Spec

\* So the caps and the finality of a job's state hold in the server, in which
\* requests, logouts, the reaper and the shutdown all cancel jobs.
THEOREM JobsSafeInServer ==
  Spec => [](JP!GlobalCap /\ JP!SessionCap) /\ []JP!RunningIsCounted /\ JP!TerminalIsFinal
<1> USE CapsAssumption, TimedAssumption, NoValueAssumption
<1>1. JP!Spec => [](JP!GlobalCap /\ JP!SessionCap)  BY JP!CapsHold
<1>2. JP!Spec => []JP!RunningIsCounted  BY JP!RunningCounted
<1>3. JP!Spec => JP!TerminalIsFinal  BY JP!TerminalFinal
<1>4. QED  BY <1>1, <1>2, <1>3, JobsImplemented

\* And every session that was ended was ended once, after its credentials were
\* zeroed, and none is served past its hard limit.
THEOREM SessionsSafeInServer ==
  Spec => []SP!OnCloseOnce /\ []SP!ClosedBeforeNotified /\ []SP!HardLimitHolds
<1> USE ActorAssumption, NoValueAssumption, TimeAssumption
<1>1. SP!Spec => []SP!OnCloseOnce  BY SP!ClosedOnce
<1>2. SP!Spec => []SP!ClosedBeforeNotified  BY SP!ClosedFirst
<1>3. SP!Spec => []SP!HardLimitHolds  BY SP!LimitHolds
<1>4. QED  BY <1>1, <1>2, <1>3, SessionsImplemented

-----------------------------------------------------------------------------
(***************************************************************************)
(* The second part: the browser's side of the sessions. Theorems about      *)
(* WebSession, for any number of sign-ins, faults and reloads: the tab never *)
(* offers the regions, and unless the user is hasty never shows the         *)
(* account, of another session than the one its requests act for.           *)
(* WebSession has its own, simpler server and shares no state with Server.  *)
(***************************************************************************)

CONSTANTS MaxLogins, MaxFaults

S == INSTANCE WebSession

Rq == [at : {"none", "sent", "answered"}, sess : Nat,
       reply : {"none", "ok", "gone", "refused", "lost"},
       live : BOOLEAN, set : {"keep", "clear", "new"}, again : BOOLEAN]

\* Only the answer to a successful login brings a new cookie.
Cookies(k, r) ==
  IF k = "login" THEN r.set = "new" <=> r.at = "answered" /\ r.reply = "ok"
  ELSE r.set # "new"

NetOK == net \in [S!Kind -> Rq] /\ \A k \in S!Kind : Cookies(k, net[k])

\* The region query under way, and the cached answer, are the cookie's.
RegionsOK ==
  /\ regions # 0 /\ cookie # 0 => regions = cookie
  /\ ~S!Idle("regions") => cookie \in {0, net["regions"].sess}

\* While the page load's own request is under way nothing else is, unless the
\* user did not wait for it.
AccountOK ==
  /\ ~S!Idle("mount") /\ ~hasty =>
       /\ status = "loading" /\ cookie \in {0, net["mount"].sess}
       /\ \A k \in S!Kind \ {"mount"} : S!Idle(k)
  /\ AccountShown

TabInv == /\ cookie \in Nat /\ made \in Nat
       /\ NetOK /\ RegionsOK /\ AccountOK

-----------------------------------------------------------------------------
(* Requests *)

LEMMA NoRequestOK ==
  /\ S!NoRequest \in Rq /\ S!NoRequest.at = "none" /\ \A k \in S!Kind : Cookies(k, S!NoRequest)
BY DEF S!NoRequest, Rq, Cookies

LEMMA SentOK ==
  ASSUME NEW c \in Nat
  PROVE  /\ S!Sent(c) \in Rq /\ S!Sent(c).at = "sent" /\ S!Sent(c).sess = c
         /\ \A k \in S!Kind : Cookies(k, S!Sent(c))
BY DEF S!Sent, S!NoRequest, Rq, Cookies

\* A request is replaced by another one.
LEMMA Replace ==
  ASSUME NEW n \in [S!Kind -> Rq], \A i \in S!Kind : Cookies(i, n[i]),
         NEW k \in S!Kind, NEW r \in Rq, Cookies(k, r)
  PROVE  /\ [n EXCEPT ![k] = r] \in [S!Kind -> Rq]
         /\ \A i \in S!Kind : Cookies(i, [n EXCEPT ![k] = r][i])
         /\ [n EXCEPT ![k] = r][k] = r
         /\ \A i \in S!Kind \ {k} : [n EXCEPT ![k] = r][i] = n[i]
OBVIOUS

LEMMA DoneOK ==
  ASSUME NetOK, NEW k \in S!Kind
  PROVE  /\ S!Done(k) \in [S!Kind -> Rq] /\ \A i \in S!Kind : Cookies(i, S!Done(k)[i])
         /\ S!Done(k)[k].at = "none" /\ \A i \in S!Kind \ {k} : S!Done(k)[i] = net[i]
BY NoRequestOK, Replace DEF S!Done, NetOK

LEMMA DroppedOK ==
  ASSUME NEW n \in [S!Kind -> Rq], \A i \in S!Kind : Cookies(i, n[i])
  PROVE  /\ S!Dropped(n) \in [S!Kind -> Rq] /\ \A i \in S!Kind : Cookies(i, S!Dropped(n)[i])
         /\ S!Dropped(n)["regions"].at = "none"
         /\ \A i \in S!Kind \ {"regions", "stray"} : S!Dropped(n)[i] = n[i]
<1>1. CASE n["regions"].at = "none"  BY <1>1 DEF S!Dropped
<1>2. CASE n["regions"].at # "none"
  <2> DEFINE s == IF n["regions"].at = "answered" /\ n["regions"].set = "keep"
                    THEN S!NoRequest ELSE [n["regions"] EXCEPT !.again = FALSE]
             m == [n EXCEPT !["regions"] = S!NoRequest]
  <2>1. "regions" \in S!Kind /\ "stray" \in S!Kind  BY DEF S!Kind
  <2>2. m \in [S!Kind -> Rq] /\ (\A i \in S!Kind : Cookies(i, m[i]))
        /\ m["regions"] = S!NoRequest /\ \A i \in S!Kind \ {"regions"} : m[i] = n[i]
    BY <2>1, NoRequestOK, Replace
  <2>3. n["regions"] \in Rq /\ n["regions"].set # "new"  BY <2>1 DEF Cookies
  <2>4. s \in Rq /\ Cookies("stray", s)
    BY <2>1, <2>3, NoRequestOK DEF Rq, Cookies
  <2>5. S!Dropped(n) = [m EXCEPT !["stray"] = s]  BY <1>2 DEF S!Dropped
  <2> HIDE DEF s, m
  <2>6. /\ S!Dropped(n) \in [S!Kind -> Rq] /\ \A i \in S!Kind : Cookies(i, S!Dropped(n)[i])
        /\ \A i \in S!Kind \ {"stray"} : S!Dropped(n)[i] = m[i]
    BY <2>1, <2>2, <2>4, <2>5, Replace
  <2>7. QED  BY <2>1, <2>2, <2>6, NoRequestOK
<1>3. QED  BY <1>1, <1>2

LEMMA TabInit == S!Init => TabInv
<1> SUFFICES ASSUME S!Init PROVE TabInv  OBVIOUS
<1>1. cookie \in Nat /\ made \in Nat  BY DEF S!Init
<1>2. NetOK  BY <1>1, NoRequestOK, SentOK DEF S!Init, NetOK
<1>3. "mount" \in S!Kind /\ "regions" \in S!Kind  BY DEF S!Kind
<1>4. net["mount"].sess = cookie /\ \A k \in S!Kind \ {"mount"} : S!Idle(k)
  BY <1>1, <1>3, SentOK, NoRequestOK DEF S!Init, S!Idle
<1>5. RegionsOK  BY <1>3, <1>4 DEF S!Init, RegionsOK
<1>6. AccountOK  BY <1>4 DEF S!Init, AccountOK, AccountShown
<1>7. QED  BY <1>1, <1>2, <1>5, <1>6 DEF TabInv

-----------------------------------------------------------------------------
(* The server *)

\* A request moves on: the tab does not see it yet.
LEMMA Moves ==
  ASSUME TabInv, NEW k \in S!Kind, ~S!Idle(k), NEW r \in Rq, Cookies(k, r),
         r.sess = net[k].sess \/ k = "login",
         net' = [net EXCEPT ![k] = r], UNCHANGED <<cookie, status, info, regions, hasty>>,
         made' \in Nat
  PROVE  TabInv'
<1>1. net' \in [S!Kind -> Rq] /\ (\A i \in S!Kind : Cookies(i, net'[i]))
      /\ net'[k] = r /\ \A i \in S!Kind \ {k} : net'[i] = net[i]
  BY Replace DEF TabInv, NetOK
<1>2. "mount" \in S!Kind /\ "regions" \in S!Kind  BY DEF S!Kind
<1>3. NetOK'  BY <1>1 DEF NetOK
<1>4. RegionsOK'  BY <1>1, <1>2 DEF TabInv, RegionsOK, S!Idle
<1>5. AccountOK'  BY <1>1, <1>2 DEF TabInv, AccountOK, AccountShown, S!Idle
<1>6. QED  BY <1>3, <1>4, <1>5 DEF TabInv

\* The server's answers, and answers lost.
ServerSteps ==
  \/ \E k \in S!Kind : S!ServeSession(k) \/ S!ServeGone(k) \/ S!Lose(k)
  \/ S!ServeLogin \/ S!SessionEnds

LEMMA ServedStep ==
  ASSUME TabInv, NEW k \in S!Kind, ~S!Idle(k),
         NEW reply \in {"ok", "gone", "refused", "lost"}, NEW set \in {"keep", "clear"},
         S!Served(k, reply, set), k = "login" => reply # "ok",
         UNCHANGED <<made, cookie, S!tab, hasty>>
  PROVE  TabInv'
<1> DEFINE r == [net[k] EXCEPT !.at = "answered", !.reply = reply, !.set = set]
<1>1. net[k] \in Rq  BY DEF TabInv, NetOK
<1>2. r \in Rq /\ Cookies(k, r) /\ r.sess = net[k].sess  BY <1>1 DEF Rq, Cookies
<1>3. net' = [net EXCEPT ![k] = r]  BY DEF S!Served, TabInv, NetOK
<1>4. QED  BY <1>2, <1>3, Moves DEF S!tab, TabInv

LEMMA ServeSessionStep ==
  ASSUME TabInv, NEW k \in S!Kind, S!ServeSession(k) PROVE TabInv'
<1>1. k # "login" /\ ~S!Idle(k) /\ UNCHANGED <<made, cookie, S!tab, hasty>>
  BY DEF S!ServeSession, S!Idle, S!ghost
<1>2. CASE k \in {"logout", "mount", "regions"}
  <2>1. \E reply \in {"ok", "gone", "refused", "lost"}, set \in {"keep", "clear"} : S!Served(k, reply, set)
    BY <1>2 DEF S!ServeSession
  <2>2. QED  BY <1>1, <2>1, ServedStep
<1>3. CASE k = "stray"
  <2>1. net' = [net EXCEPT ![k] = S!NoRequest]  BY <1>3 DEF S!ServeSession, S!Done
  <2>2. TabInv' <=> NetOK' /\ RegionsOK' /\ AccountOK'  BY <1>1 DEF TabInv
  <2>3. net' \in [S!Kind -> Rq] /\ (\A i \in S!Kind : Cookies(i, net'[i]))
        /\ net'[k] = S!NoRequest /\ \A i \in S!Kind \ {k} : net'[i] = net[i]
    BY <2>1, Replace, NoRequestOK DEF TabInv, NetOK
  <2>4. "mount" \in S!Kind /\ "regions" \in S!Kind  BY DEF S!Kind
  <2>5. RegionsOK'  BY <1>1, <1>3, <2>3, <2>4 DEF TabInv, RegionsOK, S!Idle, S!tab
  <2>6. AccountOK'
    BY <1>1, <1>3, <2>3, <2>4, NoRequestOK DEF TabInv, AccountOK, AccountShown, S!Idle, S!tab
  <2>7. QED  BY <2>2, <2>3, <2>5, <2>6 DEF NetOK
<1>4. CASE k = "jobs"
  <2>1. PICK b \in BOOLEAN :
          net' = [net EXCEPT ![k].at = "answered", ![k].reply = "ok", ![k].live = b]
    BY <1>4 DEF S!ServeSession
  <2> DEFINE r == [net[k] EXCEPT !.at = "answered", !.reply = "ok", !.live = b]
  <2>2. net[k] \in Rq /\ net[k].set # "new"  BY <1>4 DEF TabInv, NetOK, Cookies
  <2>3. r \in Rq /\ Cookies(k, r) /\ r.sess = net[k].sess  BY <1>4, <2>2 DEF Rq, Cookies
  <2>4. net' = [net EXCEPT ![k] = r]  BY <2>1 DEF TabInv, NetOK
  <2>5. QED  BY <1>1, <2>3, <2>4, Moves DEF S!tab, TabInv
<1>5. QED  BY <1>1, <1>2, <1>3, <1>4 DEF S!Kind

LEMMA ServeLoginStep == ASSUME TabInv, S!ServeLogin PROVE TabInv'
<1> DEFINE k == "login"
<1>1. k \in S!Kind /\ ~S!Idle(k) /\ UNCHANGED <<cookie, S!tab, hasty>>
  BY DEF S!Kind, S!ServeLogin, S!Idle, S!ghost
<1>2. CASE S!Served(k, "refused", "keep") /\ UNCHANGED S!server
  BY <1>1, <1>2, ServedStep DEF S!server
<1>3. CASE /\ made' = made + 1
           /\ net' = [net EXCEPT !["login"] = [@ EXCEPT !.at = "answered", !.reply = "ok",
                                                !.sess = made + 1, !.set = "new"]]
  <2> DEFINE r == [net[k] EXCEPT !.at = "answered", !.reply = "ok", !.sess = made + 1, !.set = "new"]
  <2>1. net[k] \in Rq /\ made \in Nat  BY <1>1 DEF TabInv, NetOK
  <2>2. r \in Rq
    <3>1. made + 1 \in Nat  BY <2>1
    <3>2. ASSUME NEW c \in Nat
          PROVE  [net[k] EXCEPT !.at = "answered", !.reply = "ok", !.sess = c, !.set = "new"] \in Rq
      BY <2>1 DEF Rq
    <3>3. QED  BY <3>1, <3>2
  <2>3. r.at = "answered" /\ r.reply = "ok" /\ r.set = "new"  BY <2>1 DEF Rq
  <2>4. Cookies(k, r)  BY <2>3 DEF Cookies
  <2>5. net' = [net EXCEPT ![k] = r] /\ made' \in Nat  BY <1>3, <2>1
  <2>6. QED  BY <1>1, <2>2, <2>4, <2>5, Moves DEF S!tab
<1>4. QED  BY <1>2, <1>3 DEF S!ServeLogin

LEMMA ServerStep == ASSUME TabInv, ServerSteps PROVE TabInv'
<1>1. ASSUME NEW k \in S!Kind, S!ServeSession(k) PROVE TabInv'  BY <1>1, ServeSessionStep
<1>2. ASSUME NEW k \in S!Kind, S!ServeGone(k) PROVE TabInv'
  <2>1. k # "login" /\ ~S!Idle(k) /\ UNCHANGED <<made, cookie, S!tab, hasty>>
    BY <1>2 DEF S!ServeGone, S!Idle, S!server, S!ghost
  <2>2. S!Served(k, "gone", "keep") \/ S!Served(k, "gone", "clear")  BY <1>2 DEF S!ServeGone
  <2>3. QED  BY <2>1, <2>2, ServedStep
<1>3. ASSUME NEW k \in S!Kind, S!Lose(k) PROVE TabInv'
  BY <1>3, ServedStep DEF S!Lose, S!server
<1>4. CASE S!ServeLogin  BY <1>4, ServeLoginStep
<1>5. CASE S!SessionEnds
  BY <1>5 DEF S!SessionEnds, S!tab, S!ghost, TabInv, NetOK, RegionsOK, AccountOK, AccountShown, S!Idle
<1>6. QED  BY <1>1, <1>2, <1>3, <1>4, <1>5 DEF ServerSteps

-----------------------------------------------------------------------------
(* The tab *)

\* The cookie after an answer: only a login's success can bring another one.
LEMMA CookieAfter ==
  ASSUME TabInv, NEW k \in S!Kind, S!Arrives(k)
  PROVE  /\ cookie' \in Nat /\ made' = made /\ ~S!Idle(k)
         /\ k = "login" /\ S!Ok(k) => cookie' = net[k].sess
         /\ ~(k = "login" /\ S!Ok(k)) => cookie' \in {0, cookie}
<1>1. net[k] \in Rq /\ Cookies(k, net[k])  BY DEF TabInv, NetOK
<1>2. QED  BY <1>1 DEF S!Arrives, S!server, Rq, Cookies, S!Ok, TabInv, S!Idle

\* With an answer under way, the page load's request is its own or hasty.
LEMMA Exclusive ==
  ASSUME TabInv, NEW k \in S!Kind, ~S!Idle(k), k # "mount" PROVE S!Idle("mount") \/ hasty
BY DEF TabInv, AccountOK

\* Answers after which the tab is signed out, or as it was.
LEMMA MountStep == ASSUME TabInv, S!MountArrives PROVE TabInv'
<1> DEFINE k == "mount"
<1>0. k \in S!Kind /\ "regions" \in S!Kind /\ "jobs" \in S!Kind  BY DEF S!Kind
<1>1. cookie' \in Nat /\ made' = made /\ cookie' \in {0, cookie} /\ ~S!Idle(k)
  BY <1>0, CookieAfter DEF S!MountArrives
<1>2. /\ S!Done(k) \in [S!Kind -> Rq] /\ (\A i \in S!Kind : Cookies(i, S!Done(k)[i]))
      /\ S!Done(k)[k].at = "none" /\ \A i \in S!Kind \ {k} : S!Done(k)[i] = net[i]
  BY <1>0, DoneOK DEF TabInv
<1>3. /\ net' \in [S!Kind -> Rq] /\ \A i \in S!Kind : Cookies(i, net'[i])
      /\ net'[k].at = "none" /\ net'["regions"] = net["regions"]
  <2>1. CASE net' = S!Done(k)  BY <1>0, <1>2, <2>1
  <2>2. CASE net' = [S!Done(k) EXCEPT !["jobs"] = S!Sent(cookie')]
    <3>1. S!Sent(cookie') \in Rq /\ Cookies("jobs", S!Sent(cookie'))  BY <1>0, <1>1, SentOK
    <3>2. QED  BY <1>0, <1>2, <2>2, <3>1
  <2>3. QED  BY <2>1, <2>2 DEF S!MountArrives, S!SignedIn, S!SignedOut
<1>4. regions' = regions /\ hasty' = hasty  BY DEF S!MountArrives
<1>5. NetOK' /\ RegionsOK'
  BY <1>1, <1>3, <1>4 DEF TabInv, NetOK, RegionsOK, S!Idle
<1>6. ~hasty => status = "loading" /\ cookie \in {0, net[k].sess}
  BY <1>1 DEF TabInv, AccountOK
<1>7. (status' = "authed" /\ info' = net[k].sess) \/ status' = "anonymous"
  BY DEF S!MountArrives, S!SignedIn, S!SignedOut
<1>8. AccountOK'
  BY <1>1, <1>3, <1>4, <1>6, <1>7 DEF AccountOK, AccountShown, S!Idle
<1>9. QED  BY <1>1, <1>5, <1>8 DEF TabInv

\* Signed out, with nothing of the region query left.
LEMMA OutStep ==
  ASSUME TabInv, NEW n \in [S!Kind -> Rq], \A i \in S!Kind : Cookies(i, n[i]),
         n["mount"].at = "none" \/ hasty, net' = n, n["regions"].at = "none", regions' = 0,
         status' = "anonymous", hasty' = hasty, cookie' \in Nat, made' \in Nat
  PROVE  TabInv'
BY DEF TabInv, NetOK, RegionsOK, AccountOK, AccountShown, S!Idle

\* expire, and logout's end.
LEMMA OutAfter ==
  ASSUME TabInv, NEW k \in S!Kind \ {"mount"}, ~S!Idle(k), S!SignedOut(S!Dropped(S!Done(k))),
         regions' = 0,
         hasty' = hasty, cookie' \in Nat, made' \in Nat
  PROVE  TabInv'
<1>1. /\ S!Done(k) \in [S!Kind -> Rq] /\ (\A i \in S!Kind : Cookies(i, S!Done(k)[i]))
      /\ \A i \in S!Kind \ {k} : S!Done(k)[i] = net[i]
  BY DoneOK DEF TabInv
<1> DEFINE n == S!Dropped(S!Done(k))
<1>2. /\ n \in [S!Kind -> Rq] /\ (\A i \in S!Kind : Cookies(i, n[i])) /\ n["regions"].at = "none"
      /\ \A i \in S!Kind \ {"regions", "stray"} : n[i] = S!Done(k)[i]
  BY <1>1, DroppedOK
<1>3. n["mount"] = net["mount"]  BY <1>1, <1>2 DEF S!Kind
<1>4. n["mount"].at = "none" \/ hasty  BY <1>3, Exclusive DEF S!Idle
<1>5. net' = n /\ status' = "anonymous"  BY DEF S!SignedOut
<1> HIDE DEF n
<1>6. QED  BY <1>2, <1>4, <1>5, OutStep

\* An answer that changes nothing but its request.
LEMMA IgnoredStep ==
  ASSUME TabInv, NEW k \in S!Kind \ {"mount"}, S!Arrives(k), ~(k = "login" /\ S!Ok(k)),
         net' = S!Done(k), UNCHANGED <<status, info, regions, hasty>>
  PROVE  TabInv'
<1>1. cookie' \in Nat /\ made' = made /\ cookie' \in {0, cookie} /\ ~S!Idle(k)
  BY CookieAfter
<1>2. net' \in [S!Kind -> Rq] /\ (\A i \in S!Kind : Cookies(i, net'[i]))
      /\ net'[k].at = "none" /\ \A i \in S!Kind \ {k} : net'[i] = net[i]
  BY DoneOK DEF TabInv
<1>3. "mount" \in S!Kind /\ "regions" \in S!Kind  BY DEF S!Kind
<1>4. RegionsOK'  BY <1>1, <1>2, <1>3 DEF TabInv, RegionsOK, S!Idle
<1>5. S!Idle("mount") \/ hasty  BY <1>1, Exclusive
<1>6. AccountOK'  BY <1>1, <1>2, <1>3, <1>5 DEF TabInv, AccountOK, AccountShown, S!Idle
<1>7. QED  BY <1>1, <1>2, <1>4, <1>6 DEF TabInv, NetOK

\* Signed in by a login: the cookie and the account are the new session's.
LEMMA LoginStep == ASSUME TabInv, S!LoginArrives PROVE TabInv'
<1> DEFINE k == "login"
<1>0. k \in S!Kind \ {"mount"} /\ "mount" \in S!Kind /\ "jobs" \in S!Kind /\ "regions" \in S!Kind
  BY DEF S!Kind
<1>1. CASE ~S!Ok(k)
  BY <1>0, <1>1, IgnoredStep DEF S!LoginArrives, S!tab
<1>2. CASE S!Ok(k)
  <2>1. cookie' \in Nat /\ made' = made /\ cookie' = net[k].sess /\ ~S!Idle(k)
    BY <1>0, <1>2, CookieAfter DEF S!LoginArrives
  <2>2. /\ S!Done(k) \in [S!Kind -> Rq] /\ (\A i \in S!Kind : Cookies(i, S!Done(k)[i]))
        /\ \A i \in S!Kind \ {k} : S!Done(k)[i] = net[i]
    BY <1>0, DoneOK DEF TabInv
  <2> DEFINE n == S!Dropped(S!Done(k))
  <2>3. /\ n \in [S!Kind -> Rq] /\ (\A i \in S!Kind : Cookies(i, n[i])) /\ n["regions"].at = "none"
        /\ \A i \in S!Kind \ {"regions", "stray"} : n[i] = S!Done(k)[i]
    BY <2>2, DroppedOK
  <2>4. n["mount"] = net["mount"]  BY <1>0, <2>2, <2>3
  <2>5. n["mount"].at = "none" \/ hasty  BY <1>0, <2>1, <2>4, Exclusive DEF S!Idle
  <2>6. /\ status' = "authed" /\ info' = net[k].sess /\ regions' = 0 /\ hasty' = hasty
        /\ net' = n \/ net' = [n EXCEPT !["jobs"] = S!Sent(cookie')]
    BY <1>2 DEF S!LoginArrives, S!SignedIn
  <2> HIDE DEF n
  <2>7. /\ net' \in [S!Kind -> Rq] /\ (\A i \in S!Kind : Cookies(i, net'[i]))
        /\ net'["mount"] = n["mount"] /\ net'["regions"] = n["regions"]
    <3>1. S!Sent(cookie') \in Rq /\ Cookies("jobs", S!Sent(cookie'))  BY <1>0, <2>1, SentOK
    <3>2. QED  BY <1>0, <2>3, <2>6, <3>1
  <2>8. QED
    BY <2>1, <2>3, <2>5, <2>6, <2>7 DEF TabInv, NetOK, RegionsOK, AccountOK, AccountShown, S!Idle
<1>3. QED  BY <1>1, <1>2

LEMMA RegionsStep == ASSUME TabInv, S!RegionsArrive PROVE TabInv'
<1> DEFINE k == "regions"
<1>0. k \in S!Kind \ {"mount"} /\ "mount" \in S!Kind  BY DEF S!Kind
<1>1. cookie' \in Nat /\ made' = made /\ cookie' \in {0, cookie} /\ ~S!Idle(k)
  BY <1>0, CookieAfter DEF S!RegionsArrive
<1>2. CASE net' = S!Done(k) /\ regions' = net[k].sess /\ UNCHANGED <<status, info, hasty>>
  <2>1. net' \in [S!Kind -> Rq] /\ (\A i \in S!Kind : Cookies(i, net'[i]))
        /\ net'[k].at = "none" /\ \A i \in S!Kind \ {k} : net'[i] = net[i]
    BY <1>0, <1>2, DoneOK DEF TabInv
  <2>2. RegionsOK'  BY <1>1, <1>2, <2>1 DEF TabInv, RegionsOK, S!Idle
  <2>3. S!Idle("mount") \/ hasty  BY <1>0, <1>1, Exclusive
  <2>4. AccountOK'  BY <1>0, <1>1, <1>2, <2>1, <2>3 DEF TabInv, AccountOK, AccountShown, S!Idle
  <2>5. QED  BY <1>1, <2>1, <2>2, <2>4 DEF TabInv, NetOK
<1>3. CASE net' = [net EXCEPT ![k] = [S!Sent(cookie') EXCEPT !.again = TRUE]] /\ UNCHANGED <<S!tab, hasty>>
  <2> DEFINE r == [S!Sent(cookie') EXCEPT !.again = TRUE]
  <2>1. r \in Rq /\ Cookies(k, r) /\ r.sess = cookie' /\ r.at = "sent"
    BY <1>1 DEF S!Sent, S!NoRequest, Rq, Cookies
  <2>2. net' \in [S!Kind -> Rq] /\ (\A i \in S!Kind : Cookies(i, net'[i]))
        /\ net'[k] = r /\ \A i \in S!Kind \ {k} : net'[i] = net[i]
    <3>1. net \in [S!Kind -> Rq] /\ (\A i \in S!Kind : Cookies(i, net[i])) /\ k \in S!Kind
      BY <1>0 DEF TabInv, NetOK
    <3>2. net' = [net EXCEPT ![k] = r]  BY <1>3
    <3> HIDE DEF r
    <3>3. QED  BY <2>1, <3>1, <3>2, Replace
  <2>3. RegionsOK'  BY <1>1, <1>3, <2>1, <2>2 DEF TabInv, RegionsOK, S!Idle, S!tab
  <2>4. S!Idle("mount") \/ hasty  BY <1>0, <1>1, Exclusive
  <2>5. AccountOK'  BY <1>0, <1>1, <1>3, <2>2, <2>4 DEF TabInv, AccountOK, AccountShown, S!Idle, S!tab
  <2>6. QED  BY <1>1, <2>2, <2>3, <2>5 DEF TabInv, NetOK
<1>4. CASE S!Expire(S!Done(k))
  BY <1>0, <1>1, <1>4, OutAfter DEF S!Expire, TabInv
<1>5. CASE net' = S!Done(k) /\ UNCHANGED <<S!tab, hasty>>
  BY <1>0, <1>5, IgnoredStep DEF S!RegionsArrive, S!tab
<1>6. QED  BY <1>2, <1>3, <1>4, <1>5 DEF S!RegionsArrive

LEMMA JobsStep == ASSUME TabInv, S!JobsArrive PROVE TabInv'
<1> DEFINE k == "jobs"
<1>0. k \in S!Kind \ {"mount"}  BY DEF S!Kind
<1>1. cookie' \in Nat /\ made' = made /\ ~S!Idle(k)  BY <1>0, CookieAfter DEF S!JobsArrive
<1>2. CASE net' = S!Done(k) /\ UNCHANGED <<status, info, regions, hasty>>
  BY <1>0, <1>2, IgnoredStep DEF S!JobsArrive
<1>3. CASE S!Expire(S!Done(k))  BY <1>0, <1>1, <1>3, OutAfter DEF S!Expire, TabInv
<1>4. QED  BY <1>2, <1>3 DEF S!JobsArrive, S!tab

LEMMA LogoutStep == ASSUME TabInv, S!LogoutArrives PROVE TabInv'
<1>1. "logout" \in S!Kind \ {"mount"}  BY DEF S!Kind
<1>2. cookie' \in Nat /\ made' = made /\ ~S!Idle("logout")  BY <1>1, CookieAfter DEF S!LogoutArrives
<1>3. QED  BY <1>1, <1>2, OutAfter DEF S!LogoutArrives, TabInv

LEMMA StrayStep == ASSUME TabInv, S!StrayArrives PROVE TabInv'
<1>1. "stray" \in S!Kind \ {"mount"}  BY DEF S!Kind
<1>2. QED  BY <1>1, IgnoredStep DEF S!StrayArrives, S!tab

\* The user's requests carry the cookie of the moment.
LEMMA AsksStep ==
  ASSUME TabInv, NEW k \in S!Kind \ {"mount"}, S!Asks(k, S!Sent(cookie)),
         UNCHANGED <<made, cookie, status, info, regions>>,
         hasty => hasty', S!Idle("mount") \/ hasty'
  PROVE  TabInv'
<1>1. S!Sent(cookie) \in Rq /\ Cookies(k, S!Sent(cookie)) /\ S!Sent(cookie).sess = cookie
  BY SentOK DEF TabInv
<1>2. net' \in [S!Kind -> Rq] /\ (\A i \in S!Kind : Cookies(i, net'[i]))
      /\ net'[k] = S!Sent(cookie) /\ \A i \in S!Kind \ {k} : net'[i] = net[i]
  BY <1>1, Replace DEF S!Asks, TabInv, NetOK
<1>3. "mount" \in S!Kind /\ "regions" \in S!Kind  BY DEF S!Kind
<1>4. RegionsOK'  BY <1>1, <1>2, <1>3 DEF TabInv, RegionsOK, S!Idle
<1>5. AccountOK'  BY <1>2, <1>3 DEF TabInv, AccountOK, AccountShown, S!Idle
<1>6. QED  BY <1>2, <1>4, <1>5 DEF TabInv, NetOK

\* What the user does in a tab that is signed in.
LEMMA SignedInStep ==
  ASSUME TabInv, NEW k \in S!Kind \ {"mount"}, status = "authed", S!Asks(k, S!Sent(cookie)),
         UNCHANGED <<S!server, cookie, S!tab, S!ghost>>
  PROVE  TabInv'
<1>1. S!Idle("mount") \/ hasty  BY DEF TabInv, AccountOK
<1>2. QED  BY <1>1, AsksStep DEF S!server, S!tab, S!ghost

LEMMA SubmitStep == ASSUME TabInv, S!Submit PROVE TabInv'
<1>1. S!Idle("mount") \/ hasty'  BY DEF S!Submit, TabInv, AccountOK
<1>2. "login" \in S!Kind \ {"mount"}  BY DEF S!Kind
<1>3. QED  BY <1>1, <1>2, AsksStep DEF S!Submit, S!server, S!tab

LEMMA ReloadStep == ASSUME TabInv, S!Reload PROVE TabInv'
<1>1. cookie' = cookie /\ made' = made /\ regions' = 0 /\ status' = "loading"
  BY DEF S!Reload, S!server
<1>2. "mount" \in S!Kind /\ "regions" \in S!Kind  BY DEF S!Kind
<1>3. net'["mount"] = S!Sent(cookie) /\ \A k \in S!Kind \ {"mount"} : net'[k] = S!NoRequest
  BY <1>2 DEF S!Reload
<1>4. S!Sent(cookie) \in Rq /\ S!Sent(cookie).sess = cookie /\ \A k \in S!Kind : Cookies(k, S!Sent(cookie))
  BY SentOK DEF TabInv
<1>5. net' \in [S!Kind -> Rq] /\ \A k \in S!Kind : Cookies(k, net'[k])
  BY <1>3, <1>4, NoRequestOK DEF S!Reload
<1>6. RegionsOK'  BY <1>1, <1>2, <1>3, NoRequestOK DEF RegionsOK, S!Idle
<1>7. AccountOK'  BY <1>1, <1>3, <1>4, NoRequestOK DEF AccountOK, AccountShown, S!Idle
<1>8. QED  BY <1>1, <1>5, <1>6, <1>7 DEF TabInv, NetOK

LEMMA TabStep == TabInv /\ [S!Next]_S!vars => TabInv'
<1> SUFFICES ASSUME TabInv, [S!Next]_S!vars PROVE TabInv'  OBVIOUS
<1> "logout" \in S!Kind /\ "regions" \in S!Kind /\ "jobs" \in S!Kind  BY DEF S!Kind
<1>1. CASE ServerSteps  BY <1>1, ServerStep
<1>2. CASE S!MountArrives  BY <1>2, MountStep
<1>3. CASE S!LoginArrives  BY <1>3, LoginStep
<1>4. CASE S!LogoutArrives  BY <1>4, LogoutStep
<1>5. CASE S!RegionsArrive  BY <1>5, RegionsStep
<1>6. CASE S!StrayArrives  BY <1>6, StrayStep
<1>7. CASE S!JobsArrive  BY <1>7, JobsStep
<1>8. CASE S!Submit  BY <1>8, SubmitStep
<1>9. CASE S!SignOut  BY <1>9, SignedInStep DEF S!SignOut
<1>10. CASE S!FetchRegions  BY <1>10, SignedInStep DEF S!FetchRegions
<1>11. CASE S!Poll \/ S!ShowTab  BY <1>11, SignedInStep DEF S!Poll, S!ShowTab, S!Refresh
<1>12. CASE S!Reload  BY <1>12, ReloadStep
<1>13. ASSUME UNCHANGED <<S!server, cookie, status, info, regions, net, S!ghost>> PROVE TabInv'
  BY <1>13 DEF TabInv, NetOK, RegionsOK, AccountOK, AccountShown, S!Idle, S!server, S!ghost
<1>14. ASSUME NEW p \in {"outside", "wizard"}, S!Visit(p) PROVE TabInv'
  BY <1>13, <1>14 DEF S!Visit
<1>15. CASE UNCHANGED S!vars  BY <1>13, <1>15 DEF S!vars, S!tab
<1>16. QED
  BY <1>1, <1>2, <1>3, <1>4, <1>5, <1>6, <1>7, <1>8, <1>9, <1>10, <1>11, <1>12, <1>14, <1>15
  DEF S!Next, ServerSteps

\* The cached region list is never that of another session than the one the
\* tab's requests act for (RegionsOfSession, session.tsx:23-25).
THEOREM RegionsAreOwn == S!Spec => []RegionsOfSession
<1>1. TabInv => RegionsOfSession  BY DEF TabInv, RegionsOK, RegionsOfSession
<1>2. QED  BY <1>1, TabInit, TabStep, PTL DEF S!Spec

\* The account shown is the account acted on, unless the form was submitted
\* before the page load's answer arrived (AccountShown, session.tsx:27-52).
THEOREM AccountIsOwn == S!Spec => []AccountShown
<1>1. TabInv => AccountShown  BY DEF TabInv, AccountOK
<1>2. QED  BY <1>1, TabInit, TabStep, PTL DEF S!Spec
=============================================================================
