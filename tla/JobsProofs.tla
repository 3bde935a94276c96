---------------------------- MODULE JobsProofs ----------------------------
(***************************************************************************)
(* Theorems about Jobs, for every set of jobs, sessions and callers and for *)
(* every value of the caps. `Inv` is the inductive invariant: it says, for  *)
(* each position of a job's goroutine, which states of the job, of its      *)
(* context and of its worker go with it.                                    *)
(***************************************************************************)
EXTENDS Jobs, TLAPS, FiniteSetTheorems

\* What the position of a job's goroutine says about the rest of the job.
Consistent(j) ==
  /\ pc[j] = "none" =>
       state[j] = "none" /\ worker[j] = "none" /\ j \notin registry
  /\ pc[j] \in {"admitted", "armed", "failing"} =>
       state[j] \in {"queued", "cancelled"} /\ worker[j] = "none"
  /\ pc[j] = "launched" => state[j] \in {"queued", "cancelled"}
  /\ pc[j] \in {"waiting"} \cup TerminalStates => state[j] \in {"running", "cancelled"}
  /\ pc[j] \in TerminalStates => worker[j] # "running"
  /\ pc[j] = "succeeded" => worker[j] = "ok"
  /\ pc[j] \in {"returning", "done"} => Terminal(state[j]) /\ worker[j] # "running"
  /\ pc[j] \in {"none", "admitted", "failing", "done"} => ctx[j] # "live"
  /\ state[j] = "succeeded" => worker[j] = "ok" /\ pc[j] \in {"returning", "done"}
  /\ state[j] \in {"queued", "running"} => j \in registry

\* A cancel in progress is about jobs that have been admitted.
CallsAdmitted ==
  \A c \in Caller :
    /\ \A j \in call[c].todo : pc[j] # "none"
    /\ call[c].target # NoJob => pc[call[c].target] # "none"

Inv == TypeOK /\ (\A j \in Job : Consistent(j)) /\ CallsAdmitted

-----------------------------------------------------------------------------
(* Type correctness *)

LEMMA InitTypeOK == Init => TypeOK
<1>1. NoCall \in Calls  BY DEF NoCall, Calls
<1>2. QED
  BY <1>1 DEF Init, TypeOK, States, TerminalStates, CtxStates, Positions, WorkerStates

LEMMA SuperviseTypeOK ==
  ASSUME TypeOK, NEW j \in Job, Supervise(j)
  PROVE  TypeOK'
<1> USE DEF TypeOK, States, TerminalStates, CtxStates, Positions, WorkerStates
<1>1. CASE NoExecutable(j)   BY <1>1 DEF NoExecutable, Goto
<1>2. CASE Arm(j)            BY <1>2 DEF Arm, Goto
<1>3. CASE LaunchFails(j)    BY <1>3 DEF LaunchFails, Goto, CancelCtx
<1>4. CASE Launch(j)         BY <1>4 DEF Launch, Goto
<1>5. CASE MarkRunning(j)    BY <1>5 DEF MarkRunning, Goto, SetState
<1>6. CASE Fail(j)           BY <1>6 DEF Fail, Goto, SetState
<1>7. CASE Judge(j)          BY <1>7 DEF Judge, Goto, Verdict
<1>8. CASE Settle(j)         BY <1>8 DEF Settle, Goto, SetState
<1>9. CASE Return(j)         BY <1>9 DEF Return, Goto, CancelCtx
<1>10. QED
  BY <1>1, <1>2, <1>3, <1>4, <1>5, <1>6, <1>7, <1>8, <1>9 DEF Supervise

LEMMA ProcessTypeOK ==
  ASSUME TypeOK, NEW j \in Job, Process(j)
  PROVE  TypeOK'
BY DEF Process, WorkerExits, WorkerKilled, Deadline, TypeOK, CtxStates, WorkerStates

LEMMA CancelTypeOK ==
  ASSUME TypeOK, NEW c \in Caller,
         \/ \E s \in Session, j \in Job : CancelJob(c, s, j)
         \/ \E s \in Session : CancelSession(c, s)
         \/ CancelStep(c)
  PROVE  TypeOK'
<1>0. call[c] \in Calls  BY DEF TypeOK
<1>1. ASSUME NEW s \in Session, NEW j \in Job, CancelJob(c, s, j)
      PROVE  TypeOK'
  <2>1. [todo |-> {}, target |-> j, captured |-> j \in armed] \in Calls
    BY DEF Calls
  <2>2. QED  BY <1>1, <2>1 DEF CancelJob, TypeOK
<1>2. ASSUME NEW s \in Session, CancelSession(c, s)
      PROVE  TypeOK'
  BY <1>0, <1>2 DEF CancelSession, TypeOK, Calls, ActiveOf, Active
<1>3. CASE CancelNext(c)
  <2>1. PICK j \in call[c].todo :
          call' = IF j \in registry
                    THEN [call EXCEPT ![c] = [todo |-> @.todo \ {j}, target |-> j,
                                              captured |-> j \in armed]]
                    ELSE [call EXCEPT ![c].todo = @ \ {j}]
    BY <1>3 DEF CancelNext
  <2>2. call' \in [Caller -> Calls]
    <3>1. CASE j \in registry
      BY <1>0, <2>1, <3>1 DEF TypeOK, Calls
    <3>2. CASE j \notin registry
      BY <1>0, <2>1, <3>2 DEF TypeOK, Calls
    <3>3. QED  BY <3>1, <3>2
  <2>3. QED  BY <1>3, <2>2 DEF CancelNext, TypeOK
<1>4. CASE CancelAct(c)
  <2>1. call' \in [Caller -> Calls]
    BY <1>0, <1>4 DEF CancelAct, TypeOK, Calls
  <2>2. state' \in [Job -> States] /\ ctx' \in [Job -> CtxStates]
    BY <1>0, <1>4 DEF CancelAct, TypeOK, Calls, SetState, CancelCtx, States, TerminalStates, CtxStates
  <2>3. QED  BY <1>4, <2>1, <2>2 DEF CancelAct, TypeOK
<1>5. QED  BY <1>1, <1>2, <1>3, <1>4 DEF CancelStep

LEMMA NextTypeOK == TypeOK /\ [Next]_vars => TypeOK'
<1> SUFFICES ASSUME TypeOK, [Next]_vars PROVE TypeOK'  OBVIOUS
<1>1. ASSUME NEW s \in Session, NEW j \in Job, Admit(s, j)
      PROVE  TypeOK'
  BY <1>1 DEF Admit, Goto, TypeOK, States, Positions
<1>2. CASE Reap      BY <1>2 DEF Reap, TypeOK
<1>3. CASE Shutdown  BY <1>3 DEF Shutdown, TypeOK, CtxStates
<1>4. CASE UNCHANGED vars  BY <1>4 DEF vars, TypeOK
<1>5. QED
  BY <1>1, <1>2, <1>3, <1>4, SuperviseTypeOK, ProcessTypeOK, CancelTypeOK DEF Next

\* Every variable keeps its type.
THEOREM TypeCorrect == Spec => []TypeOK
BY InitTypeOK, NextTypeOK, PTL DEF Spec

-----------------------------------------------------------------------------
(* The inductive invariant *)

LEMMA InitInv == Init => Inv
<1>1. Init => \A j \in Job : Consistent(j)
  BY DEF Init, Consistent, Terminal, TerminalStates
<1>2. Init => CallsAdmitted
  BY DEF Init, CallsAdmitted, NoCall
<1>3. QED  BY <1>1, <1>2, InitTypeOK DEF Inv

LEMMA AdmitInv ==
  ASSUME Inv, NEW s \in Session, NEW j \in Job, Admit(s, j)
  PROVE  /\ \A k \in Job : Consistent(k)'
         /\ CallsAdmitted'
<1>1. ASSUME NEW k \in Job
      PROVE  Consistent(k)'
  BY DEF Admit, Goto, Inv, TypeOK, Consistent, Terminal, TerminalStates
<1>2. CallsAdmitted'
  <2>1. \A k \in Job : pc[k] # "none" => pc'[k] # "none"
    BY DEF Admit, Goto, Inv, TypeOK
  <2>2. \A c \in Caller : call[c] \in Calls
    BY DEF Inv, TypeOK
  <2>3. call' = call  BY DEF Admit
  <2>4. QED  BY <2>1, <2>2, <2>3 DEF Inv, CallsAdmitted, Calls
<1>3. QED  BY <1>1, <1>2

\* The goroutine that starts a job and waits for it: each of its steps moves
\* the job to a state its new position allows, unless a cancel came first.
LEMMA SuperviseInv ==
  ASSUME Inv, NEW j \in Job, Supervise(j)
  PROVE  /\ \A k \in Job : Consistent(k)'
         /\ CallsAdmitted'
<1>1. ASSUME NEW k \in Job
      PROVE  Consistent(k)'
  <2> USE DEF Inv, TypeOK, Consistent, Goto, Terminal, TerminalStates
  <2>1. CASE NoExecutable(j)   BY <2>1 DEF NoExecutable
  <2>2. CASE Arm(j)            BY <2>2 DEF Arm
  <2>3. CASE LaunchFails(j)    BY <2>3 DEF LaunchFails, CancelCtx
  <2>4. CASE Launch(j)         BY <2>4 DEF Launch
  <2>5. CASE MarkRunning(j)    BY <2>5 DEF MarkRunning, SetState
  <2>6. CASE Fail(j)           BY <2>6 DEF Fail, SetState
  <2>7. CASE Judge(j)          BY <2>7 DEF Judge, Verdict, Exited
  <2>8. CASE Settle(j)         BY <2>8 DEF Settle, SetState
  <2>9. CASE Return(j)         BY <2>9 DEF Return, CancelCtx
  <2>10. QED
    BY <2>1, <2>2, <2>3, <2>4, <2>5, <2>6, <2>7, <2>8, <2>9 DEF Supervise
<1>2. CallsAdmitted'
  <2>1. \A k \in Job : pc[k] # "none" => pc'[k] # "none"
    BY DEF Supervise, NoExecutable, Arm, LaunchFails, Launch, MarkRunning, Fail,
           Judge, Verdict, Settle, Return, Goto, Inv, TypeOK
  <2>2. \A c \in Caller : call[c] \in Calls
    BY DEF Inv, TypeOK
  <2>3. call' = call
    BY DEF Supervise, NoExecutable, Arm, LaunchFails, Launch, MarkRunning, Fail,
           Judge, Settle, Return
  <2>4. QED  BY <2>1, <2>2, <2>3 DEF Inv, CallsAdmitted, Calls
<1>3. QED  BY <1>1, <1>2

LEMMA ProcessInv ==
  ASSUME Inv, NEW j \in Job, Process(j)
  PROVE  /\ \A k \in Job : Consistent(k)'
         /\ CallsAdmitted'
<1>1. ASSUME NEW k \in Job
      PROVE  Consistent(k)'
  BY DEF Process, WorkerExits, WorkerKilled, Deadline, Inv, TypeOK, Consistent,
         Terminal, TerminalStates
<1>2. CallsAdmitted'
  BY DEF Process, WorkerExits, WorkerKilled, Deadline, Inv, CallsAdmitted
<1>3. QED  BY <1>1, <1>2

\* Cancels: the first half only looks up admitted jobs, the second can end a
\* job at any position, which is why every position allows "cancelled".
LEMMA CancelInv ==
  ASSUME Inv, NEW c \in Caller,
         \/ \E s \in Session, j \in Job : CancelJob(c, s, j)
         \/ \E s \in Session : CancelSession(c, s)
         \/ CancelStep(c)
  PROVE  /\ \A k \in Job : Consistent(k)'
         /\ CallsAdmitted'
<1>0. /\ \A d \in Caller : call[d] \in Calls
      /\ \A k \in registry : k \in Job /\ pc[k] # "none"
  BY DEF Inv, TypeOK, Consistent
<1>1. ASSUME NEW s \in Session, NEW j \in Job, CancelJob(c, s, j)
      PROVE  /\ \A k \in Job : Consistent(k)'
             /\ CallsAdmitted'
  BY <1>0, <1>1 DEF CancelJob, Inv, TypeOK, Consistent, CallsAdmitted, Calls
<1>2. ASSUME NEW s \in Session, CancelSession(c, s)
      PROVE  /\ \A k \in Job : Consistent(k)'
             /\ CallsAdmitted'
  <2>1. \A k \in Job : Consistent(k)'
    BY <1>2 DEF CancelSession, Inv, Consistent
  <2>2. CallsAdmitted'
    BY <1>0, <1>2 DEF CancelSession, Inv, TypeOK, CallsAdmitted, Calls, ActiveOf, Active,
                      Idle, NoCall
  <2>3. QED  BY <2>1, <2>2
<1>3. CASE CancelNext(c)
  <2>1. \A k \in Job : Consistent(k)'
    BY <1>3 DEF CancelNext, Inv, Consistent
  <2>2. PICK j \in call[c].todo :
          call' = IF j \in registry
                    THEN [call EXCEPT ![c] = [todo |-> @.todo \ {j}, target |-> j,
                                              captured |-> j \in armed]]
                    ELSE [call EXCEPT ![c].todo = @ \ {j}]
    BY <1>3 DEF CancelNext
  <2>3. /\ call'[c].todo \in SUBSET call[c].todo
        /\ call'[c].target \in {NoJob, j}
        /\ \A d \in Caller : d # c => call'[d] = call[d]
    BY <1>0, <1>3, <2>2 DEF CancelNext, Inv, TypeOK, Calls
  <2>4. j \in Job /\ pc[j] # "none" /\ pc' = pc
    BY <1>0, <1>3, <2>2 DEF CancelNext, Inv, CallsAdmitted, Calls
  <2>5. CallsAdmitted'
    BY <2>3, <2>4 DEF Inv, CallsAdmitted
  <2>6. QED  BY <2>1, <2>5
<1>4. CASE CancelAct(c)
  <2>1. call[c].target \in Job /\ pc[call[c].target] # "none"
    BY <1>0, <1>4 DEF CancelAct, Inv, CallsAdmitted, Calls
  <2>2. ASSUME NEW k \in Job
        PROVE  Consistent(k)'
    BY <1>4, <2>1 DEF CancelAct, SetState, CancelCtx, Inv, TypeOK, Positions, Consistent,
                      Terminal, TerminalStates
  <2>3. CallsAdmitted'
    BY <1>0, <1>4 DEF CancelAct, Inv, TypeOK, CallsAdmitted, Calls
  <2>4. QED  BY <2>2, <2>3
<1>5. QED  BY <1>1, <1>2, <1>3, <1>4 DEF CancelStep

LEMMA NextInv == Inv /\ [Next]_vars => Inv'
<1> SUFFICES ASSUME Inv, [Next]_vars
             PROVE  /\ \A k \in Job : Consistent(k)'
                    /\ CallsAdmitted'
  BY NextTypeOK DEF Inv
<1>1. CASE Reap
  BY <1>1 DEF Reap, Inv, TypeOK, Consistent, CallsAdmitted, Terminal, TerminalStates
<1>2. CASE Shutdown
  BY <1>2 DEF Shutdown, Inv, TypeOK, Consistent, CallsAdmitted, Terminal, TerminalStates
<1>3. CASE UNCHANGED vars
  BY <1>3 DEF vars, Inv, Consistent, CallsAdmitted
<1>4. QED
  BY <1>1, <1>2, <1>3, AdmitInv, SuperviseInv, ProcessInv, CancelInv DEF Next

\* Registry, supervisors and workers agree on where each job stands.
THEOREM Invariance == Spec => []Inv
BY InitInv, NextInv, PTL DEF Spec

-----------------------------------------------------------------------------
(* What follows from the invariant *)

\* A running worker is counted by Admit, or its job was cancelled.
THEOREM RunningCounted == Spec => []RunningIsCounted
<1>1. Inv => RunningIsCounted
  BY DEF Inv, TypeOK, Positions, Consistent, RunningIsCounted, Active, Terminal, TerminalStates
<1>2. QED  BY <1>1, Invariance, PTL

\* A succeeded job ran a worker that exited with status 0, and its goroutine has
\* only its return left to do.
THEOREM SucceededEarned == Spec => []SucceededIsEarned
<1>1. Inv => SucceededIsEarned
  BY DEF Inv, Consistent, SucceededIsEarned
<1>2. QED  BY <1>1, Invariance, PTL

LEMMA TerminalStep ==
  ASSUME Inv, [Next]_vars, NEW j \in Job, Terminal(state[j])
  PROVE  state'[j] = state[j]
<1> USE DEF Inv, TypeOK, Consistent, Terminal, TerminalStates
<1>1. ASSUME NEW s \in Session, NEW k \in Job, Admit(s, k)
      PROVE  state'[j] = state[j]
  BY <1>1 DEF Admit, Goto
<1>2. ASSUME NEW k \in Job, Supervise(k)
      PROVE  state'[j] = state[j]
  BY <1>2 DEF Supervise, NoExecutable, Arm, LaunchFails, Launch, MarkRunning, Fail,
              Judge, Settle, Return, SetState
<1>3. ASSUME NEW k \in Job, Process(k)
      PROVE  state'[j] = state[j]
  BY <1>3 DEF Process, WorkerExits, WorkerKilled, Deadline
<1>4. ASSUME NEW c \in Caller, CancelStep(c)
      PROVE  state'[j] = state[j]
  BY <1>4 DEF CancelStep, CancelNext, CancelAct, SetState
<1>5. ASSUME NEW c \in Caller, NEW s \in Session,
             CancelSession(c, s) \/ \E k \in Job : CancelJob(c, s, k)
      PROVE  state'[j] = state[j]
  BY <1>5 DEF CancelSession, CancelJob
<1>6. CASE Reap \/ Shutdown \/ UNCHANGED vars
  BY <1>6 DEF Reap, Shutdown, vars
<1>7. QED  BY <1>1, <1>2, <1>3, <1>4, <1>5, <1>6 DEF Next

\* A terminal job stays as it is, whoever calls setState afterwards.
THEOREM TerminalFinal == Spec => TerminalIsFinal
<1>1. Inv /\ [Next]_vars =>
        [\A j \in Job : Terminal(state[j]) => state'[j] = state[j]]_vars
  BY TerminalStep
<1>2. QED  BY <1>1, Invariance, PTL DEF Spec, TerminalIsFinal

\* What a cancel or a timeout in time leads to: until the context has been
\* examined it stays done, and then the verdict is not success.
Doomed(j) ==
  /\ pc[j] \notin {"none", "admitted", "succeeded"}
  /\ pc[j] \in {"armed", "launched", "waiting"} => ctx[j] \in {"canceled", "deadline"}
  /\ state[j] # "succeeded"

LEMMA DoomedStep ==
  ASSUME Inv, [Next]_vars, NEW j \in Job, Doomed(j)
  PROVE  Doomed(j)'
<1> USE DEF Doomed, Inv, TypeOK, Goto, Terminal, TerminalStates
<1>1. ASSUME NEW s \in Session, NEW k \in Job, Admit(s, k)
      PROVE  Doomed(j)'
  BY <1>1 DEF Admit
<1>2. ASSUME NEW k \in Job, Supervise(k)
      PROVE  Doomed(j)'
  <2>1. CASE NoExecutable(k) \/ Arm(k) \/ Launch(k)
    BY <2>1 DEF NoExecutable, Arm, Launch
  <2>2. CASE LaunchFails(k) \/ Return(k)
    BY <2>2 DEF LaunchFails, Return, CancelCtx
  <2>3. CASE MarkRunning(k) \/ Fail(k) \/ Settle(k)
    BY <2>3 DEF MarkRunning, Fail, Settle, SetState
  <2>4. CASE Judge(k)
    BY <2>4 DEF Judge, Verdict
  <2>5. QED  BY <1>2, <2>1, <2>2, <2>3, <2>4 DEF Supervise
<1>3. ASSUME NEW k \in Job, Process(k)
      PROVE  Doomed(j)'
  BY <1>3 DEF Process, WorkerExits, WorkerKilled, Deadline
<1>4. ASSUME NEW c \in Caller, CancelStep(c)
      PROVE  Doomed(j)'
  BY <1>4 DEF CancelStep, CancelNext, CancelAct, SetState, CancelCtx
<1>5. ASSUME NEW c \in Caller, NEW s \in Session,
             CancelSession(c, s) \/ \E k \in Job : CancelJob(c, s, k)
      PROVE  Doomed(j)'
  BY <1>5 DEF CancelSession, CancelJob
<1>6. CASE Reap \/ Shutdown \/ UNCHANGED vars
  BY <1>6 DEF Reap, Shutdown, vars
<1>7. QED  BY <1>1, <1>2, <1>3, <1>4, <1>5, <1>6 DEF Next

\* A context that is done before the supervisor's goroutine examines it excludes
\* success for good, even for a worker that exited with status 0.
THEOREM CancelNotSuccess == Spec => CancelIsNotSuccess
<1> SUFFICES ASSUME NEW j \in Job
             PROVE  Spec => [](InTime(j) => [](state[j] # "succeeded"))
  BY DEF CancelIsNotSuccess
<1>1. Inv /\ InTime(j) => Doomed(j)
  BY DEF Inv, Consistent, InTime, Doomed
<1>2. Inv /\ [Next]_vars /\ Doomed(j) => Doomed(j)'
  BY DoomedStep
<1>3. Doomed(j) => state[j] # "succeeded"
  BY DEF Doomed
<1>4. QED  BY <1>1, <1>2, <1>3, Invariance, PTL DEF Spec

-----------------------------------------------------------------------------
(* The caps *)

\* Only Admit adds to what Admit counts, and it adds one job.
LEMMA ActiveStep ==
  ASSUME Inv, [Next]_vars
  PROVE  \/ Active' \subseteq Active /\ owner' = owner
         \/ \E s \in Session, j \in Job :
              Admit(s, j) /\ Active' = Active \cup {j} /\ j \notin Active
<1>1. ASSUME NEW s \in Session, NEW j \in Job, Admit(s, j)
      PROVE  Active' = Active \cup {j} /\ j \notin Active
  BY <1>1 DEF Admit, Goto, Active, Inv, TypeOK, Consistent, Terminal, TerminalStates
<1>2. ASSUME ~ \E s \in Session, j \in Job : Admit(s, j)
      PROVE  Active' \subseteq Active /\ owner' = owner
  <2>1. registry' \subseteq registry /\ owner' = owner
    BY <1>2 DEF Next, vars, Supervise, NoExecutable, Arm, LaunchFails, Launch, MarkRunning,
                Fail, Judge, Settle, Return, Process, WorkerExits, WorkerKilled, Deadline, CancelStep,
                CancelNext, CancelAct, CancelSession, CancelJob, Reap, Shutdown
  <2>2. \A j \in registry : Terminal(state[j]) => state'[j] = state[j]
    BY TerminalStep DEF Inv, TypeOK
  <2>3. QED  BY <2>1, <2>2 DEF Active, Inv, TypeOK, Terminal
<1>3. QED  BY <1>1, <1>2

Capped ==
  /\ IsFiniteSet(Active)
  /\ GlobalCap
  /\ SessionCap

LEMMA InitCapped == Init => Capped
<1> SUFFICES ASSUME Init PROVE Capped  OBVIOUS
<1>1. Active = {} /\ \A s \in Session : ActiveOf(s) = {}
  BY DEF Init, Active, ActiveOf
<1>2. QED
  BY <1>1, FS_EmptySet, CapsAssumption DEF Capped, GlobalCap, SessionCap

\* Admit compares before it inserts; every other step only takes away.
LEMMA NextCapped == Inv /\ Capped /\ [Next]_vars => Capped'
<1> SUFFICES ASSUME Inv, Capped, [Next]_vars PROVE Capped'  OBVIOUS
<1> USE CapsAssumption
<1>0. \A s \in Session : IsFiniteSet(ActiveOf(s)) /\ Cardinality(ActiveOf(s)) \in Nat
  BY FS_Subset, FS_CardinalityType DEF Capped, ActiveOf
<1>1. CASE Active' \subseteq Active /\ owner' = owner
  <2>1. IsFiniteSet(Active') /\ Cardinality(Active') <= Cardinality(Active)
    BY <1>1, FS_Subset DEF Capped
  <2>2. Cardinality(Active) \in Nat /\ Cardinality(Active') \in Nat
    BY <2>1, FS_CardinalityType DEF Capped
  <2>3. ASSUME NEW s \in Session
        PROVE  Cardinality(ActiveOf(s)') <= Cardinality(ActiveOf(s))
               /\ Cardinality(ActiveOf(s)') \in Nat
    <3>1. ActiveOf(s)' \subseteq ActiveOf(s)  BY <1>1 DEF ActiveOf
    <3>2. IsFiniteSet(ActiveOf(s)')  BY <1>0, <3>1, FS_Subset
    <3>3. QED  BY <1>0, <3>1, <3>2, FS_Subset, FS_CardinalityType
  <2>4. GlobalCap'   BY <2>1, <2>2 DEF Capped, GlobalCap
  <2>5. SessionCap'  BY <1>0, <2>3 DEF Capped, SessionCap
  <2>6. QED  BY <2>1, <2>4, <2>5 DEF Capped
<1>2. ASSUME NEW s \in Session, NEW j \in Job, Admit(s, j),
             Active' = Active \cup {j}, j \notin Active
      PROVE  Capped'
  <2>1. /\ IsFiniteSet(Active')
        /\ Cardinality(Active') = Cardinality(Active) + 1
        /\ Cardinality(Active) \in Nat
    BY <1>2, FS_AddElement, FS_CardinalityType DEF Capped
  <2>2. GlobalCap'
    BY <1>2, <2>1 DEF Admit, Below, GlobalCap
  <2>3. ASSUME NEW t \in Session, t # s
        PROVE  ActiveOf(t)' = ActiveOf(t)
    BY <1>2, <2>3 DEF Admit, ActiveOf, Active, Inv, TypeOK
  <2>4. Cardinality(ActiveOf(s)') = Cardinality(ActiveOf(s)) + 1
    <3>1. ActiveOf(s)' = ActiveOf(s) \cup {j} /\ j \notin ActiveOf(s)
      BY <1>2 DEF Admit, ActiveOf, Active, Inv, TypeOK
    <3>2. QED  BY <1>0, <3>1, FS_AddElement
  <2>5. ASSUME PerSession # 0, NEW t \in Session
        PROVE  Cardinality(ActiveOf(t)') <= PerSession
    <3>1. CASE t = s
      BY <1>0, <1>2, <2>4, <2>5, <3>1 DEF Admit, Below
    <3>2. CASE t # s
      BY <2>3, <2>5, <3>2 DEF Capped, SessionCap
    <3>3. QED  BY <3>1, <3>2
  <2>6. SessionCap'
    BY <2>5 DEF SessionCap
  <2>7. QED  BY <2>1, <2>2, <2>6 DEF Capped
<1>3. QED  BY <1>1, <1>2, ActiveStep

\* Neither cap is ever exceeded, however many requests, cancels and reaper
\* ticks interleave.
THEOREM CapsHold == Spec => [](GlobalCap /\ SessionCap)
<1>1. Spec => []Capped
  BY InitCapped, NextCapped, Invariance, PTL DEF Spec
<1>2. Capped => GlobalCap /\ SessionCap  BY DEF Capped
<1>3. QED  BY <1>1, <1>2, PTL

-----------------------------------------------------------------------------
(* The refinement *)

\* A step that leaves the registry, the owners and the states alone is invisible.
LEMMA Invisible ==
  ASSUME UNCHANGED <<registry, owner, state>>
  PROVE  UNCHANGED <<View, owner>>
BY DEF View

\* The jobs the abstract queue counts are those Admit counts.
LEMMA SameOpen == Inv => Lifecycle!Open = Active
BY DEF Inv, TypeOK, States, Positions, Consistent, Lifecycle!Open, Lifecycle!Ongoing, View, Active,
       Terminal, TerminalStates

LEMMA AdmitRefines ==
  ASSUME Inv, NEW s \in Session, NEW j \in Job, Admit(s, j)
  PROVE  Lifecycle!Queue(s, j)
<1>1. View[j] = "absent"
  BY DEF Admit, Goto, Inv, Consistent, View
<1>2. View' = [View EXCEPT ![j] = "queued"]
  BY DEF Admit, Goto, Inv, TypeOK, Consistent, View
<1>3. /\ PerSession = 0 \/ Cardinality({k \in Lifecycle!Open : owner[k] = s}) < PerSession
      /\ Global = 0 \/ Cardinality(Lifecycle!Open) < Global
  BY SameOpen DEF Admit, Below, ActiveOf
<1>4. owner' = [owner EXCEPT ![j] = s]  BY DEF Admit
<1>5. \A S : Lifecycle!Cardinality(S) = Cardinality(S)
  BY DEF Lifecycle!Cardinality, Cardinality
<1>6. QED  BY <1>1, <1>2, <1>3, <1>4, <1>5 DEF Lifecycle!Queue

\* setState as the job list sees it: a running job, an ended job, or nothing.
LEMMA SetStateRefines ==
  ASSUME Inv, NEW j \in Job, pc[j] # "none", UNCHANGED <<registry, owner>>,
         NEW s \in TerminalStates, SetState(j, s),
         s = "succeeded" => state[j] # "queued"
  PROVE  Lifecycle!End(j, s) \/ UNCHANGED <<View, owner>>
<1> USE DEF Terminal, TerminalStates
<1>1. CASE Terminal(state[j])
  BY <1>1, Invisible DEF SetState
<1>2. CASE ~Terminal(state[j])
  <2>1. state[j] \in {"queued", "running"} /\ j \in registry
    BY <1>2 DEF Inv, TypeOK, Positions, Consistent
  <2>2. View[j] = state[j]
    BY <2>1 DEF View
  <2>3. View' = [View EXCEPT ![j] = s]
    BY <1>2, <2>1 DEF SetState, View, Inv, TypeOK
  <2>4. QED
    BY <2>1, <2>2, <2>3 DEF Lifecycle!End, Lifecycle!Ongoing
<1>3. QED  BY <1>1, <1>2

LEMMA SuperviseRefines ==
  ASSUME Inv, NEW j \in Job, Supervise(j)
  PROVE  \/ Lifecycle!Run(j)
         \/ \E how \in Lifecycle!Ended : Lifecycle!End(j, how)
         \/ UNCHANGED <<View, owner>>
<1>1. CASE NoExecutable(j) \/ Arm(j) \/ LaunchFails(j) \/ Launch(j)
  BY <1>1, Invisible DEF NoExecutable, Arm, LaunchFails, Launch
<1>2. CASE MarkRunning(j)
  <2>1. CASE Terminal(state[j])
    BY <1>2, <2>1, Invisible DEF MarkRunning, SetState
  <2>2. CASE ~Terminal(state[j])
    <3>1. state[j] = "queued" /\ j \in registry
      BY <1>2, <2>2 DEF MarkRunning, Goto, Inv, Consistent, Terminal, TerminalStates
    <3>2. View[j] = "queued" /\ View' = [View EXCEPT ![j] = "running"]
      BY <1>2, <2>2, <3>1 DEF MarkRunning, SetState, View, Inv, TypeOK
    <3>3. QED  BY <1>2, <3>2 DEF MarkRunning, Lifecycle!Run
  <2>3. QED  BY <2>1, <2>2
<1>3. CASE Fail(j)
  <2>1. Lifecycle!End(j, "failed") \/ UNCHANGED <<View, owner>>
    BY <1>3, SetStateRefines DEF Fail, Goto, TerminalStates
  <2>2. QED  BY <2>1 DEF Lifecycle!Ended
<1>4. CASE Settle(j)
  <2>1. pc[j] \in TerminalStates  BY <1>4 DEF Settle
  <2>2. pc[j] # "none" /\ state[j] # "queued"
    BY <2>1 DEF Inv, Consistent, TerminalStates
  <2>3. Lifecycle!End(j, pc[j]) \/ UNCHANGED <<View, owner>>
    BY <1>4, <2>1, <2>2, SetStateRefines DEF Settle
  <2>4. QED  BY <2>1, <2>3 DEF Lifecycle!Ended, TerminalStates
<1>5. CASE Judge(j) \/ Return(j)
  BY <1>5, Invisible DEF Judge, Return
<1>6. QED  BY <1>1, <1>2, <1>3, <1>4, <1>5 DEF Supervise

LEMMA CancelActRefines ==
  ASSUME Inv, NEW c \in Caller, CancelAct(c)
  PROVE  \/ \E j \in Job : Lifecycle!End(j, "cancelled")
         \/ UNCHANGED <<View, owner>>
<1>1. CASE UNCHANGED state
  BY <1>1, Invisible DEF CancelAct
<1>2. CASE SetState(call[c].target, "cancelled")
  <2>1. call[c].target \in Job /\ pc[call[c].target] # "none"
    BY DEF CancelAct, Inv, TypeOK, Calls, CallsAdmitted
  <2>2. Lifecycle!End(call[c].target, "cancelled") \/ UNCHANGED <<View, owner>>
    BY <1>2, <2>1, SetStateRefines DEF CancelAct, TerminalStates
  <2>3. QED  BY <2>1, <2>2
<1>3. QED  BY <1>1, <1>2 DEF CancelAct

LEMMA ReapRefines ==
  ASSUME Inv, Reap
  PROVE  \E jobs \in SUBSET Job : Lifecycle!Forget(jobs)
<1>1. PICK old \in SUBSET {j \in registry : Terminal(state[j])} : registry' = registry \ old
  BY DEF Reap
<1>2. old \in SUBSET Job /\ \A j \in old : View[j] \in Lifecycle!Ended
  BY <1>1 DEF Inv, TypeOK, View, Lifecycle!Ended, Terminal, TerminalStates
<1>3. View' = [j \in Job |-> IF j \in old THEN "forgotten" ELSE View[j]]
  BY <1>1 DEF Reap, View, Inv, TypeOK, Terminal, TerminalStates
<1>4. QED  BY <1>2, <1>3 DEF Reap, Lifecycle!Forget

LEMMA StepRefines == Inv /\ [Next]_vars => [Lifecycle!Next]_<<View, owner>>
<1> SUFFICES ASSUME Inv, [Next]_vars
             PROVE  Lifecycle!Next \/ UNCHANGED <<View, owner>>
  OBVIOUS
<1>1. ASSUME NEW s \in Session, NEW j \in Job, Admit(s, j)
      PROVE  Lifecycle!Next
  BY <1>1, AdmitRefines DEF Lifecycle!Next
<1>2. ASSUME NEW j \in Job, Supervise(j)
      PROVE  Lifecycle!Next \/ UNCHANGED <<View, owner>>
  BY <1>2, SuperviseRefines DEF Lifecycle!Next
<1>3. ASSUME NEW c \in Caller, CancelAct(c)
      PROVE  Lifecycle!Next \/ UNCHANGED <<View, owner>>
  BY <1>3, CancelActRefines DEF Lifecycle!Next, Lifecycle!Ended
<1>4. CASE Reap
  BY <1>4, ReapRefines DEF Lifecycle!Next
<1>5. ASSUME UNCHANGED <<registry, owner, state>>
      PROVE  UNCHANGED <<View, owner>>
  BY <1>5, Invisible
<1>6. ASSUME NEW j \in Job, Process(j)
      PROVE  UNCHANGED <<registry, owner, state>>
  BY <1>6 DEF Process, WorkerExits, WorkerKilled, Deadline
<1>7. ASSUME NEW c \in Caller, NEW s \in Session,
             CancelNext(c) \/ CancelSession(c, s) \/ \E j \in Job : CancelJob(c, s, j)
      PROVE  UNCHANGED <<registry, owner, state>>
  BY <1>7 DEF CancelNext, CancelSession, CancelJob
<1>8. ASSUME NEW c \in Caller, CancelNext(c)
      PROVE  UNCHANGED <<registry, owner, state>>
  BY <1>8 DEF CancelNext
<1>9. CASE Shutdown \/ UNCHANGED vars
  BY <1>5, <1>9 DEF Shutdown, vars
<1>10. QED
  BY <1>1, <1>2, <1>3, <1>4, <1>5, <1>6, <1>7, <1>8, <1>9 DEF Next, CancelStep

\* The registry, the supervisor and the worker processes implement the job
\* lifecycle: each of their steps is one step of it, or invisible to the API.
THEOREM LifecycleImplemented == Spec => ImplementsLifecycle
<1>1. Init => Lifecycle!Init
  BY DEF Init, Lifecycle!Init, View
<1>2. QED
  BY <1>1, StepRefines, Invariance, PTL DEF Spec, ImplementsLifecycle, Lifecycle!Spec
=============================================================================
