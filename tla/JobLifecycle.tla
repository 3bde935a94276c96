---------------------------- MODULE JobLifecycle ----------------------------
(***************************************************************************)
(* What the job API promises to a browser, without goroutines, contexts or  *)
(* processes: `view` is what GET /api/jobs shows of a job. A job is queued  *)
(* only below both caps, may run, ends exactly once, succeeds only if it    *)
(* ran, and is forgotten only after it ended.                               *)
(***************************************************************************)
EXTENDS Naturals, FiniteSets

CONSTANTS Job, Session, NoSession, PerSession, Global

VARIABLES view, owner

Ended    == {"succeeded", "failed", "cancelled"}
Ongoing  == {"queued", "running"}
Views    == {"absent", "forgotten"} \cup Ongoing \cup Ended

Open == {j \in Job : view[j] \in Ongoing}

Init ==
  /\ view  = [j \in Job |-> "absent"]
  /\ owner = [j \in Job |-> NoSession]

Queue(s, j) ==
  /\ view[j] = "absent"
  /\ PerSession = 0 \/ Cardinality({k \in Open : owner[k] = s}) < PerSession
  /\ Global = 0 \/ Cardinality(Open) < Global
  /\ view'  = [view EXCEPT ![j] = "queued"]
  /\ owner' = [owner EXCEPT ![j] = s]

Run(j) ==
  /\ view[j] = "queued"
  /\ view' = [view EXCEPT ![j] = "running"]
  /\ UNCHANGED owner

End(j, how) ==
  /\ view[j] \in Ongoing
  /\ how = "succeeded" => view[j] = "running"
  /\ view' = [view EXCEPT ![j] = how]
  /\ UNCHANGED owner

Forget(jobs) ==
  /\ \A j \in jobs : view[j] \in Ended
  /\ view' = [j \in Job |-> IF j \in jobs THEN "forgotten" ELSE view[j]]
  /\ UNCHANGED owner

Next ==
  \/ \E s \in Session, j \in Job : Queue(s, j)
  \/ \E j \in Job : Run(j)
  \/ \E j \in Job, how \in Ended : End(j, how)
  \/ \E jobs \in SUBSET Job : Forget(jobs)

Spec == Init /\ [][Next]_<<view, owner>>
=============================================================================
