--------------------------- MODULE HistoryTracker ---------------------------
(***************************************************************************)
(* How a browser tab keeps the history of the session's jobs: the tracker    *)
(* (web/app/lib/jobs.tsx) lists the server's jobs, polls while any runs, and *)
(* records them through the serialised store of web/app/lib/history.ts;      *)
(* pages that follow a job record it, too.                                  *)
(*                                                                         *)
(* JavaScript runs one callback at a time: an action is what happens         *)
(* between two awaits. Every history operation is appended to `chain` and    *)
(* executed in order, its caller waiting or not. The user deletes records on *)
(* the history pages (routes/history.tsx, history-detail.tsx). One tab,      *)
(* which may be reloaded; two tabs would need more than one chain. The limit *)
(* of 50 entries is left out.                                               *)
(***************************************************************************)
EXTENDS Naturals, Sequences, FiniteSets, SequencesExt

CONSTANTS
  Job,        \* numbered in the order of creation
  Paged,      \* those that a page may show
  MaxUpsets,  \* bound on failing requests, reloads, deletions and sign-outs together
  NoJob

ASSUME HistoryAssumption ==
  /\ MaxUpsets \in Nat /\ NoJob \notin Job
  /\ Job \subseteq Nat /\ IsFiniteSet(Job) /\ Paged \subseteq Job

VARIABLES
  status,   \* SessionProvider: "authed" or "anonymous"
  srv,      \* the job on the server, for the session of the moment
  old,      \* jobs created longer ago than the grace period of markLostHistory
  entry,    \* the job's record in the browser's history
  chain,    \* the operations on the history that are queued
  running,  \* the tracker's list of unfinished jobs; it polls while there are any
  seen,     \* placeholder written, or about to be
  saved,    \* final record written, or about to be
  refresh,  \* the refresh in progress
  record,   \* per job: where recordFinished stands
  page,     \* per job: what a page has told the tracker last
  upsets,   \* how many there were
  failed,   \* whether a request failed
  had       \* history: jobs whose final record was written since the page load

tab   == <<running, seen, saved, refresh, record, page>>
world == <<status, upsets, failed>>
vars  == <<srv, old, entry, chain, tab, world, had>>

Servers == {"none", "running", "ended", "gone"}
Entries == {"none", "placeholder", "final", "lost"}

Ops == [op : {"get", "save", "lost", "delete", "clear"}, job : Job \cup {NoJob}, what : Entries,
        by : {"refresh", "record", "page", "user"}]
Op(op, j, what, by) == [op |-> op, job |-> j, what |-> what, by |-> by]

\* list: the request is under way; live: the loop over the unfinished jobs;
\* look, place, placing: that loop awaits getHistory, is to write a placeholder,
\* awaits the write; recording: recordFinished runs for the finished jobs;
\* losing: markLostHistory is awaited.
Refreshes == [at : {"idle", "list", "live", "look", "place", "placing", "recording", "losing"},
              live : SUBSET Job, ended : SUBSET Job, cur : Job \cup {NoJob}]
NoRefresh == [at |-> "idle", live |-> {}, ended |-> {}, cur |-> NoJob]
Listing   == [NoRefresh EXCEPT !.at = "list"]
Alive     == refresh.live \cup refresh.ended

Records == {"idle", "look", "fetch", "saving"}

Init ==
  /\ srv = [j \in Job |-> "none"] /\ old = {}
  /\ entry = [j \in Job |-> "none"] /\ chain = <<>>
  /\ running = {} /\ seen = {} /\ saved = {}
  /\ refresh = Listing               \* "List on connect"
  /\ record = [j \in Job |-> "idle"] /\ page = [j \in Job |-> "none"]
  /\ status = "authed" /\ had = {}
  /\ upsets = 0 /\ failed = FALSE

Upset == upsets < MaxUpsets /\ upsets' = upsets + 1
Fails == Upset /\ failed' = TRUE

-----------------------------------------------------------------------------
(* The server, as a browser sees it, and the clock *)

ServerStep(j) ==
  /\ \/ srv[j] = "running" /\ srv' = [srv EXCEPT ![j] = "ended"]
     \/ srv[j] = "ended"   /\ srv' = [srv EXCEPT ![j] = "gone"]
  /\ UNCHANGED <<old, entry, chain, tab, world, had>>

StartJob(j) ==
  /\ srv[j] = "none" /\ status = "authed"
  /\ \A i \in Job : i < j => srv[i] # "none"
  /\ srv' = [srv EXCEPT ![j] = "running"]
  /\ UNCHANGED <<old, entry, chain, tab, world, had>>

\* A minute passes. A refresh is assumed to take less: while one is under way
\* only jobs age that its list has (it was made before the others existed).
GrowOld(j) ==
  /\ srv[j] # "none" /\ j \notin old
  /\ \A i \in Job : i < j => i \in old
  /\ refresh.at \in {"idle", "list"} \/ j \in Alive
  /\ old' = old \cup {j}
  /\ UNCHANGED <<srv, entry, chain, tab, world, had>>

-----------------------------------------------------------------------------
(* history.ts: the queue of operations *)

\* Bug: jobs the server still lists are given up once they are old enough.
GivenUpByAge == {j \in Job : entry[j] = "placeholder" /\ j \in old}

\* Whose run markLostHistory gives up.
GivenUp == {j \in Job : entry[j] = "placeholder" /\ j \notin Alive /\ j \in old}

\* The store's side of the next operation.
Execute(o) ==
  entry' = CASE o.op = "save" -> [entry EXCEPT ![o.job] = o.what]
             [] o.op = "lost" -> [j \in Job |-> IF j \in GivenUp THEN "lost" ELSE entry[j]]
             [] o.op = "delete" -> [entry EXCEPT ![o.job] = "none"]
             [] o.op = "clear"  -> [j \in Job |-> "none"]
             [] OTHER           -> entry

\* Bug: what the history has already is fetched again.
NeedsFinalAlways(e) == TRUE

\* Bug: any entry will do.
NeedsFinalIfNone(e) == e = "none"

NeedsFinal(e) == e # "final"

\* What the operation's caller does next.
Resume(o) ==
  /\ refresh' =
       IF o.by # "refresh" THEN refresh
       ELSE CASE o.op = "get"  -> [refresh EXCEPT !.at = IF entry[o.job] = "none" THEN "place" ELSE "live"]
              [] o.op = "save" -> [refresh EXCEPT !.at = "live"]
              [] o.op = "lost" -> NoRefresh
  /\ record' =
       IF o.by # "record" THEN record
       ELSE [record EXCEPT ![o.job] =
               IF o.op = "get" /\ NeedsFinal(entry[o.job]) THEN "fetch" ELSE "idle"]

NextOp ==
  /\ chain # <<>>
  /\ Execute(Head(chain)) /\ Resume(Head(chain))
  /\ chain' = Tail(chain)
  /\ had' = had \cup {j \in Job : Head(chain) \in {Op("save", j, "final", by) : by \in {"record", "page"}}}
  /\ UNCHANGED <<srv, old, running, seen, saved, page, world>>

Queue(o) == chain' = Append(chain, o)

-----------------------------------------------------------------------------
(* jobs.tsx: refresh *)

\* The poll while something runs, and the tab coming back into view. A refresh
\* in flight is shared.
Poll ==
  /\ refresh.at = "idle" /\ status = "authed"
  /\ refresh' = Listing
  /\ UNCHANGED <<srv, old, entry, chain, running, seen, saved, record, page, world, had>>

\* The list of the session's jobs arrives.
Listed ==
  /\ refresh.at = "list" /\ status = "authed"
  /\ LET live == {j \in Job : srv[j] = "running"} IN
       /\ refresh' = [at |-> "live", live |-> live, ended |-> {j \in Job : srv[j] = "ended"}, cur |-> NoJob]
       /\ running' = live
  /\ UNCHANGED <<srv, old, entry, chain, seen, saved, record, page, world, had>>

ListFails ==
  /\ refresh.at = "list" /\ Fails
  /\ refresh' = NoRefresh
  /\ UNCHANGED <<srv, old, entry, chain, running, seen, saved, record, page, status, had>>

\* The next unfinished job that this tab has not seen: is it in the history?
LookUp(j) ==
  /\ refresh.at = "live" /\ j \in refresh.live \ seen
  /\ seen' = seen \cup {j}
  /\ refresh' = [refresh EXCEPT !.at = "look", !.cur = j]
  /\ Queue(Op("get", j, "none", "refresh"))
  /\ UNCHANGED <<srv, old, entry, running, saved, record, page, world, had>>

\* It is not: write a placeholder.
Place ==
  /\ refresh.at = "place"
  /\ refresh' = [refresh EXCEPT !.at = "placing"]
  /\ Queue(Op("save", refresh.cur, "placeholder", "refresh"))
  /\ UNCHANGED <<srv, old, entry, running, seen, saved, record, page, world, had>>

\* Bug: jobs are marked when they are written and not when they are begun.
RecordFinishedUnmarked ==
  /\ refresh.at = "live" /\ refresh.live \subseteq seen
  /\ LET new == refresh.ended \ saved IN
       /\ saved'  = saved
       /\ record' = [j \in Job |-> IF j \in new THEN "look" ELSE record[j]]
       /\ chain'  = chain \o SetToSeq({Op("get", j, "none", "record") : j \in new})
  /\ refresh' = [refresh EXCEPT !.at = "recording"]
  /\ UNCHANGED <<srv, old, entry, running, seen, page, world, had>>

\* recordFinished for every finished job of the list, up to its first await.
RecordFinished ==
  /\ refresh.at = "live" /\ refresh.live \subseteq seen
  /\ LET new == refresh.ended \ saved IN
       /\ saved'  = saved \cup new
       /\ record' = [j \in Job |-> IF j \in new THEN "look" ELSE record[j]]
       /\ chain'  = chain \o SetToSeq({Op("get", j, "none", "record") : j \in new})
  /\ refresh' = [refresh EXCEPT !.at = "recording"]
  /\ UNCHANGED <<srv, old, entry, running, seen, page, world, had>>

\* recordFinished fetches the job and writes the final record.
Fetched(j) ==
  /\ record[j] = "fetch" /\ srv[j] = "ended"
  /\ record' = [record EXCEPT ![j] = "saving"]
  /\ Queue(Op("save", j, "final", "record"))
  /\ UNCHANGED <<srv, old, entry, running, seen, saved, refresh, page, world, had>>

\* The server no longer has it, or the request fails: the next list tries again.
FetchFails(j) ==
  /\ record[j] = "fetch"
  /\ IF srv[j] = "ended" THEN Fails ELSE UNCHANGED <<upsets, failed>>
  /\ record' = [record EXCEPT ![j] = "idle"]
  /\ saved'  = saved \ {j}
  /\ UNCHANGED <<srv, old, entry, chain, running, seen, refresh, page, status, had>>

\* Every recordFinished is done: give up what the server no longer lists.
MarkLost ==
  /\ refresh.at = "recording" /\ \A j \in Job : record[j] = "idle"
  /\ refresh' = [refresh EXCEPT !.at = "losing"]
  /\ Queue(Op("lost", NoJob, "lost", "refresh"))
  /\ UNCHANGED <<srv, old, entry, running, seen, saved, record, page, world, had>>

-----------------------------------------------------------------------------
(* jobs.tsx: sync, called by the page that shows a job *)

\* A page asks for the job while it runs, and shows the answer when it comes.
PageAsks(j) ==
  /\ page[j] = "none" /\ srv[j] = "running"
  /\ page' = [page EXCEPT ![j] = "asked"]
  /\ UNCHANGED <<srv, old, entry, chain, running, seen, saved, refresh, record, world, had>>

PageRunning(j) ==
  /\ page[j] = "asked"
  /\ page' = [page EXCEPT ![j] = "running"]
  /\ running' = running \cup {j}
  /\ seen' = seen \cup {j}
  /\ IF j \in seen THEN UNCHANGED chain ELSE Queue(Op("save", j, "placeholder", "page"))
  /\ UNCHANGED <<srv, old, entry, saved, refresh, record, world, had>>

\* The page sees the end of the job.
PageEnded(j) ==
  /\ page[j] # "ended" /\ srv[j] = "ended"
  /\ page' = [page EXCEPT ![j] = "ended"]
  /\ running' = running \ {j}
  /\ saved' = saved \cup {j}
  /\ IF j \in saved THEN UNCHANGED chain ELSE Queue(Op("save", j, "final", "page"))
  /\ UNCHANGED <<srv, old, entry, seen, refresh, record, world, had>>

\* The tab is reloaded: what it had queued is lost, the history stays.
Reload ==
  /\ Upset
  /\ chain' = <<>> /\ running' = {} /\ seen' = {} /\ saved' = {}
  /\ refresh' = IF status = "authed" THEN Listing ELSE NoRefresh
  /\ record' = [j \in Job |-> "idle"] /\ page' = [j \in Job |-> "none"]
  /\ had' = {}
  /\ UNCHANGED <<srv, old, entry, status, failed>>

-----------------------------------------------------------------------------
(* The user: sessions and the history pages *)

\* Signed out or expired: the jobs are out of reach with their session. A refresh
\* or a recording under way goes on.
SignOut ==
  /\ status = "authed" /\ status' = "anonymous" /\ Upset
  /\ srv' = [j \in Job |-> IF srv[j] = "none" THEN "none" ELSE "gone"]
  /\ running' = {} /\ seen' = {}
  /\ page' = [j \in Job |-> "none"]
  /\ UNCHANGED <<old, entry, chain, saved, refresh, record, failed, had>>

\* The list that was under way when the session ended is refused.
ListRefused ==
  /\ refresh.at = "list" /\ status = "anonymous"
  /\ refresh' = NoRefresh
  /\ UNCHANGED <<srv, old, entry, chain, running, seen, saved, record, page, world, had>>

SignIn ==
  /\ status = "anonymous" /\ status' = "authed"
  /\ refresh' = IF refresh.at = "idle" THEN Listing ELSE refresh
  /\ UNCHANGED <<srv, old, entry, chain, running, seen, saved, record, page, upsets, failed, had>>

\* The dialog of a record, and the one that clears the list.
Delete(j) ==
  /\ entry[j] # "none" /\ Upset
  /\ Queue(Op("delete", j, "none", "user"))
  /\ UNCHANGED <<srv, old, entry, tab, status, failed, had>>

Clear ==
  /\ (\E j \in Job : entry[j] # "none") /\ Upset
  /\ Queue(Op("clear", NoJob, "none", "user"))
  /\ UNCHANGED <<srv, old, entry, tab, status, failed, had>>

-----------------------------------------------------------------------------
Track(j) == LookUp(j) \/ Fetched(j) \/ FetchFails(j)

Refresh == Listed \/ ListRefused \/ Place \/ RecordFinished \/ MarkLost

Next ==
  \/ \E j \in Job : StartJob(j) \/ ServerStep(j) \/ GrowOld(j)
  \/ \E j \in Job : Track(j)
  \/ \E j \in Paged : PageAsks(j) \/ PageRunning(j) \/ PageEnded(j)
  \/ NextOp \/ Refresh \/ ListFails \/ Poll \/ Reload
  \/ SignOut \/ SignIn \/ Clear \/ \E j \in Job : Delete(j)

Spec == Init /\ [][Next]_vars

\* The timer fires while something runs (not when only the user would bring the
\* tab back into view), requests are answered, and the queue makes progress.
FairSpec ==
  /\ Spec
  /\ WF_vars(NextOp) /\ WF_vars(Refresh) /\ WF_vars(Poll /\ running # {})
  /\ \A j \in Job : WF_vars(Track(j))

-----------------------------------------------------------------------------
(* Correctness *)

TypeOK ==
  /\ srv \in [Job -> Servers] /\ old \in SUBSET Job /\ entry \in [Job -> Entries]
  /\ chain \in Seq(Ops)
  /\ running \in SUBSET Job /\ seen \in SUBSET Job /\ saved \in SUBSET Job
  /\ refresh \in Refreshes /\ record \in [Job -> Records] /\ page \in [Job -> {"none", "asked", "running", "ended"}]
  /\ {j \in Job : record[j] # "idle"} \subseteq saved
  /\ status \in {"authed", "anonymous"} /\ had \subseteq Job
  /\ upsets \in 0 .. MaxUpsets /\ failed \in BOOLEAN

\* "Writes every terminal job to history exactly once": the tracker never fetches
\* and writes a job whose final record the history has, although every list of the
\* server contains the job again, pages write it too and a reload forgets both.
RecordedOnce == \A j \in Job : record[j] = "saving" => entry[j] # "final"

\* A run is given up only if the server really has no more of it: neither a job
\* created while the list was under way nor one that ends meanwhile is lost.
LostIsGone ==
  [][\A j \in Job : entry[j] # "lost" /\ entry'[j] = "lost" => srv[j] = "gone"]_vars

\* What the tracker knows to run it sees to the end, whether or not a page is
\* open: the result is recorded, unless the server forgets the job before it could
\* be, or a request fails (the retry waits for the next list, and none may come).
RunsAreSettled ==
  \A j \in Job : j \in running ~> entry[j] = "final" \/ j \in had \/ srv[j] \in {"running", "gone"} \/ failed

\* A finished record that the user deleted is not written again while the tab
\* lives, although every list of the server still contains the job and pages show
\* it (jobs.tsx:36-47 and 77-85; a reload forgets what was saved and brings it back).
DeletedStays == [][\A j \in had : entry[j] # "final" => entry'[j] # "final"]_vars

\* A claim that does not hold: a placeholder "is replaced by the full record", and
\* not the other way round. The tracker looks whether the history has the job and
\* queues its placeholder later; the page's final record may come in between.
FinalStays == [][\A j \in Job : entry[j] = "final" => entry'[j] = "final"]_vars
=============================================================================
