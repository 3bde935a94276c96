------------------------------- MODULE Review -------------------------------
(***************************************************************************)
(* The pages that show a job (routes/wizard/scan.tsx, review.tsx and        *)
(* clean.tsx with lib/use-job.ts) and the handler that starts a clean-up    *)
(* (handleCreateNuke).                                                      *)
(*                                                                         *)
(* A page keeps its component, and so its state, when only the job id of    *)
(* its path changes: a link to another running scan, or a jump in the       *)
(* browser's history. What it shows is the last snapshot it was given.      *)
(* A worker's findings are published when it ends (JobEvents has the        *)
(* stream), and cancelling is one way to end.                               *)
(***************************************************************************)
EXTENDS Naturals, FiniteSets

CONSTANTS
  Resource, RegionOf, TypeOf,  \* what the account holds, and where
  Region, Global,              \* regions, and the "global" pseudo-region
  ScanSpec,                    \* the scans users start: [regions, types]
  Report,                      \* what a scan may list: [found, nukable]
  MaxJobs, MaxSessions

ASSUME ResourceAssumption ==
  /\ Global \notin Region
  /\ \A r \in Resource : RegionOf[r] \in Region \cup {Global}
  /\ \A p \in Report : p.nukable \subseteq p.found /\ p.found \subseteq Resource
\* validateScanInputs: a scan has a region, if only for the global client.
ASSUME ScanSpecAssumption ==
  ScanSpec \subseteq [regions : (SUBSET Region) \ {{}}, types : SUBSET {TypeOf[r] : r \in Resource}]
ASSUME BoundAssumption == MaxJobs \in Nat /\ MaxSessions \in Nat

VARIABLES
  jobs,      \* the job registry, in the order of creation
  count,     \* how many jobs it has seen
  cur,       \* the session of the browser's cookie
  alive,     \* whether the server still has it
  status,    \* SessionProvider: "authed" or "anonymous"
  page,      \* "scan", "review", "clean", or "out" for any other
  param,     \* the job id in the path
  view,      \* the snapshot it holds: a job and its state then; id 0 is none
  selected,  \* review.tsx's selection, meaningful once it is
  chosen,    \*   no longer null
  request    \* the createNuke request under way

server == <<jobs, count, alive>>
client == <<status, page, param, view, selected,
            chosen, request>>
vars   == <<server, cur, client>>

Job == 1 .. MaxJobs
Existing == 1 .. count

Terminal == {"succeeded", "failed", "cancelled"}

NoRequest == [at |-> "none", scan |-> 0, sel |-> {}, shown |-> {}, job |-> 0]
NoView    == [id |-> 0, state |-> "none"]
NoJob     == [mode |-> "none", state |-> "none", sess |-> 0, regions |-> {}, types |-> {},
             found |-> {}, nukable |-> {}, sel |-> {}, shown |-> {}]

InScope(j) == {r \in Resource : /\ TypeOf[r] \in jobs[j].types
                                /\ RegionOf[r] \in jobs[j].regions \cup {Global}}

(* -------------------------------- the server ------------------------------- *)

NewJob(mode) == [NoJob EXCEPT !.mode = mode, !.state = "running", !.sess = cur]

Running(j) == jobs[j].state = "running"

\* A scan finds resources of its scope; protected ones are not nukable. One that
\* fails late stands for all that fail.
ScanEnds(j) ==
  /\ jobs[j].mode = "scan" /\ Running(j)
  /\ \/ \E p \in Report :
          /\ p.found \subseteq InScope(j)
          /\ jobs' = [jobs EXCEPT ![j].state = "succeeded", ![j].found = p.found, ![j].nukable = p.nukable]
     \/ jobs' = [jobs EXCEPT ![j].state = "failed", ![j].found = InScope(j), ![j].nukable = InScope(j)]
  /\ UNCHANGED <<count, cur, alive, client>>

\* A clean-up is through with its selections (NukeRun has the run itself), or a
\* scan is cancelled.
Ends(j) ==
  /\ Running(j)
  /\ jobs' = [jobs EXCEPT ![j].state = IF jobs[j].mode = "scan" THEN "cancelled" ELSE "succeeded"]
  /\ UNCHANGED <<count, cur, alive, client>>

\* Sign-out elsewhere, the reaper or the hard limit: the session's jobs end with it.
SessionEnds ==
  /\ alive /\ alive' = FALSE
  /\ jobs' = [j \in Job |-> IF Running(j) THEN [jobs[j] EXCEPT !.state = "cancelled"] ELSE jobs[j]]
  /\ UNCHANGED <<count, cur, client>>

\* jobFor: a job of another session is not found.
Found(j) == j \in Existing /\ jobs[j].sess = cur

\* Bug: a selection that the scan found is taken without asking if it is deletable.
AcceptableFound(q) ==
  /\ q.sel # {}
  /\ Found(q.scan) /\ jobs[q.scan].mode = "scan" /\ jobs[q.scan].state = "succeeded"
  /\ q.sel \subseteq jobs[q.scan].found

\* Bug: a scan of the signed-out session, finished or not, will do.
AcceptableAnyScan(q) == q.sel # {} /\ q.sel \subseteq jobs[q.scan].found

\* The checks of handleCreateNuke up to the selections, which must all be
\* deletable resources that this scan found.
Acceptable(q) ==
  /\ q.sel # {}
  /\ Found(q.scan) /\ jobs[q.scan].mode = "scan" /\ jobs[q.scan].state = "succeeded"
  /\ q.sel \subseteq jobs[q.scan].found
  /\ q.sel \subseteq jobs[q.scan].nukable

\* Bug: one region is enough.
NeededRegionsFirst(q) == {CHOOSE x \in jobs[q.scan].regions : TRUE}

\* The rescan is narrowed to what the selections need, in the scan's order; the
\* engine must have a region, if only for the global client.
NeededRegions(q) ==
  LET needed == {RegionOf[r] : r \in q.sel} \cap jobs[q.scan].regions
  IN IF needed # {} THEN needed ELSE {CHOOSE x \in jobs[q.scan].regions : TRUE}
NeededTypes(q) == {TypeOf[r] : r \in q.sel} \cap jobs[q.scan].types

CleanUp(q) ==
  [NewJob("nuke") EXCEPT !.regions = NeededRegions(q), !.types = NeededTypes(q),
                         !.sel = q.sel, !.shown = q.shown]

Reply(a, j) == request' = [request EXCEPT !.at = a, !.job = j]

ServeNuke ==
  /\ request.at = "sent"
  /\ IF alive /\ Acceptable(request) /\ count < MaxJobs
       THEN /\ count' = count + 1
            /\ jobs' = [jobs EXCEPT ![count + 1] = CleanUp(request)]
            /\ Reply("started", count + 1)
       ELSE Reply(IF alive THEN "refused" ELSE "gone", 0) /\ UNCHANGED <<jobs, count>>
  /\ UNCHANGED <<cur, alive, status, page, param, view, selected, chosen>>

(* --------------------------------- the pages ------------------------------- *)

\* React Router keeps the component when only the id changes; useJob's effect
\* starts over, its state and the page's other states stay.
Goes(p, j) ==
  /\ page' = p /\ param' = j
  /\ IF p = page THEN UNCHANGED <<view, selected, chosen>>
     ELSE /\ view' = NoView
          /\ selected' = {} /\ chosen' = FALSE

\* expire, and the wizard layout's way out.
Expires == status' = "anonymous" /\ Goes("out", 0)

PagesOf(j) == IF jobs[j].mode = "scan" THEN {"scan", "review"} ELSE {"clean"}

\* Links, running pills, the history page and jumps in the browser's history.
Open(p, j) ==
  /\ status = "authed" /\ <<p, j>> # <<page, param>>
  /\ p \in PagesOf(j)
  /\ Goes(p, j)
  /\ UNCHANGED <<server, cur, status, request>>

\* The scan page's button goes to the review of the scan it shows.
ToReview ==
  /\ page = "scan" /\ view.state = "succeeded" /\ jobs[view.id].found # {}
  /\ Goes("review", view.id)
  /\ UNCHANGED <<server, cur, status, request>>

Leave == page # "out" /\ Goes("out", 0) /\ UNCHANGED <<server, cur, status, request>>

\* The services page, "scan again" of a clean-up or of a history record (Wizard
\* has the request): the new scan's page opens.
StartScan ==
  /\ status = "authed" /\ alive /\ count < MaxJobs
  /\ count' = count + 1
  /\ \E s \in ScanSpec :
       jobs' = [jobs EXCEPT ![count + 1] =
                  [NewJob("scan") EXCEPT !.regions = s.regions, !.types = s.types]]
  /\ Goes("scan", count + 1)
  /\ UNCHANGED <<cur, alive, status, request>>

\* A snapshot of param is due: the first one, or the one that the end of the
\* stream asks for (refused or finished). Nothing that was refused is found
\* later, so the error useJob keeps needs no variable.
Due == /\ page # "out"
       /\ \/ view.id # param
          \/ view.state = "running" /\ (~Running(param) \/ ~alive)

\* The review page's effect: everything deletable is selected at first.
Preselect(j) ==
  IF page = "review" /\ ~chosen /\ jobs[j].state \in Terminal
    THEN selected' = jobs[j].nukable /\ chosen' = TRUE
    ELSE UNCHANGED <<selected, chosen>>

Shown ==
  /\ Due /\ alive /\ Found(param)
  /\ view' = [id |-> param, state |-> jobs[param].state]
  /\ Preselect(param)
  /\ UNCHANGED <<server, cur, status, page, param, request>>

\* 404, or 401: the scan and clean-up pages call expire, the review page only
\* looks at the error.
ShowFails ==
  /\ Due /\ ~(alive /\ Found(param))
  /\ IF ~alive /\ page # "review" THEN Expires
     ELSE UNCHANGED <<status, page, param, view, selected, chosen>>
  /\ UNCHANGED <<server, cur, request>>

(* ------------------------------ the review page ---------------------------- *)

\* The report, not the spinner or "not found".
Reporting == page = "review" /\ view.id # 0 /\ chosen

Listed    == jobs[view.id].found
Deletable == jobs[view.id].nukable

\* Rows, group boxes, the header box and "select deletable" touch deletable
\* rows of this report only; what was selected elsewhere stays.
Select(S) ==
  /\ Reporting
  /\ selected' = (selected \ Deletable) \cup S
  /\ selected' # selected
  /\ UNCHANGED <<server, cur, status, page, param, view, chosen, request>>

Clear ==
  /\ Reporting /\ selected # {}
  /\ selected' = {}
  /\ UNCHANGED <<server, cur, status, page, param, view, chosen, request>>

\* A row reads "will delete" when it is deletable and selected.
Marked == Deletable \cap selected

\* Bug: the keys of the selection are sent as they are.
ConfirmKeys ==
  /\ Reporting /\ status = "authed" /\ selected # {} /\ request.at = "none"
  /\ request' = [at |-> "sent", scan |-> view.id, sel |-> selected, shown |-> Marked, job |-> 0]
  /\ UNCHANGED <<server, cur, status, page, param, view, selected, chosen>>

\* The dialog's button, once the account id is typed (WebSession has the
\* account): what is sent are the selected rows.
Confirm ==
  /\ Reporting /\ status = "authed" /\ selected # {} /\ request.at = "none"
  /\ request' = [at |-> "sent", scan |-> view.id, sel |-> Listed \cap selected,
                shown |-> Marked, job |-> 0]
  /\ UNCHANGED <<server, cur, status, page, param, view, selected, chosen>>

\* The mutation's callbacks run wherever the user is by now.
Answered ==
  /\ request.at \notin {"none", "sent"}
  /\ CASE request.at = "started" -> Goes("clean", request.job) /\ UNCHANGED status
       [] request.at = "refused" ->
            UNCHANGED <<status, page, param, view, selected, chosen>>
       [] OTHER -> Expires
  /\ request' = NoRequest
  /\ UNCHANGED <<server, cur>>

\* A new session, with the same browser state outside the wizard.
SignIn ==
  /\ status = "anonymous" /\ cur < MaxSessions
  /\ status' = "authed" /\ cur' = cur + 1 /\ alive' = TRUE
  /\ UNCHANGED <<jobs, count, page, param, view, selected, chosen, request>>

\* Signing in with another tab replaces the cookie under an open page.
SignInElsewhere ==
  /\ cur < MaxSessions
  /\ cur' = cur + 1 /\ alive' = TRUE
  /\ jobs' = jobs /\ UNCHANGED <<count, client>>

-----------------------------------------------------------------------------
Init ==
  /\ jobs = [j \in Job |-> NoJob] /\ count = 0
  /\ cur = 1 /\ alive = TRUE
  /\ status = "authed" /\ page = "out" /\ param = 0
  /\ view = NoView
  /\ selected = {} /\ chosen = FALSE /\ request = NoRequest

Next ==
  \/ \E j \in Existing : ScanEnds(j) \/ Ends(j)
  \/ SessionEnds \/ ServeNuke \/ StartScan \/ ToReview \/ Leave
  \/ \E j \in Existing, p \in {"scan", "review", "clean"} : Open(p, j)
  \/ Shown \/ ShowFails
  \/ \E S \in SUBSET Resource : Reporting /\ S \subseteq Deletable /\ Select(S)
  \/ Clear \/ Confirm \/ Answered \/ SignIn \/ SignInElsewhere

Spec == Init /\ [][Next]_vars
-----------------------------------------------------------------------------
JobRecord ==
  [mode : {"none", "scan", "nuke"}, state : {"none", "running"} \cup Terminal,
   sess : 0 .. MaxSessions, regions : SUBSET Region, types : SUBSET {TypeOf[r] : r \in Resource},
   found : SUBSET Resource, nukable : SUBSET Resource, sel : SUBSET Resource,
   shown : SUBSET Resource]

TypeOK ==
  /\ jobs \in [Job -> JobRecord] /\ count \in 0 .. MaxJobs
  /\ cur \in 1 .. MaxSessions /\ alive \in BOOLEAN
  /\ status \in {"authed", "anonymous"}
  /\ page \in {"scan", "review", "clean", "out"} /\ param \in 0 .. MaxJobs
  /\ view \in [id : 0 .. MaxJobs, state : {"none", "running"} \cup Terminal]
  /\ selected \subseteq Resource /\ chosen \in BOOLEAN
  /\ request \in [at : {"none", "sent", "started", "refused", "gone"}, scan : 0 .. MaxJobs,
                  sel : SUBSET Resource, shown : SUBSET Resource, job : 0 .. MaxJobs]

\* The rescan of a clean-up looks everywhere it has to: for every confirmed
\* resource its type, and its region unless it is global, are in the clean-up's
\* spec, and the spec never reaches outside the scan (handlers.go:297-316).
ScopeCoversSelection ==
  \A j \in Existing : jobs[j].mode = "nuke" =>
    /\ jobs[j].regions # {}
    /\ jobs[j].sel \subseteq InScope(j)
    /\ \E k \in Existing : /\ jobs[k].mode = "scan" /\ jobs[k].sess = jobs[j].sess
                           /\ jobs[j].regions \subseteq jobs[k].regions
                           /\ jobs[j].types \subseteq jobs[k].types

\* Whatever is deleted was marked "will delete" on the page where the user
\* confirmed, and a successful scan had found it deletable, although pages keep
\* an older scan's selection (review.tsx:57-108, handlers.go:240-295).
Promise == INSTANCE ReviewedDeletion WITH
  deletable <- UNION {jobs[j].nukable : j \in {k \in Job : jobs[k].state = "succeeded"}},
  confirmed <- UNION {jobs[j].shown : j \in Job},
  deleted   <- UNION {jobs[j].sel : j \in {k \in Job : jobs[k].state = "succeeded"}}
ImplementsReview == Promise!Spec
=============================================================================
