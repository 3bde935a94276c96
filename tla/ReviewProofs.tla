---------------------------- MODULE ReviewProofs ----------------------------
(***************************************************************************)
(* Theorems about Review, for any account, any number of jobs and sessions: *)
(* the rescan of a clean-up covers what the user confirmed, and nothing is  *)
(* deleted that was not marked on the page and deletable in a finished scan *)
(* (the refinement of ReviewedDeletion).                                    *)
(***************************************************************************)
EXTENDS Review, TLAPS

Types == {TypeOf[r] : r \in Resource}

Rec ==
  [mode : {"none", "scan", "nuke"}, state : {"none", "running"} \cup Terminal,
   sess : Nat, regions : SUBSET Region, types : SUBSET Types,
   found : SUBSET Resource, nukable : SUBSET Resource, sel : SUBSET Resource,
   shown : SUBSET Resource]

Req == [at : {"none", "sent", "started", "refused", "gone"}, scan : Nat,
        sel : SUBSET Resource, shown : SUBSET Resource, job : Nat]

\* A scan's findings are published when it ends and are of its scope.
ScanOK(j) ==
  jobs[j].mode = "scan" =>
    /\ jobs[j].regions # {}
    /\ jobs[j].found \subseteq InScope(j) /\ jobs[j].nukable \subseteq jobs[j].found
    /\ jobs[j].sel = {} /\ jobs[j].shown = {}
    /\ Running(j) => jobs[j].found = {}

\* A clean-up has a scan of its session that covers it.
Covered(j) ==
  /\ jobs[j].regions # {} /\ jobs[j].sel \subseteq InScope(j)
  /\ \E k \in Existing : /\ jobs[k].mode = "scan" /\ jobs[k].sess = jobs[j].sess
                        /\ jobs[j].regions \subseteq jobs[k].regions
                        /\ jobs[j].types \subseteq jobs[k].types

NukeOK(j) ==
  jobs[j].mode = "nuke" =>
    Covered(j) /\ jobs[j].sel \subseteq jobs[j].shown /\ jobs[j].nukable = {}

JobsOK ==
  /\ count \in 0 .. MaxJobs /\ cur \in Nat
  /\ jobs \in [Job -> Rec]
  /\ \A j \in Job : IF j > count THEN jobs[j] = NoJob ELSE jobs[j].mode # "none"
  /\ \A j \in Job : ScanOK(j) /\ NukeOK(j)

\* What is confirmed belongs to the scan that the page shows; of the resources
\* sent, those deletable were marked. A running scan has none yet.
RequestOK ==
  /\ request \in Req
  /\ request.at = "sent" =>
       /\ request.scan \in Existing
       /\ request.sel \subseteq jobs[request.scan].found
       /\ request.sel \cap jobs[request.scan].nukable \subseteq request.shown
       /\ request.shown \subseteq jobs[request.scan].nukable

Inv == JobsOK /\ RequestOK /\ view.id \in 0 .. count

-----------------------------------------------------------------------------
(* The registry *)

LEMMA NoJobFields ==
  /\ NoJob \in Rec /\ NoJob.state = "none" /\ NoJob.mode = "none"
  /\ NoJob.found = {} /\ NoJob.nukable = {} /\ NoJob.sel = {} /\ NoJob.shown = {}
BY DEF NoJob, Rec

LEMMA InRange == JobsOK => Existing \subseteq Job /\ count \in Nat
BY BoundAssumption DEF JobsOK, Existing, Job

LEMMA InitOK == Init => Inv
<1> SUFFICES ASSUME Init PROVE Inv  OBVIOUS
<1>1. count = 0 /\ cur = 1 /\ \A j \in Job : jobs[j] = NoJob  BY DEF Init
<1>2. jobs \in [Job -> Rec]  BY NoJobFields DEF Init
<1>3. JobsOK
  BY <1>1, <1>2, NoJobFields, BoundAssumption DEF JobsOK, Job, ScanOK, NukeOK
<1>4. RequestOK  BY DEF Init, RequestOK, NoRequest, Req
<1>5. QED  BY <1>1, <1>3, <1>4 DEF Init, Inv, NoView

\* A step that changes states only, and of running scans their findings, keeps
\* what is known of scans and clean-ups.
LEMMA Settled ==
  ASSUME JobsOK, count' = count, cur' = cur, jobs' \in [Job -> Rec],
         \A j \in Job : /\ jobs'[j].mode = jobs[j].mode /\ jobs'[j].sess = jobs[j].sess
                        /\ jobs'[j].regions = jobs[j].regions /\ jobs'[j].types = jobs[j].types
                        /\ jobs'[j].sel = jobs[j].sel /\ jobs'[j].shown = jobs[j].shown
                        /\ jobs[j].state = "none" => jobs'[j] = jobs[j],
         \A j \in Job : jobs[j].mode = "nuke" => jobs'[j].nukable = jobs[j].nukable,
         \A j \in Job : jobs[j].mode = "scan" =>
            /\ jobs'[j].found \subseteq InScope(j) /\ jobs'[j].nukable \subseteq jobs'[j].found
            /\ jobs'[j].state = "running" => jobs'[j].found = {}
  PROVE  JobsOK'
<1>1. \A j \in Job : InScope(j)' = InScope(j)  BY DEF InScope
<1>2. \A j \in Job : ScanOK(j)'
  BY <1>1 DEF JobsOK, ScanOK, Running
<1>3. ASSUME NEW j \in Job PROVE NukeOK(j)'
  <2>1. CASE jobs[j].mode = "nuke"
    <3>1. Covered(j)  BY <2>1 DEF JobsOK, NukeOK
    <3>2. PICK k \in Existing : /\ jobs[k].mode = "scan" /\ jobs[k].sess = jobs[j].sess
                                /\ jobs[j].regions \subseteq jobs[k].regions
                                /\ jobs[j].types \subseteq jobs[k].types
      BY <3>1 DEF Covered
    <3>3. k \in Job /\ k \in Existing'  BY BoundAssumption DEF JobsOK, Existing, Job
    <3>4. Covered(j)'  BY <1>1, <3>1, <3>2, <3>3 DEF Covered
    <3>5. QED  BY <2>1, <3>4 DEF JobsOK, NukeOK
  <2>2. QED  BY <2>1 DEF NukeOK
<1>4. \A j \in Job : IF j > count' THEN jobs'[j] = NoJob ELSE jobs'[j].mode # "none"
  BY NoJobFields DEF JobsOK
<1>5. QED  BY <1>2, <1>3, <1>4 DEF JobsOK

\* What was true of a request stays true when only a running scan's findings
\* change: of such a scan nothing was sent.
LEMMA RequestKept ==
  ASSUME Inv, request' = request, Existing \subseteq Existing',
         \A j \in Existing : \/ jobs'[j].found = jobs[j].found /\ jobs'[j].nukable = jobs[j].nukable
                             \/ jobs[j].found = {} /\ jobs[j].nukable = {}
  PROVE  RequestOK'
BY DEF Inv, RequestOK, JobsOK

\* Nothing of the registry changes.
LEMMA Quiet ==
  ASSUME Inv, UNCHANGED <<jobs, count>>, cur' \in Nat PROVE JobsOK'
BY DEF Inv, JobsOK, ScanOK, NukeOK, Covered, InScope, Existing, Running

LEMMA QuietRequest ==
  ASSUME Inv, UNCHANGED <<jobs, count, request>> PROVE RequestOK'
BY DEF Inv, RequestOK, Existing

\* Scan j ends with state s; it found F, of which N can be deleted.
Publishes(j, s, F, N) ==
  /\ F \subseteq InScope(j) /\ N \subseteq F
  /\ jobs' = [jobs EXCEPT ![j].state = s, ![j].found = F, ![j].nukable = N]

LEMMA ScanPublishes ==
  ASSUME NEW j \in Existing, ScanEnds(j)
  PROVE  \E s \in {"succeeded", "failed"}, F \in SUBSET Resource, N \in SUBSET Resource :
           Publishes(j, s, F, N)
<1>1. ASSUME NEW p \in Report, p.found \subseteq InScope(j),
             jobs' = [jobs EXCEPT ![j].state = "succeeded", ![j].found = p.found, ![j].nukable = p.nukable]
      PROVE  Publishes(j, "succeeded", p.found, p.nukable) /\ p.found \subseteq Resource
  BY <1>1, ResourceAssumption DEF Publishes
<1>2. CASE jobs' = [jobs EXCEPT ![j].state = "failed", ![j].found = InScope(j), ![j].nukable = InScope(j)]
  <2>1. Publishes(j, "failed", InScope(j), InScope(j))  BY <1>2 DEF Publishes
  <2>2. InScope(j) \in SUBSET Resource  BY DEF InScope
  <2>3. QED  BY <2>1, <2>2
<1>3. QED  BY <1>1, <1>2 DEF ScanEnds, Publishes

LEMMA ScanEndsStep ==
  ASSUME Inv, NEW j \in Existing, ScanEnds(j) PROVE Inv'
<1> JobsOK /\ j \in Job /\ jobs[j].mode = "scan" /\ jobs[j].state = "running"
  BY InRange DEF Inv, ScanEnds, Running
<1>1. PICK s \in {"succeeded", "failed"}, F \in SUBSET Resource, N \in SUBSET Resource :
        Publishes(j, s, F, N)
  BY ScanPublishes
<1> DEFINE new == [jobs[j] EXCEPT !.state = s, !.found = F, !.nukable = N]
<1>2. new \in Rec
  <2>1. jobs[j] \in Rec  BY DEF JobsOK
  <2>2. s \in {"none", "running"} \cup Terminal  BY DEF Terminal
  <2>3. QED  BY <2>1, <2>2 DEF Rec
<1>3. jobs' = [jobs EXCEPT ![j] = new] /\ jobs' \in [Job -> Rec]
  BY <1>1, <1>2 DEF JobsOK, Publishes
<1>4. \A k \in Job : k # j => jobs'[k] = jobs[k]  BY <1>1 DEF JobsOK, Publishes
<1>5. /\ jobs'[j].mode = "scan" /\ jobs'[j].state = s /\ jobs'[j].found = F /\ jobs'[j].nukable = N
      /\ jobs'[j].sess = jobs[j].sess /\ jobs'[j].regions = jobs[j].regions
      /\ jobs'[j].types = jobs[j].types /\ jobs'[j].sel = jobs[j].sel /\ jobs'[j].shown = jobs[j].shown
  BY <1>1 DEF JobsOK, Rec, Publishes
<1>6. JobsOK'
  <2>1. \A k \in Job : jobs'[k].mode = jobs[k].mode /\ jobs'[k].sess = jobs[k].sess
                       /\ jobs'[k].regions = jobs[k].regions /\ jobs'[k].types = jobs[k].types
                       /\ jobs'[k].sel = jobs[k].sel /\ jobs'[k].shown = jobs[k].shown
    BY <1>4, <1>5
  <2>2. \A k \in Job : jobs[k].state = "none" => jobs'[k] = jobs[k]  BY <1>4
  <2>3. \A k \in Job : jobs[k].mode = "nuke" => jobs'[k].nukable = jobs[k].nukable  BY <1>4
  <2>4. \A k \in Job : jobs[k].mode = "scan" =>
           /\ jobs'[k].found \subseteq InScope(k) /\ jobs'[k].nukable \subseteq jobs'[k].found
           /\ jobs'[k].state = "running" => jobs'[k].found = {}
    BY <1>1, <1>4, <1>5 DEF JobsOK, ScanOK, Running, Publishes
  <2>5. count' = count /\ cur' = cur  BY DEF ScanEnds
  <2>6. QED  BY <1>3, <2>1, <2>2, <2>3, <2>4, <2>5, Settled
<1>7. jobs[j].found = {} /\ jobs[j].nukable = {}  BY DEF JobsOK, ScanOK, Running
<1>8. RequestOK'
  <2>1. Existing' = Existing /\ request' = request  BY DEF ScanEnds, Existing, client
  <2>2. QED  BY <1>4, <1>7, <2>1, InRange, RequestKept
<1>9. QED  BY <1>6, <1>8 DEF Inv, ScanEnds, client

\* States change, findings stay.
LEMMA StateStep ==
  ASSUME Inv, NEW S \in SUBSET Job, NEW e \in Terminal,
         \A j \in S : Running(j),
         jobs' = [j \in Job |-> IF j \in S THEN [jobs[j] EXCEPT !.state = e] ELSE jobs[j]],
         UNCHANGED <<count, cur, view, request>>
  PROVE  Inv'
<1>1. ASSUME NEW j \in Job PROVE
        /\ jobs'[j] \in Rec /\ jobs'[j].mode = jobs[j].mode /\ jobs'[j].sess = jobs[j].sess
        /\ jobs'[j].regions = jobs[j].regions /\ jobs'[j].types = jobs[j].types
        /\ jobs'[j].sel = jobs[j].sel /\ jobs'[j].shown = jobs[j].shown
        /\ jobs'[j].found = jobs[j].found /\ jobs'[j].nukable = jobs[j].nukable
        /\ jobs[j].state = "none" => jobs'[j] = jobs[j]
        /\ jobs'[j].state = "running" => jobs[j].state = "running"
  BY DEF Inv, JobsOK, Rec, Running, Terminal
<1>2. jobs' \in [Job -> Rec]  BY <1>1
<1>3. JobsOK'  BY <1>1, <1>2, Settled DEF Inv, JobsOK, ScanOK, Running
<1>4. RequestOK'
  BY <1>1, BoundAssumption, RequestKept DEF Existing, Inv, JobsOK, Job
<1>5. QED  BY <1>3, <1>4 DEF Inv

LEMMA EndsStep ==
  ASSUME Inv, NEW j \in Existing, Ends(j) PROVE Inv'
<1> DEFINE f == IF jobs[j].mode = "scan" THEN "cancelled" ELSE "succeeded"
<1>1. {j} \in SUBSET Job /\ f \in Terminal  BY InRange DEF Inv, Terminal
<1>2. jobs' = [k \in Job |-> IF k \in {j} THEN [jobs[k] EXCEPT !.state = f] ELSE jobs[k]]
  BY <1>1 DEF Ends, Inv, JobsOK
<1>3. (\A k \in {j} : Running(k)) /\ UNCHANGED <<count, cur, view, request>>
  BY DEF Ends, client
<1>4. QED  BY <1>1, <1>2, <1>3, StateStep

LEMMA SessionEndsStep == ASSUME Inv, SessionEnds PROVE Inv'
<1> DEFINE S == {j \in Job : Running(j)}
<1>1. jobs' = [j \in Job |-> IF j \in S THEN [jobs[j] EXCEPT !.state = "cancelled"] ELSE jobs[j]]
  BY DEF SessionEnds
<1>2. QED  BY <1>1, StateStep DEF SessionEnds, client, Terminal

\* A job is admitted; the others keep their records.
LEMMA AdmitStep ==
  ASSUME Inv, count < MaxJobs, NEW new, new = count + 1,
         NEW rec \in Rec, rec.mode \in {"scan", "nuke"},
         rec.found = {}, rec.nukable = {},
         count' = new, cur' = cur, jobs' = [jobs EXCEPT ![new] = rec],
         rec.mode = "scan" => rec.regions # {} /\ rec.sel = {} /\ rec.shown = {},
         rec.mode = "nuke" => rec.sel \subseteq rec.shown /\ Covered(new)'
  PROVE  JobsOK'
<1>1. new \in Job /\ count \in Nat /\ count' \in 0 .. MaxJobs  BY BoundAssumption DEF Inv, JobsOK, Job
<1>2. jobs' \in [Job -> Rec] /\ jobs'[new] = rec /\ \A k \in Job : k # new => jobs'[k] = jobs[k]
  BY <1>1 DEF Inv, JobsOK
<1>3. \A j \in Job : IF j > count' THEN jobs'[j] = NoJob ELSE jobs'[j].mode # "none"
  BY <1>1, <1>2 DEF Inv, JobsOK, Job
<1>4. \A j \in Job : ScanOK(j)'
  BY <1>1, <1>2 DEF Inv, JobsOK, ScanOK, Running, InScope
<1>5. ASSUME NEW j \in Job PROVE NukeOK(j)'
  <2>1. CASE j = new  BY <1>2, <2>1 DEF NukeOK
  <2>2. CASE j # new /\ jobs[j].mode = "nuke"
    <3>1. PICK k \in Existing : /\ jobs[k].mode = "scan" /\ jobs[k].sess = jobs[j].sess
                                /\ jobs[j].regions \subseteq jobs[k].regions
                                /\ jobs[j].types \subseteq jobs[k].types
      BY <2>2 DEF Inv, JobsOK, NukeOK, Covered
    <3>2. k \in Job /\ k # new /\ k \in Existing'  BY <1>1, InRange DEF Existing, Inv
    <3>3. jobs'[k] = jobs[k] /\ jobs'[j] = jobs[j]  BY <1>2, <2>2, <3>2
    <3>4. jobs[j].regions # {} /\ jobs[j].sel \subseteq InScope(j)
          /\ jobs[j].sel \subseteq jobs[j].shown /\ jobs[j].nukable = {}
      BY <2>2 DEF Inv, JobsOK, NukeOK, Covered
    <3>5. InScope(j)' = InScope(j)  BY <3>3 DEF InScope
    <3>6. QED  BY <3>1, <3>2, <3>3, <3>4, <3>5 DEF NukeOK, Covered
  <2>3. QED  BY <1>2, <2>1, <2>2 DEF NukeOK
<1>6. QED  BY <1>1, <1>2, <1>3, <1>4, <1>5 DEF Inv, JobsOK

\* The record of a new scan.
LEMMA StartScanStep == ASSUME Inv, StartScan PROVE Inv'
<1>1. PICK s \in ScanSpec :
        jobs' = [jobs EXCEPT ![count + 1] = [NewJob("scan") EXCEPT !.regions = s.regions, !.types = s.types]]
  BY DEF StartScan
<1> DEFINE rec == [NewJob("scan") EXCEPT !.regions = s.regions, !.types = s.types]
<1>2. s.regions \in SUBSET Region /\ s.regions # {} /\ s.types \in SUBSET Types
  BY ScanSpecAssumption DEF Types
<1>3. rec \in Rec /\ rec.mode = "scan" /\ rec.regions = s.regions /\ rec.sel = {} /\ rec.shown = {}
      /\ rec.found = {} /\ rec.nukable = {}
  BY <1>2 DEF NewJob, NoJob, Rec, Inv, JobsOK
<1>4. JobsOK'  BY <1>1, <1>2, <1>3, AdmitStep DEF StartScan
<1>5. count \in Nat /\ \A k \in Existing : jobs'[k] = jobs[k]
  BY <1>1, InRange DEF Inv, JobsOK, Existing
<1>6. Existing \subseteq Existing'  BY <1>5 DEF Existing, StartScan
<1>7. RequestOK'  BY <1>5, <1>6, RequestKept DEF StartScan
<1>8. view'.id \in 0 .. count'  BY <1>5 DEF Inv, StartScan, Goes, NoView
<1>9. QED  BY <1>4, <1>7, <1>8 DEF Inv

\* The rescan of an accepted request, and that it reaches every selection.
LEMMA CleanUpCovers ==
  ASSUME Inv, Acceptable(request), request.at = "sent"
  PROVE  LET rec == CleanUp(request) scan == request.scan IN
         /\ rec \in Rec /\ rec.mode = "nuke" /\ rec.found = {} /\ rec.nukable = {}
         /\ rec.sel = request.sel /\ rec.shown = request.shown /\ rec.sel \subseteq rec.shown
         /\ rec.sess = jobs[scan].sess /\ jobs[scan].mode = "scan" /\ scan \in Existing
         /\ rec.regions # {} /\ rec.regions \subseteq jobs[scan].regions
         /\ rec.types \subseteq jobs[scan].types
         /\ \A r \in rec.sel : /\ r \in Resource /\ TypeOf[r] \in rec.types
                               /\ RegionOf[r] \in rec.regions \cup {Global}
<1> DEFINE scan == request.scan
           R == NeededRegions(request)
           T == NeededTypes(request)
<1>1. /\ scan \in Existing /\ scan \in Job /\ jobs[scan].mode = "scan" /\ jobs[scan].sess = cur
      /\ request.sel \subseteq jobs[scan].found /\ request.sel \subseteq jobs[scan].nukable
  BY InRange DEF Acceptable, Found, Inv
<1>2. /\ jobs[scan].regions # {} /\ jobs[scan].regions \subseteq Region /\ jobs[scan].types \subseteq Types
      /\ jobs[scan].found \subseteq InScope(scan)
  BY <1>1 DEF Inv, JobsOK, ScanOK, Rec
<1>3. R # {} /\ R \subseteq jobs[scan].regions /\ T \subseteq jobs[scan].types
  BY <1>2 DEF NeededRegions, NeededTypes
<1>4. ASSUME NEW r \in request.sel
      PROVE  r \in Resource /\ TypeOf[r] \in T /\ RegionOf[r] \in R \cup {Global}
  <2>1. r \in Resource /\ TypeOf[r] \in jobs[scan].types /\ RegionOf[r] \in jobs[scan].regions \cup {Global}
    BY <1>1, <1>2 DEF InScope
  <2>2. TypeOf[r] \in T  BY <2>1 DEF NeededTypes
  <2>3. RegionOf[r] # Global => RegionOf[r] \in R  BY <2>1 DEF NeededRegions
  <2>4. QED  BY <2>1, <2>2, <2>3
<1>5. request.sel \subseteq request.shown /\ request.sel \subseteq Resource /\ request.shown \subseteq Resource
  BY <1>1 DEF Inv, RequestOK, Req
<1> DEFINE rec == CleanUp(request)
<1>6. /\ rec.mode = "nuke" /\ rec.found = {} /\ rec.nukable = {} /\ rec.regions = R /\ rec.types = T
      /\ rec.sel = request.sel /\ rec.shown = request.shown /\ rec.sess = cur
  BY DEF CleanUp, NewJob, NoJob
<1>7. rec \in Rec
  BY <1>2, <1>3, <1>5 DEF CleanUp, NewJob, NoJob, Rec, Inv, JobsOK
<1>8. QED  BY <1>1, <1>3, <1>4, <1>5, <1>6, <1>7

LEMMA ServeNukeStep == ASSUME Inv, ServeNuke PROVE Inv'
<1>1. view' = view /\ cur' = cur  BY DEF ServeNuke
<1>2. request.at = "sent" /\ request' \in Req /\ request'.at # "sent"
  <2>1. request \in Req /\ count + 1 \in Nat  BY InRange DEF Inv, RequestOK
  <2>2. ASSUME NEW a \in {"started", "refused", "gone"}, NEW j \in Nat, Reply(a, j)
        PROVE  request' \in Req /\ request'.at # "sent"
    BY <2>1, <2>2 DEF Reply, Req
  <2>3. Reply("started", count + 1) \/ Reply("refused", 0) \/ Reply("gone", 0)  BY DEF ServeNuke
  <2>4. QED  BY <2>1, <2>2, <2>3 DEF ServeNuke
<1>3. RequestOK'  BY <1>2 DEF RequestOK
<1>4. CASE UNCHANGED <<jobs, count>>
  BY <1>1, <1>3, <1>4, Quiet DEF Inv, JobsOK
<1>5. CASE ~UNCHANGED <<jobs, count>>
  <2> DEFINE rec == CleanUp(request)
  <2>0. PICK new : new = count + 1  OBVIOUS
  <2>1. Acceptable(request) /\ count < MaxJobs /\ count' = new /\ jobs' = [jobs EXCEPT ![new] = rec]
    BY <1>5, <2>0 DEF ServeNuke
  <2>2. count \in Nat /\ new \in Job /\ new \notin Existing  BY <2>0, <2>1, InRange, BoundAssumption DEF Inv, Job, Existing
  <2>3. jobs'[new] = rec /\ \A k \in Existing : jobs'[k] = jobs[k] /\ k \in Existing'
    BY <2>0, <2>1, <2>2, InRange DEF Inv, JobsOK, Existing
  <2>4. Covered(new)'
    <3>1. PICK k \in Existing : jobs[k].mode = "scan" /\ rec.sess = jobs[k].sess
                               /\ rec.regions \subseteq jobs[k].regions /\ rec.types \subseteq jobs[k].types
      BY <1>2, <2>1, CleanUpCovers
    <3>2. rec.regions # {} /\ \A r \in rec.sel : /\ r \in Resource /\ TypeOf[r] \in rec.types
                                                 /\ RegionOf[r] \in rec.regions \cup {Global}
      BY <1>2, <2>1, CleanUpCovers
    <3>3. rec.sel \subseteq InScope(new)'  BY <2>1, <2>2, <2>3, <3>2 DEF InScope
    <3>4. QED  BY <2>1, <2>2, <2>3, <3>1, <3>2, <3>3 DEF Covered
  <2>5. JobsOK'  BY <1>1, <1>2, <2>0, <2>1, <2>4, AdmitStep, CleanUpCovers
  <2>6. QED  BY <1>1, <1>3, <2>0, <2>1, <2>2, <2>5, InRange DEF Inv
<1>6. QED  BY <1>4, <1>5

-----------------------------------------------------------------------------
(* The pages *)

\* What the pages do on their own.
LEMMA PageStep ==
  ASSUME Inv, UNCHANGED <<jobs, count, request>>, cur' \in Nat,
         view' = view \/ view'.id = 0
  PROVE  Inv'
<1>1. view'.id \in 0 .. count'  BY DEF Inv, JobsOK
<1>2. QED  BY <1>1, Quiet, QuietRequest DEF Inv

LEMMA GoesView == ASSUME NEW p, NEW j, Goes(p, j) PROVE view' = view \/ view'.id = 0
BY DEF Goes, NoView

LEMMA ShownStep == ASSUME Inv, Shown PROVE Inv'
<1>1. view'.id = param /\ param \in Existing /\ UNCHANGED <<jobs, count, cur, request>>
  BY DEF Shown, Found, server
<1>2. view'.id \in 0 .. count'  BY <1>1, InRange DEF Existing, Inv
<1>3. QED  BY <1>1, <1>2, Quiet, QuietRequest DEF Inv, JobsOK

\* The request that the dialog sends names the scan that the page shows.
LEMMA ConfirmStep == ASSUME Inv, Confirm PROVE Inv'
<1>1. view.id \in Existing /\ view.id \in Job /\ view.id \in Nat
  BY InRange DEF Confirm, Reporting, Inv, Existing
<1>2. jobs[view.id].found \subseteq Resource /\ jobs[view.id].nukable \subseteq Resource
  BY <1>1 DEF Inv, JobsOK, Rec
<1>3. /\ request' = [at |-> "sent", scan |-> view.id, sel |-> Listed \cap selected,
                     shown |-> Marked, job |-> 0]
      /\ UNCHANGED <<jobs, count, cur, view>>
  BY DEF Confirm, server
<1>4. request' \in Req  BY <1>1, <1>2, <1>3 DEF Req, Listed, Marked, Deletable
<1>5. RequestOK'
  BY <1>1, <1>3, <1>4 DEF RequestOK, Listed, Marked, Deletable, Existing
<1>6. JobsOK'  BY <1>3, Quiet DEF Inv, JobsOK
<1>7. QED  BY <1>3, <1>5, <1>6 DEF Inv

LEMMA AnsweredStep == ASSUME Inv, Answered PROVE Inv'
<1>1. UNCHANGED <<jobs, count, cur>> /\ request' = NoRequest  BY DEF Answered, server
<1>2. view' = view \/ view'.id = 0  BY GoesView DEF Answered, Expires
<1>3. view'.id \in 0 .. count'  BY <1>1, <1>2 DEF Inv, JobsOK
<1>4. RequestOK'  BY <1>1 DEF RequestOK, NoRequest, Req
<1>5. JobsOK'  BY <1>1, Quiet DEF Inv, JobsOK
<1>6. QED  BY <1>3, <1>4, <1>5 DEF Inv

\* The steps of the pages and of signing in that leave the registry and the
\* request alone.
Browsing ==
  \/ \E j \in Existing, p \in {"scan", "review", "clean"} : Open(p, j)
  \/ ToReview \/ Leave \/ ShowFails
  \/ \E S \in SUBSET Resource : Select(S)
  \/ Clear \/ SignIn \/ SignInElsewhere \/ UNCHANGED vars

LEMMA BrowsingQuiet ==
  ASSUME Inv, Browsing
  PROVE  UNCHANGED <<jobs, count, request>> /\ cur' \in Nat /\ (view' = view \/ view'.id = 0)
<1> cur \in Nat  BY DEF Inv, JobsOK
<1>1. ASSUME NEW j \in Existing, NEW p \in {"scan", "review", "clean"}, Open(p, j)
      PROVE  UNCHANGED <<jobs, count, cur, request>> /\ (view' = view \/ view'.id = 0)
  BY <1>1, GoesView DEF Open, server
<1>2. CASE ToReview  BY <1>2, GoesView DEF ToReview, server
<1>3. CASE Leave  BY <1>3, GoesView DEF Leave, server
<1>4. CASE ShowFails  BY <1>4, GoesView DEF ShowFails, Expires, server
<1>5. ASSUME NEW S \in SUBSET Resource, Select(S)
      PROVE  UNCHANGED <<jobs, count, cur, request, view>>
  BY <1>5 DEF Select, server
<1>6. CASE Clear  BY <1>6 DEF Clear, server
<1>7. CASE SignIn \/ SignInElsewhere  BY <1>7 DEF SignIn, SignInElsewhere, client
<1>8. CASE UNCHANGED vars  BY <1>8 DEF vars, server, client
<1>9. QED  BY <1>1, <1>2, <1>3, <1>4, <1>5, <1>6, <1>7, <1>8 DEF Browsing

\* Every step is one of the registry, of the request, or browsing.
LEMMA StepCases ==
  ASSUME [Next]_vars
  PROVE  \/ \E j \in Existing : ScanEnds(j) \/ Ends(j)
         \/ SessionEnds \/ ServeNuke \/ StartScan \/ Shown \/ Confirm \/ Answered
         \/ Browsing
BY DEF Next, Browsing

LEMMA InvStep == Inv /\ [Next]_vars => Inv'
<1> SUFFICES ASSUME Inv, [Next]_vars PROVE Inv'  OBVIOUS
<1>1. ASSUME NEW j \in Existing, ScanEnds(j) \/ Ends(j) PROVE Inv'
  BY <1>1, ScanEndsStep, EndsStep
<1>2. CASE SessionEnds  BY <1>2, SessionEndsStep
<1>3. CASE ServeNuke  BY <1>3, ServeNukeStep
<1>4. CASE StartScan  BY <1>4, StartScanStep
<1>5. CASE Shown  BY <1>5, ShownStep
<1>6. CASE Confirm  BY <1>6, ConfirmStep
<1>7. CASE Answered  BY <1>7, AnsweredStep
<1>8. CASE Browsing  BY <1>8, BrowsingQuiet, PageStep
<1>9. QED  BY <1>1, <1>2, <1>3, <1>4, <1>5, <1>6, <1>7, <1>8, StepCases

\* The rescan of every clean-up covers the resources confirmed, within the spec
\* of a scan of the same session (ScopeCoversSelection, handlers.go:297-316).
THEOREM RescanCovers == Spec => []ScopeCoversSelection
<1>1. Inv => ScopeCoversSelection
  BY InRange DEF Inv, JobsOK, NukeOK, Covered, ScopeCoversSelection
<1>2. QED  BY <1>1, InitOK, InvStep, PTL DEF Spec

-----------------------------------------------------------------------------
(* The refinement *)

Done == {k \in Job : jobs[k].state = "succeeded"}
Ds == UNION {jobs[j].nukable : j \in Done}
Cs == UNION {jobs[j].shown : j \in Job}
Xs == UNION {jobs[j].sel : j \in Done}

\* No step of the registry or the pages takes a finished job's state away.
LEMMA SameDone ==
  ASSUME Inv, \A j \in Job : /\ jobs'[j].nukable = jobs[j].nukable /\ jobs'[j].shown = jobs[j].shown
                             /\ jobs'[j].sel = jobs[j].sel
                             /\ (jobs'[j].state = "succeeded") <=> (jobs[j].state = "succeeded")
  PROVE  Ds' = Ds /\ Cs' = Cs /\ Xs' = Xs
<1>1. Done' = Done  BY DEF Done
<1>2. Ds' = Ds  BY <1>1 DEF Ds, Done
<1>3. Cs' = Cs  BY DEF Cs
<1>4. Xs' = Xs  BY <1>1 DEF Xs, Done
<1>5. QED  BY <1>2, <1>3, <1>4

LEMMA FindingsRefine ==
  ASSUME Inv, NEW j \in Existing, ScanEnds(j)
  PROVE  Cs' = Cs /\ Xs' = Xs /\ \E S \in SUBSET Resource : Ds' = Ds \cup S
<1> JobsOK /\ j \in Job /\ jobs[j].mode = "scan" /\ jobs[j].state = "running"
  BY InRange DEF Inv, ScanEnds, Running
<1>1. PICK s \in {"succeeded", "failed"}, F \in SUBSET Resource, N \in SUBSET Resource :
        Publishes(j, s, F, N)
  BY ScanPublishes
<1>2. \A k \in Job : k # j => jobs'[k] = jobs[k]  BY <1>1 DEF JobsOK, Publishes
<1>3. jobs'[j].state = s /\ jobs'[j].nukable = N /\ jobs'[j].sel = {} /\ jobs'[j].shown = {}
      /\ jobs[j].sel = {} /\ jobs[j].shown = {}
  BY <1>1 DEF JobsOK, Rec, Publishes, ScanOK
<1>4. Cs' = Cs  BY <1>2, <1>3 DEF Cs
<1>5. CASE s = "failed"
  <2>1. Done' = Done  BY <1>2, <1>3, <1>5 DEF Done
  <2>2. j \notin Done  BY DEF Done
  <2>3. Ds' = Ds /\ Xs' = Xs  BY <1>2, <2>1, <2>2 DEF Ds, Xs, Done
  <2>4. Ds' = Ds \cup {} /\ {} \in SUBSET Resource  BY <2>3
  <2>5. QED  BY <1>4, <2>3, <2>4
<1>6. CASE s = "succeeded"
  <2>1. Done' = Done \cup {j} /\ j \notin Done  BY <1>2, <1>3, <1>6 DEF Done
  <2>2. Ds' = Ds \cup N  BY <1>2, <1>3, <2>1 DEF Ds, Done
  <2>3. Xs' = Xs  BY <1>2, <1>3, <2>1 DEF Xs, Done
  <2>4. QED  BY <1>4, <2>2, <2>3
<1>7. QED  BY <1>5, <1>6

\* A clean-up that ends deletes what it was confirmed for.
LEMMA EndRefines ==
  ASSUME Inv, NEW j \in Existing, Ends(j)
  PROVE  Ds' = Ds /\ Cs' = Cs /\ \E S \in SUBSET Cs : Xs' = Xs \cup S
<1> JobsOK /\ j \in Job /\ jobs[j].state = "running" /\ jobs[j].mode \in {"scan", "nuke"}
  BY InRange DEF Inv, Ends, Running, JobsOK, Rec, Existing
<1>1. \A k \in Job : /\ jobs'[k].nukable = jobs[k].nukable /\ jobs'[k].sel = jobs[k].sel
                     /\ jobs'[k].shown = jobs[k].shown /\ (k # j => jobs'[k] = jobs[k])
  BY DEF Ends, JobsOK, Rec
<1>2. CASE jobs[j].mode = "scan"
  <2>1. \A k \in Job : (jobs'[k].state = "succeeded") <=> (jobs[k].state = "succeeded")
    BY <1>1, <1>2 DEF Ends, JobsOK, Rec
  <2>2. Ds' = Ds /\ Cs' = Cs /\ Xs' = Xs  BY <1>1, <2>1, SameDone
  <2>3. Xs' = Xs \cup {} /\ {} \in SUBSET Cs  BY <2>2
  <2>4. QED  BY <2>2, <2>3
<1>3. CASE jobs[j].mode = "nuke"
  <2>1. jobs'[j].state = "succeeded"  BY <1>3 DEF Ends, JobsOK, Rec
  <2>2. Done' = Done \cup {j}  BY <1>1, <2>1 DEF Done
  <2>3. jobs[j].nukable = {} /\ jobs[j].sel \subseteq jobs[j].shown  BY <1>3 DEF JobsOK, NukeOK
  <2>4. Ds' = Ds  BY <1>1, <2>2, <2>3 DEF Ds, Done
  <2>5. Cs' = Cs  BY <1>1 DEF Cs
  <2>6. Xs' = Xs \cup jobs[j].sel  BY <1>1, <2>2 DEF Xs, Done
  <2>7. jobs[j].sel \in SUBSET Cs  BY <2>3 DEF Cs
  <2>8. QED  BY <2>4, <2>5, <2>6, <2>7
<1>4. QED  BY <1>2, <1>3

\* A job that is admitted has not deleted anything yet.
LEMMA AdmitRefines ==
  ASSUME Inv, count < MaxJobs, NEW rec, rec.state = "running",
         jobs' = [jobs EXCEPT ![count + 1] = rec]
  PROVE  Ds' = Ds /\ Cs' = Cs \cup rec.shown /\ Xs' = Xs
<1> DEFINE new == count + 1
<1>1. new \in Job /\ jobs[new] = NoJob  BY BoundAssumption DEF Inv, JobsOK, Job
<1>2. jobs'[new] = rec /\ \A k \in Job : k # new => jobs'[k] = jobs[k]  BY <1>1 DEF Inv, JobsOK
<1>3. Done' = Done /\ new \notin Done  BY <1>1, <1>2, NoJobFields DEF Done
<1>4. Ds' = Ds /\ Xs' = Xs  BY <1>2, <1>3 DEF Ds, Xs, Done
<1>5. Cs' = Cs \cup rec.shown  BY <1>1, <1>2, NoJobFields DEF Cs
<1>6. QED  BY <1>4, <1>5

LEMMA ServeRefines ==
  ASSUME Inv, ServeNuke
  PROVE  Ds' = Ds /\ Xs' = Xs /\ \E S \in SUBSET Ds : Cs' = Cs \cup S
<1>1. CASE UNCHANGED <<jobs, count>>
  <2>1. Ds' = Ds /\ Cs' = Cs /\ Xs' = Xs  BY <1>1 DEF Ds, Cs, Xs, Done
  <2>2. Cs' = Cs \cup {} /\ {} \in SUBSET Ds  BY <2>1
  <2>3. QED  BY <2>1, <2>2
<1>2. CASE ~UNCHANGED <<jobs, count>>
  <2>1. request.at = "sent" /\ Acceptable(request) /\ count < MaxJobs
        /\ jobs' = [jobs EXCEPT ![count + 1] = CleanUp(request)]
    BY <1>2 DEF ServeNuke
  <2>2. CleanUp(request).state = "running" /\ CleanUp(request).shown = request.shown
    BY DEF CleanUp, NewJob, NoJob
  <2>3. Ds' = Ds /\ Cs' = Cs \cup request.shown /\ Xs' = Xs
    BY <2>1, <2>2, AdmitRefines
  <2>4. request.scan \in Done  BY <2>1, InRange DEF Acceptable, Found, Inv, Done
  <2>5. request.shown \in SUBSET Ds  BY <2>1, <2>4 DEF Ds, Inv, RequestOK
  <2>6. QED  BY <2>3, <2>5
<1>3. QED  BY <1>1, <1>2

LEMMA SessionRefines ==
  ASSUME Inv, SessionEnds PROVE Ds' = Ds /\ Cs' = Cs /\ Xs' = Xs
<1>1. \A j \in Job : /\ jobs'[j].nukable = jobs[j].nukable /\ jobs'[j].shown = jobs[j].shown
                     /\ jobs'[j].sel = jobs[j].sel
                     /\ (jobs'[j].state = "succeeded") <=> (jobs[j].state = "succeeded")
  BY DEF SessionEnds, Running, Inv, JobsOK, Rec
<1>2. QED  BY <1>1, SameDone

LEMMA StartScanRefines ==
  ASSUME Inv, StartScan PROVE Ds' = Ds /\ Cs' = Cs /\ Xs' = Xs
<1>1. PICK s \in ScanSpec :
        jobs' = [jobs EXCEPT ![count + 1] = [NewJob("scan") EXCEPT !.regions = s.regions, !.types = s.types]]
  BY DEF StartScan
<1> DEFINE rec == [NewJob("scan") EXCEPT !.regions = s.regions, !.types = s.types]
<1>2. rec.state = "running" /\ rec.shown = {}  BY DEF NewJob, NoJob
<1>3. Ds' = Ds /\ Cs' = Cs \cup rec.shown /\ Xs' = Xs  BY <1>1, <1>2, AdmitRefines DEF StartScan
<1>4. QED  BY <1>2, <1>3

\* Each step is one that the promise allows.
Allowed ==
  \/ Cs' = Cs /\ Xs' = Xs /\ \E S \in SUBSET Resource : Ds' = Ds \cup S
  \/ Ds' = Ds /\ Xs' = Xs /\ \E S \in SUBSET Ds : Cs' = Cs \cup S
  \/ Ds' = Ds /\ Cs' = Cs /\ \E S \in SUBSET Cs : Xs' = Xs \cup S
  \/ Ds' = Ds /\ Cs' = Cs /\ Xs' = Xs

LEMMA StepAllowed ==
  ASSUME Inv, [Next]_vars PROVE Allowed
<1>1. ASSUME UNCHANGED jobs PROVE Allowed
  BY <1>1 DEF Allowed, Ds, Cs, Xs, Done
<1>2. ASSUME NEW j \in Existing, ScanEnds(j) PROVE Allowed  BY <1>2, FindingsRefine DEF Allowed
<1>3. ASSUME NEW j \in Existing, Ends(j) PROVE Allowed  BY <1>3, EndRefines DEF Allowed
<1>4. CASE SessionEnds  BY <1>4, SessionRefines DEF Allowed
<1>5. CASE ServeNuke  BY <1>5, ServeRefines DEF Allowed
<1>6. CASE StartScan  BY <1>6, StartScanRefines DEF Allowed
<1>7. CASE Shown \/ Confirm \/ Answered  BY <1>1, <1>7 DEF Shown, Confirm, Answered, server
<1>8. CASE Browsing  BY <1>1, <1>8, BrowsingQuiet
<1>9. QED  BY <1>2, <1>3, <1>4, <1>5, <1>6, <1>7, <1>8, StepCases

\* Whatever is deleted was marked on the page when the user confirmed it, and
\* was deletable in a scan that had finished (ImplementsReview; review.tsx:57-108,
\* handlers.go:240-295).
THEOREM DeletionIsReviewed == Spec => ImplementsReview
<1>1. Init => Promise!Init
  <2> SUFFICES ASSUME Init PROVE Promise!Init  OBVIOUS
  <2>1. \A j \in Job : jobs[j].state = "none" /\ jobs[j].shown = {}
    BY NoJobFields DEF Init
  <2>2. Ds = {} /\ Cs = {} /\ Xs = {}  BY <2>1 DEF Ds, Cs, Xs, Done
  <2>3. QED  BY <2>2 DEF Promise!Init, Ds, Cs, Xs, Done
<1>2. Inv /\ [Next]_vars => [Promise!Scan \/ Promise!Confirm \/ Promise!Delete]_<<Ds, Cs, Xs>>
  <2> SUFFICES ASSUME Inv, [Next]_vars
               PROVE  [Promise!Scan \/ Promise!Confirm \/ Promise!Delete]_<<Ds, Cs, Xs>>
    OBVIOUS
  <2>1. Promise!Scan <=> (\E S \in SUBSET Resource : Ds' = Ds \cup S) /\ Cs' = Cs /\ Xs' = Xs
    BY DEF Promise!Scan, Ds, Cs, Xs, Done
  <2>2. Promise!Confirm <=> (\E S \in SUBSET Ds : Cs' = Cs \cup S) /\ Ds' = Ds /\ Xs' = Xs
    BY DEF Promise!Confirm, Ds, Cs, Xs, Done
  <2>3. Promise!Delete <=> (\E S \in SUBSET Cs : Xs' = Xs \cup S) /\ Ds' = Ds /\ Cs' = Cs
    BY DEF Promise!Delete, Ds, Cs, Xs, Done
  <2>4. QED  BY <2>1, <2>2, <2>3, StepAllowed DEF Allowed
<1>3. QED
  BY <1>1, <1>2, InitOK, InvStep, PTL DEF Spec, ImplementsReview, Promise!Spec, Ds, Cs, Xs, Done
=============================================================================
