------------------------------ MODULE NukeRun ------------------------------
(***************************************************************************)
(* The worker's clean-up run (internal/engine/run.go, nuke.go, emitter.go):  *)
(* rescan the account, delete what the user confirmed and nothing else,      *)
(* regions in parallel and the global pseudo-region last, resource types of  *)
(* a region in registry order, in batches; report one outcome per confirmed  *)
(* resource.                                                                *)
(*                                                                         *)
(* cloud-nuke is external: what a rescan lists, and what one call of Nuke    *)
(* deletes and answers, is chosen freely within its contract. Somebody else  *)
(* may delete resources of the account at any time, and the run's context   *)
(* may be cancelled at any time (a cancelled job, JOB_TIMEOUT, SIGTERM).     *)
(***************************************************************************)
EXTENDS Naturals, Sequences, FiniteSets

CONSTANTS
  Region, GlobalRegion,  \* the regional regions and the global pseudo-region
  Types,                 \* number of resource types: 1 .. Types, in registry order
  Id,                    \* identifiers; the same one may occur in several regions
  MaxBatch,              \* MaxBatchSize of every type
  Parallelism,           \* regions deleted from at a time
  ListersFail,           \* whether the listing of a type may fail
  MayCancel              \* whether the context may be cancelled

ASSUME RegionAssumption == GlobalRegion \notin Region
ASSUME BoundAssumption  == Types \in Nat /\ MaxBatch \in Nat \ {0} /\ Parallelism \in Nat \ {0}
ASSUME FiniteAssumption == IsFiniteSet(Region) /\ IsFiniteSet(Id)
ASSUME ModeAssumption   == ListersFail \in BOOLEAN /\ MayCancel \in BOOLEAN

Place == Region \cup {GlobalRegion}
Type  == 1 .. Types
Key   == [type : Type, region : Place, id : Id]   \* SelectionKey

VARIABLES
  account,    \* what exists in the account
  confirmed,  \* the selection the user confirmed
  listed,     \* what the rescan returned
  cancelled,  \* the context is done
  phase,      \* where Run stands
  at,         \* per region: where nukeRegionSelected stands
  seen,       \* nukeSelected's seen
  attempted,  \* every key passed to Nuke so far
  reports,    \* per key: the outcomes reported, in order
  summary     \* the Emitter's tallies

vars == <<account, confirmed, listed, cancelled, phase, at, seen, attempted, reports, summary>>

Phases   == {"rescan", "nuke", "global", "report", "end", "completed", "aborted"}
Outcomes == {"deleted", "warned", "failed", "gone"}

\* next: the loop over the types is about to take type `type`; batches: ids of
\* that type are left; nuking: Nuke has been called with `batch`.
Worker  == [place : {"waiting", "next", "batches", "nuking", "returned"},
            type : 1 .. Types + 1, left : SUBSET Id, batch : SUBSET Id]
Waiting == [place |-> "waiting", type |-> 1, left |-> {}, batch |-> {}]

KeyOf(t, r, i) == [type |-> t, region |-> r, id |-> i]

Init ==
  /\ account   \in SUBSET Key
  /\ confirmed \in (SUBSET Key) \ {{}}
  /\ listed    = {}
  /\ cancelled = FALSE
  /\ phase     = "rescan"
  /\ at        = [r \in Place |-> Waiting]
  /\ seen      = {}
  /\ attempted = {}
  /\ reports   = [k \in Key |-> <<>>]
  /\ summary   = [o \in Outcomes |-> 0]

-----------------------------------------------------------------------------
(* Reporting *)

\* What a resource_deleted event says of a resource (Emitter.OnEvent).
Result(success, warning, gone) == [success |-> success, warning |-> warning, gone |-> gone]
Deleted == Result(TRUE, FALSE, FALSE)
Warned  == Result(FALSE, TRUE, FALSE)
Failed  == Result(FALSE, FALSE, FALSE)
Gone    == Result(TRUE, FALSE, TRUE)
Results == {Deleted, Warned, Failed, Gone}

\* Bug: the note is looked at last.
TallySuccessFirst(e) ==
  IF e.success THEN "deleted" ELSE IF e.warning THEN "warned"
  ELSE IF e.gone THEN "gone" ELSE "failed"

\* Emitter.tally: the counter an event goes to.
Tally(e) ==
  IF e.gone THEN "gone" ELSE IF e.success THEN "deleted"
  ELSE IF e.warning THEN "warned" ELSE "failed"

\* The bucket of the same event in the browser (resultKind).
ResultKind(e) ==
  IF e.success THEN IF e.gone THEN "gone" ELSE "deleted"
  ELSE IF e.warning THEN "warned" ELSE "failed"

\* One event per key of `answered` (a function), then one for each key of `rest`.
Emit(answered, rest, e) ==
  /\ reports' = [k \in Key |-> reports[k]
                   \o (IF k \in DOMAIN answered THEN <<answered[k]>> ELSE <<>>)
                   \o (IF k \in rest THEN <<e>> ELSE <<>>)]
  /\ summary' = [o \in Outcomes |-> summary[o]
                   + Cardinality({k \in DOMAIN answered : Tally(answered[k]) = o})
                   + (IF Tally(e) = o THEN Cardinality(rest) ELSE 0)]

-----------------------------------------------------------------------------
(* Run: the rescan *)

\* GetAllResources: every resource of the account, except those of the types
\* whose lister failed, which only costs a general_error event.
Rescan ==
  /\ phase = "rescan" /\ ~cancelled
  /\ \E broken \in IF ListersFail THEN SUBSET (Type \X Place) ELSE {{}} :
       listed' = {k \in account : <<k.type, k.region>> \notin broken}
  /\ phase' = "nuke"
  /\ UNCHANGED <<account, confirmed, cancelled, at, seen, attempted, reports, summary>>

\* It returns an error, or the context is found done: a fatal event.
RescanFails ==
  /\ phase = "rescan"
  /\ phase' = "aborted"
  /\ UNCHANGED <<account, confirmed, listed, cancelled, at, seen, attempted, reports, summary>>

-----------------------------------------------------------------------------
(* nukeRegionSelected, one goroutine per region *)

In(r, place) == at[r].place = place
Put(r, w) == at' = [at EXCEPT ![r] = w]

\* Bug: identifiers are confirmed regardless of the region they were found in.
ChosenAnywhere(t, r) ==
  {i \in Id : KeyOf(t, r, i) \in listed /\ \E k \in confirmed : k.type = t /\ k.id = i}

\* The identifiers of a type found by the rescan that were confirmed.
Chosen(t, r) == {i \in Id : KeyOf(t, r, i) \in listed \cap confirmed}

\* Bug: one step past the end of the list.
MoreTypesOffByOne(r) == at[r].type <= Types + 1

MoreTypes(r) == at[r].type <= Types

\* The next type of the list; a type without confirmed identifiers is skipped.
NextType(r) ==
  LET ids == Chosen(at[r].type, r) IN
  /\ In(r, "next") /\ ~cancelled /\ MoreTypes(r)
  /\ seen' = seen \cup {KeyOf(at[r].type, r, i) : i \in ids}
  /\ Put(r, IF ids = {} THEN [at[r] EXCEPT !.type = at[r].type + 1]
                        ELSE [at[r] EXCEPT !.place = "batches", !.left = ids])
  /\ UNCHANGED <<account, confirmed, listed, cancelled, phase, attempted, reports, summary>>

\* util.Split: every batch but the last has MaxBatchSize identifiers.
FullBatch(b, left) ==
  \/ Cardinality(b) = MaxBatch
  \/ b = left /\ Cardinality(b) < MaxBatch

\* Bug: a batch is started without looking at the context.
StartBatchAnyway(r) ==
  /\ In(r, "batches")
  /\ \E b \in SUBSET at[r].left :
       /\ b # {}
       /\ FullBatch(b, at[r].left)
       /\ attempted' = attempted \cup {KeyOf(at[r].type, r, i) : i \in b}
       /\ Put(r, [at[r] EXCEPT !.place = "nuking", !.left = at[r].left \ b, !.batch = b])
  /\ UNCHANGED <<account, confirmed, listed, cancelled, phase, seen, reports, summary>>

\* The next batch: as many identifiers as MaxBatchSize allows. (The pause after
\* the one before it, shorter or longer, only gives the context time to end.)
StartBatch(r) ==
  /\ In(r, "batches") /\ ~cancelled
  /\ \E b \in SUBSET at[r].left :
       /\ b # {}
       /\ FullBatch(b, at[r].left)
       /\ attempted' = attempted \cup {KeyOf(at[r].type, r, i) : i \in b}
       /\ Put(r, [at[r] EXCEPT !.place = "nuking", !.left = at[r].left \ b, !.batch = b])
  /\ UNCHANGED <<account, confirmed, listed, cancelled, phase, seen, reports, summary>>

\* What one call of Nuke may return for a batch: results for some identifiers
\* and an error; without an error every identifier has its result.
Answers(b) ==
  {a \in [answered : SUBSET b, err : {"none", "warning", "other"}] :
     a.err = "none" => a.answered = b}

\* Bug: the error is reported for identifiers that have a result, too.
UnansweredAll(b, a) == IF a.err = "none" THEN {} ELSE b

\* Who is reported with the bare error of the call.
Unanswered(b, a) == IF a.err = "none" THEN {} ELSE b \ a.answered

\* Bug: the other batches of the type are forgotten.
AfterFirstBatch(w) == [Waiting EXCEPT !.place = "next", !.type = w.type + 1]

\* The next batch of the type, or else the next type.
AfterBatch(w) ==
  IF w.left # {} THEN [w EXCEPT !.place = "batches", !.batch = {}]
  ELSE [Waiting EXCEPT !.place = "next", !.type = w.type + 1]

\* Nuke returns: its results are reported, then its error for the identifiers
\* it returned no result for. What it says is deleted is gone.
NukeReturns(r) ==
  LET Keys(ids) == {KeyOf(at[r].type, r, i) : i \in ids} IN
  /\ In(r, "nuking")
  /\ \E a \in Answers(at[r].batch) :
       \E answered \in [Keys(a.answered) -> {Deleted, Warned, Failed}] :
         /\ Emit(answered, Keys(Unanswered(at[r].batch, a)), IF a.err = "warning" THEN Warned ELSE Failed)
         /\ account' = account \ {k \in Keys(a.answered) : answered[k] = Deleted}
  /\ Put(r, AfterBatch(at[r]))
  /\ UNCHANGED <<confirmed, listed, cancelled, phase, seen, attempted>>

\* Bug: a region whose list is done is not returned from.
ReturnOnCancel(r) ==
  /\ (In(r, "next") \/ In(r, "batches")) /\ cancelled
  /\ Put(r, [at[r] EXCEPT !.place = "returned", !.left = {}])
  /\ UNCHANGED <<account, confirmed, listed, cancelled, phase, seen, attempted, reports, summary>>

\* The list is done, or the context is found done before a type or a batch.
Return(r) ==
  /\ \/ In(r, "next") /\ (cancelled \/ ~MoreTypes(r))
     \/ In(r, "batches") /\ cancelled
  /\ Put(r, [at[r] EXCEPT !.place = "returned", !.left = {}])
  /\ UNCHANGED <<account, confirmed, listed, cancelled, phase, seen, attempted, reports, summary>>

-----------------------------------------------------------------------------
(* nukeSelected *)

Busy == {r \in Region : ~In(r, "waiting") /\ ~In(r, "returned")}

Begin(r) == Put(r, [at[r] EXCEPT !.place = "next"])

\* The errgroup runs at most Parallelism regions at a time.
StartRegion(r) ==
  /\ phase = "nuke" /\ r \in Region /\ In(r, "waiting")
  /\ Cardinality(Busy) < Parallelism
  /\ Begin(r)
  /\ UNCHANGED <<account, confirmed, listed, cancelled, phase, seen, attempted, reports, summary>>

\* Bug: the group is not waited for.
StartGlobalEarly ==
  /\ phase = "nuke"
  /\ \A r \in Region : ~In(r, "waiting")
  /\ phase' = "global"
  /\ Begin(GlobalRegion)
  /\ UNCHANGED <<account, confirmed, listed, cancelled, seen, attempted, reports, summary>>

\* Every regional region has returned: the global one follows. (Without a
\* global resource type the rescan lists nothing there.)
StartGlobal ==
  /\ phase = "nuke"
  /\ \A r \in Region : In(r, "returned")
  /\ phase' = "global"
  /\ Begin(GlobalRegion)
  /\ UNCHANGED <<account, confirmed, listed, cancelled, seen, attempted, reports, summary>>

Unseen == confirmed \ seen

\* What was confirmed but not seen is reported as already gone.
ReportGone ==
  /\ phase = "global" /\ In(GlobalRegion, "returned")
  /\ Emit([k \in {} |-> Gone], Unseen, Gone)
  /\ phase' = "end"
  /\ UNCHANGED <<account, confirmed, listed, cancelled, at, seen, attempted>>

\* Run returns ctx.Err(), or emits the summary, which is all that tells a run
\* with failed deletions from one without.
End ==
  /\ phase = "end"
  /\ phase' = IF cancelled THEN "aborted" ELSE "completed"
  /\ UNCHANGED <<account, confirmed, listed, cancelled, at, seen, attempted, reports, summary>>

-----------------------------------------------------------------------------
(* The environment *)

Cancel ==
  /\ MayCancel /\ ~cancelled
  /\ phase \notin {"completed", "aborted"}
  /\ cancelled' = TRUE
  /\ UNCHANGED <<account, confirmed, listed, phase, at, seen, attempted, reports, summary>>

SomebodyDeletes(k) ==
  /\ k \in account
  /\ account' = account \ {k}
  /\ UNCHANGED <<confirmed, listed, cancelled, phase, at, seen, attempted, reports, summary>>

RegionStep(r) ==
  StartRegion(r) \/ NextType(r) \/ StartBatch(r) \/ NukeReturns(r) \/ Return(r)

Run ==
  Rescan \/ RescanFails \/ StartGlobal \/ ReportGone \/ End

Next ==
  \/ Run
  \/ \E r \in Place : RegionStep(r)
  \/ Cancel
  \/ \E k \in Key : SomebodyDeletes(k)

Spec == Init /\ [][Next]_vars

\* Goroutines are scheduled, and calls to AWS return.
Fairness == WF_vars(Run) /\ \A r \in Place : WF_vars(RegionStep(r))

FairSpec == Spec /\ Fairness

-----------------------------------------------------------------------------
(* What the pages make of it *)

\* The rows of the snapshot: a resource reported twice has two.
Rows == UNION {{k} \X DOMAIN reports[k] : k \in Key}
\* Its status is that of `ResultKind`.
Row(x) == reports[x[1]][x[2]]

\* The tabs of a history record.
By(o) == Cardinality({x \in Rows : ResultKind(Row(x)) = o})

\* entryCounts: the summary's counters, or the rows where there is none, or a 0.
EntryCounts ==
  LET Some(o) == phase = "completed" /\ summary[o] > 0
  IN [o \in Outcomes |->
        IF Some(o) \/ (o = "deleted" /\ Some("gone")) THEN summary[o] ELSE By(o)]

\* The counts in the list of jobs (Job.Brief, briefOf), and on the clean-up page.
Brief ==
  [deleted |-> Cardinality({x \in Rows : Row(x).success}),
   warned  |-> Cardinality({x \in Rows : ~Row(x).success /\ Row(x).warning}),
   failed  |-> Cardinality({x \in Rows : ~Row(x).success /\ ~Row(x).warning})]

Remaining ==
  LET total == Cardinality(confirmed) IN IF total > Cardinality(Rows) THEN total - Cardinality(Rows) ELSE 0

\* The rows shown as pending.
Pending == {k \in confirmed : reports[k] = <<>>}

RegionDone(r) ==
  Cardinality({x \in Rows : x[1].region = r}) >= Cardinality({k \in confirmed : k.region = r})

-----------------------------------------------------------------------------
(* Correctness *)

TypeOK ==
  /\ account \in SUBSET Key /\ confirmed \in SUBSET Key /\ listed \in SUBSET Key
  /\ cancelled \in BOOLEAN /\ phase \in Phases
  /\ at \in [Place -> Worker]
  /\ seen \in SUBSET Key /\ attempted \in SUBSET Key
  /\ reports \in [Key -> Seq(Results)]
  /\ summary \in [Outcomes -> Nat]

\* nukeSelected "deletes only the identifiers in `selected`": nothing that was
\* not confirmed for that very region is passed to Nuke, also when an
\* identifier exists in several regions or types.
OnlyConfirmed == attempted \subseteq confirmed \cap listed

\* Whatever mixture of results and bare errors the calls of Nuke return, a
\* resource is reported at most once, and a run that completes has reported
\* everything that was confirmed and nothing else.
ReportedOnce ==
  \A k \in Key :
    /\ Len(reports[k]) <= 1
    /\ k \notin confirmed => reports[k] = <<>>
    /\ phase = "completed" /\ k \in confirmed => Len(reports[k]) = 1

\* Every place that counts the outcomes agrees with the rows, at every moment of
\* the run: the worker's summary, the history with or without it, the list of
\* jobs, the tiles of the clean-up page, its pending rows and its regions, which
\* are coloured as done when nothing in them is pending (emitter.go:47-70,
\* history.ts:174-196, api.ts:186-191, clean.tsx:84-113).
CountsAgree ==
  /\ \A o \in Outcomes : summary[o] = By(o) /\ EntryCounts[o] = By(o)
  /\ Brief = [deleted |-> By("deleted") + By("gone"), warned |-> By("warned"), failed |-> By("failed")]
  /\ Remaining = Cardinality(Pending)
  /\ \A r \in Place : RegionDone(r) <=> \A k \in Pending : k.region # r
  /\ phase = "completed" => Pending = {}

\* Registry order is dependency-safe only if it is kept: when a resource is
\* passed to Nuke, every confirmed resource of the region's earlier types that
\* the rescan saw has got its answer.
DependenciesFirst ==
  \A k \in attempted : \A d \in listed \cap confirmed :
    d.region = k.region /\ d.type < k.type => reports[d] # <<>>

\* The global pseudo-region last: nothing global (an IAM role, say) is deleted
\* while a region still works.
GlobalLast ==
  (\E k \in attempted : k.region = GlobalRegion) =>
    \A r \in Region : In(r, "returned")

\* Once the context is done no further batch is started, in any region.
CancelStops == [][cancelled => attempted' = attempted]_vars

\* The run ends, cancelled or not.
RunEnds == <>(phase \in {"completed", "aborted"})

-----------------------------------------------------------------------------
(* Claims of the code's comments that do not hold *)

\* AlreadyGone counts "confirmed identifiers that no longer exist": also those
\* of a type whose lister failed, and those a cancelled run never got to.
GoneIsGone == \A k \in account : reports[k] # <<Gone>>
=============================================================================
