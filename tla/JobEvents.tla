----------------------------- MODULE JobEvents -----------------------------
(***************************************************************************)
(* How a page follows a job: the job's event log and its subscriptions      *)
(* (internal/jobs/job.go), the event stream (internal/api/sse.go) and the   *)
(* page's useJob (web/app/lib/use-job.ts).                                  *)
(*                                                                         *)
(* One job that is running, and one page. Actors: the goroutines that       *)
(* publish the worker's events and end the job; the handler of the page's   *)
(* stream, which blocks when the network takes no more; the network; and    *)
(* the page, which loads snapshots, collects the events of its EventSource  *)
(* and applies them once per frame. Handlers of connections the browser has *)
(* given up only cost memory and are left out. The session outlives the     *)
(* page and the job is not reaped meanwhile.                                *)
(***************************************************************************)
EXTENDS Naturals, Sequences, FiniteSets, JobPage

CONSTANTS
  Key,          \* what a found or scan_progress event is about
  MaxEvents,    \* bound on the events of the job
  Slack,        \* room in a subscriber's channel beyond its backlog
  MaxWire,      \* messages in flight before a write blocks
  MaxDrops,     \* bound on connections lost or refused
  SyncMayFail,  \* whether the request for a snapshot may fail
  NoKey

ASSUME BoundAssumption == {MaxEvents, Slack, MaxWire, MaxDrops} \subseteq Nat
ASSUME ModeAssumption  == SyncMayFail \in BOOLEAN /\ NoKey \notin Key

server == <<log, agg, ended>>
client == <<es, sync, shown, pending>>
vars   == <<server, sub, wire, client, drops>>

Event ==
  [type : {"rescan", "general_error"}, of : {NoKey}]
  \cup [type : {"resource_found", "scan_progress"}, of : Key]

Seqs == 1 .. MaxEvents

\* stream: in the select loop; resume: the channel was closed, the job was not
\* terminal; over: the handler has returned.
Subs == [at : {"stream", "resume", "over"}, live : BOOLEAN, closed : BOOLEAN,
         chan : Seq(Seqs), cap : Nat, lastSeq : 0 .. MaxEvents]
NoSub == [at |-> "over", live |-> FALSE, closed |-> TRUE, chan |-> <<>>, cap |-> 0, lastSeq |-> 0]

Aggregates == [found : SUBSET Key, errors : 0 .. MaxEvents, scanned : SUBSET Key]

\* after is what the page put into the URL; lastId is what the browser sends as
\* Last-Event-ID when it reconnects, 0 if no event has arrived yet.
Sources  == [at : {"none", "connecting", "open"}, after : 0 .. MaxEvents, lastId : 0 .. MaxEvents]
NoSource == [at |-> "none", after |-> 0, lastId |-> 0]

\* scanned is the counter the page shows, pairs useJob's own set.
Pages == [loaded : BOOLEAN, ended : BOOLEAN, lastSeq : 0 .. MaxEvents, found : SUBSET Key,
          errors : 0 .. MaxEvents, scanned : Nat, pairs : SUBSET Key]
Blank == [loaded |-> FALSE, ended |-> FALSE, lastSeq |-> 0, found |-> {}, errors |-> 0,
          scanned |-> 0, pairs |-> {}]

Syncs == [at : {"idle", "asked", "answered", "failed"}, job : Pages]
Asked == [at |-> "asked", job |-> Blank]

Init ==
  /\ log = <<>> /\ ended = FALSE
  /\ agg = [found |-> {}, errors |-> 0, scanned |-> {}]
  /\ sub = NoSub /\ wire = <<>>
  /\ es = NoSource /\ sync = Asked /\ shown = Blank /\ pending = <<>>
  /\ drops = 0

-----------------------------------------------------------------------------
(* The job: Publish, setState, Subscribe *)

\* Job.aggregate.
Aggregate(a, e) ==
  CASE e.type = "rescan"         -> [a EXCEPT !.found = {}, !.errors = 0]
    [] e.type = "scan_progress"  -> [a EXCEPT !.scanned = @ \cup {e.of}]
    [] e.type = "resource_found" -> [a EXCEPT !.found = @ \cup {e.of}]
    [] e.type = "general_error"  -> [a EXCEPT !.errors = @ + 1]

\* Bug: a slow subscriber is dropped, but its channel stays open.
FanOutForget(seq) ==
  IF ~sub.live THEN sub
  ELSE IF Len(sub.chan) < sub.cap THEN [sub EXCEPT !.chan = Append(@, seq)]
  ELSE [sub EXCEPT !.live = FALSE]

\* A subscriber whose channel is full is dropped.
FanOut(seq) ==
  IF ~sub.live THEN sub
  ELSE IF Len(sub.chan) < sub.cap THEN [sub EXCEPT !.chan = Append(@, seq)]
  ELSE [sub EXCEPT !.live = FALSE, !.closed = TRUE]

\* Run announces a rescan before it reports anything.
Publish(e) ==
  /\ ~ended /\ Len(log) < MaxEvents
  /\ e.type = "rescan" => log = <<>>
  /\ log' = Append(log, e)
  /\ agg' = Aggregate(agg, e)
  /\ sub' = FanOut(Len(log'))
  /\ UNCHANGED <<ended, wire, client, drops>>

\* setState with a terminal state closes the subscribers' channels.
EndJob ==
  /\ ~ended
  /\ ended' = TRUE
  /\ sub' = IF sub.live THEN [sub EXCEPT !.live = FALSE, !.closed = TRUE] ELSE sub
  /\ UNCHANGED <<log, agg, wire, client, drops>>

AllSeqs == [i \in 1 .. Len(log) |-> i]

\* Bug: the first event after the one acknowledged is skipped.
BacklogOffByOne(after) ==
  IF after > 0 THEN SubSeq(AllSeqs, after + 2, Len(log)) ELSE AllSeqs

\* The seqs Subscribe replays.
Backlog(after) ==
  IF after > 0 /\ after <= Len(log) THEN SubSeq(AllSeqs, after + 1, Len(log)) ELSE AllSeqs

Subscribe(after) ==
  sub' = [at |-> "stream", live |-> ~ended, closed |-> ended, chan |-> Backlog(after),
          cap |-> Len(Backlog(after)) + Slack, lastSeq |-> after]

-----------------------------------------------------------------------------
(* The stream's handler *)

\* Bug: the page's ?after= wins over Last-Event-ID.
ResumeFromUrl == es.after

ResumeFrom == IF es.lastId > 0 THEN es.lastId ELSE es.after

\* The request of the EventSource arrives.
Connect ==
  /\ es.at = "connecting"
  /\ es' = [es EXCEPT !.at = "open"]
  /\ Subscribe(ResumeFrom)
  /\ UNCHANGED <<server, wire, sync, shown, pending, drops>>

Send ==
  /\ sub.at = "stream" /\ sub.chan # <<>> /\ Len(wire) < MaxWire
  /\ wire' = Append(wire, Head(sub.chan))
  /\ sub'  = [sub EXCEPT !.chan = Tail(@), !.lastSeq = Head(sub.chan)]
  /\ UNCHANGED <<server, client, drops>>

\* Bug: a stream that ends says nothing.
ChannelClosedSilently ==
  /\ sub.at = "stream" /\ sub.chan = <<>> /\ sub.closed
  /\ sub' = [sub EXCEPT !.at = IF ended THEN "over" ELSE "resume"]
  /\ UNCHANGED <<server, wire, client, drops>>

\* The channel is drained and closed: "done" if the job is terminal by now.
ChannelClosed ==
  /\ sub.at = "stream" /\ sub.chan = <<>> /\ sub.closed
  /\ \/ ended /\ Len(wire) < MaxWire
        /\ wire' = Append(wire, Done) /\ sub' = [sub EXCEPT !.at = "over"]
     \/ ~ended /\ UNCHANGED wire /\ sub' = [sub EXCEPT !.at = "resume"]
  /\ UNCHANGED <<server, client, drops>>

\* Otherwise it was a slow subscriber, which resumes from what it last sent.
Resubscribe ==
  /\ sub.at = "resume"
  /\ Subscribe(sub.lastSeq)
  /\ UNCHANGED <<server, wire, client, drops>>

-----------------------------------------------------------------------------
(* The network *)

\* The connection breaks; the browser reconnects by itself.
Disconnect ==
  /\ es.at = "open" /\ drops < MaxDrops
  /\ drops' = drops + 1
  /\ es'   = [es EXCEPT !.at = "connecting"]
  /\ sub'  = NoSub
  /\ wire' = <<>>
  /\ UNCHANGED <<server, sync, shown, pending>>

\* Bug: the stream stays open while the snapshot is on its way.
RefuseOpen ==
  /\ es.at = "connecting" /\ drops < MaxDrops
  /\ drops' = drops + 1
  /\ sync'  = Asked
  /\ UNCHANGED <<server, sub, wire, es, shown, pending>>

\* An answer that is no stream closes the EventSource for good: find out why.
Refuse ==
  /\ es.at = "connecting" /\ drops < MaxDrops
  /\ drops' = drops + 1
  /\ es'    = NoSource
  /\ sync'  = Asked
  /\ UNCHANGED <<server, sub, wire, shown, pending>>

-----------------------------------------------------------------------------
(* useJob *)

\* Bug: "done" is collected like an event.
DeliverAny ==
  /\ es.at = "open" /\ wire # <<>>
  /\ wire'    = Tail(wire)
  /\ pending' = Append(pending, Head(wire))
  /\ es'      = [es EXCEPT !.lastId = Head(wire)]
  /\ UNCHANGED <<server, sub, sync, shown, drops>>

Deliver ==
  /\ es.at = "open" /\ wire # <<>> /\ Head(wire) # Done
  /\ wire'    = Tail(wire)
  /\ pending' = Append(pending, Head(wire))
  /\ es'      = [es EXCEPT !.lastId = Head(wire)]
  /\ UNCHANGED <<server, sub, sync, shown, drops>>

DeliverDone ==
  /\ es.at = "open" /\ wire # <<>> /\ Head(wire) = Done
  /\ wire' = <<>> /\ sub' = NoSub
  /\ es'   = NoSource
  /\ sync' = Asked
  /\ UNCHANGED <<server, shown, pending, drops>>

\* What one event changes on the page.
Shown(p, e) ==
  LET pairs == p.pairs \cup {e.of} IN
  CASE e.type = "rescan" ->
         [p EXCEPT !.found = {}, !.errors = 0, !.pairs = {}, !.scanned = 0]
    [] e.type = "scan_progress" ->
         [p EXCEPT !.pairs = pairs,
                   !.scanned = IF Cardinality(pairs) > @ THEN Cardinality(pairs) ELSE @]
    [] e.type = "resource_found" -> [p EXCEPT !.found = @ \cup {e.of}]
    [] e.type = "general_error"  -> [p EXCEPT !.errors = @ + 1]

\* A seq that the page has is skipped as "duplicate from a replay".
ApplyEvent(p, seq) ==
  IF seq <= p.lastSeq THEN p ELSE Shown([p EXCEPT !.lastSeq = seq], log[seq])

\* applyEvents: the first n of the pending events, in order.
Applied[n \in 0 .. Len(pending)] ==
  IF n = 0 THEN shown ELSE ApplyEvent(Applied[n - 1], pending[n])

\* The next frame: everything that is pending is applied in one render.
Frame ==
  /\ pending # <<>>
  /\ shown'   = IF shown.loaded THEN Applied[Len(pending)] ELSE shown
  /\ pending' = <<>>
  /\ UNCHANGED <<server, sub, wire, es, sync, drops>>

\* The server reads the job for GET /api/jobs/{id} (Snapshot).
SyncServed ==
  /\ sync.at = "asked"
  /\ sync' = [at  |-> "answered",
              job |-> [loaded |-> TRUE, ended |-> ended, lastSeq |-> Len(log), found |-> agg.found,
                       errors |-> agg.errors, scanned |-> Cardinality(agg.scanned), pairs |-> {}]]
  /\ UNCHANGED <<server, sub, wire, es, shown, pending, drops>>

\* The page shows the snapshot; it opens a stream from there if the job runs.
SyncApply ==
  /\ sync.at = "answered"
  /\ shown'   = [sync.job EXCEPT !.pairs = shown.pairs]
  /\ pending' = <<>>
  /\ es'      = IF sync.job.ended THEN NoSource
                ELSE [at |-> "connecting", after |-> sync.job.lastSeq, lastId |-> 0]
  /\ sync'    = [Asked EXCEPT !.at = "idle"]
  /\ UNCHANGED <<server, sub, wire, drops>>

\* The request fails: the page shows the error from then on.
SyncFails ==
  /\ SyncMayFail /\ sync.at \in {"asked", "answered"}
  /\ sync' = [Asked EXCEPT !.at = "failed"]
  /\ UNCHANGED <<server, sub, wire, es, shown, pending, drops>>

-----------------------------------------------------------------------------
Handler == Send \/ ChannelClosed \/ Resubscribe
Network == Connect \/ Deliver \/ DeliverDone
SyncStep == SyncServed \/ SyncApply

Next ==
  \/ \E e \in Event : Publish(e)
  \/ EndJob
  \/ Handler \/ Network \/ Disconnect \/ Refuse
  \/ Frame \/ SyncStep \/ SyncFails

Spec == Init /\ [][Next]_vars

\* The handler's goroutine is scheduled, the network delivers and the browser
\* reconnects (Disconnect and Refuse happen MaxDrops times at most), frames are
\* drawn and requests answered. The job need not produce anything or end.
FairSpec ==
  Spec /\ WF_vars(Handler) /\ WF_vars(Network) /\ WF_vars(Frame) /\ WF_vars(SyncStep)

-----------------------------------------------------------------------------
(* Correctness *)

TypeOK ==
  /\ log \in Seq(Event) /\ agg \in Aggregates /\ ended \in BOOLEAN
  /\ sub \in Subs /\ wire \in Seq(Seqs \cup {Done})
  /\ es \in Sources /\ sync \in Syncs /\ shown \in Pages /\ pending \in Seq(Seqs)
  /\ drops \in 0 .. MaxDrops

ShowsError == sync.at = "failed"

\* Whatever the job produces reaches the page while the job runs, also when
\* the page's stream could not keep up, unless the page says that it failed.
EventsArrive == \A n \in Seqs : Len(log) >= n ~> shown.lastSeq >= n \/ ShowsError

\* When the job has ended the page ends up with the final state and every
\* event, or with the error of a failed request: it never waits silently.
PageSettles == ended ~> (shown.ended /\ shown.lastSeq = Len(log)) \/ ShowsError

-----------------------------------------------------------------------------
(* A claim of the code's comments that does not hold *)

\* Snapshot.Scanned: "type x region pairs scanned so far". The page's own set
\* starts empty, also when the snapshot it loaded counts some pairs already.
ScannedIsCounted ==
  shown.scanned = Cardinality({log[i].of : i \in Since(shown.lastSeq, "scan_progress")})
=============================================================================
