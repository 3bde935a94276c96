------------------------------- MODULE JobPage ------------------------------
(***************************************************************************)
(* A job and a page that follows it: the state that JobEvents moves, and    *)
(* when the page shows the job as it is.                                    *)
(***************************************************************************)
EXTENDS Naturals, Sequences, FiniteSets

VARIABLES
  log,      \* Job.events; an event's seq is its index
  agg,      \* the aggregates of the job: found, genErrs, scanned
  ended,    \* the job is terminal
  sub,      \* the stream's handler: its subscription, channel and lastSeq
  wire,     \* messages on their way to the browser: a seq, or 0 for "done"
  es,       \* the page's EventSource
  sync,     \* the page's request for a snapshot, and the answer
  shown,    \* what the page shows
  pending,  \* seqs of the events that wait for the next frame
  drops

\* The message that tells the browser to stop.
Done == 0

-----------------------------------------------------------------------------
\* What the first n events of the log amount to.
Since(n, type) ==
  {i \in 1 .. n : log[i].type = type /\ \A k \in i .. n : log[k].type # "rescan"}

\* However often the page was dropped as slow, disconnected, refused or sent to
\* load a snapshot, it shows exactly the first lastSeq events of the job: none
\* is skipped, applied twice or applied out of order, and the server's
\* aggregates and the page's agree.
PageIsPrefix ==
  /\ shown.lastSeq <= Len(log)
  /\ shown.found  = {log[i].of : i \in Since(shown.lastSeq, "resource_found")}
  /\ shown.errors = Cardinality(Since(shown.lastSeq, "general_error"))

\* sse.go: Last-Event-ID "must win over the ?after= the page baked into the
\* URL, or every event is replayed": no event is sent that the page has had.
NeverReplayed ==
  \A i \in 1 .. Len(wire) : wire[i] # Done => wire[i] > shown.lastSeq /\ wire[i] > es.lastId

\* A snapshot is read after the stream was closed and replaces what waits for a
\* frame (use-job.ts:55-65), so it is never older than what the page shows: the
\* page does not go back, neither in its events nor in the pairs it has counted,
\* and what has ended stays ended.
NeverGoesBack ==
  [][/\ shown'.lastSeq >= shown.lastSeq
     /\ shown'.scanned >= shown.scanned
     /\ shown.ended => shown'.ended]_shown
=============================================================================
