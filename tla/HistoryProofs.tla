--------------------------- MODULE HistoryProofs ---------------------------
(***************************************************************************)
(* Theorems about HistoryTracker, for any number of jobs, pages and upsets.  *)
(* The invariant is about the queue of history operations: each operation    *)
(* that is queued is waited for by the place it was queued at, and no two of *)
(* them are waited for by the same one. Further down, theorems about         *)
(* JobEvents: a page shows a prefix of the job's log, nothing twice.         *)
(***************************************************************************)
EXTENDS HistoryTracker, JobPage, TLAPS, FiniteSetTheorems, WellFoundedInduction

\* Which operations are queued at all.
Queued(o) ==
  /\ o \in Ops
  /\ o.op \in {"get", "save", "delete"} => o.job \in Job
  /\ o.op = "save" => o.what \in {"placeholder", "final"}
  /\ o.op = "lost" => o.by = "refresh"
  /\ o.what = "final" => o.op = "save" /\ o.by \in {"record", "page"}
  /\ o.by = "refresh" => o.op \in {"get", "save", "lost"}
  /\ o.by = "record" => o.op = "get" \/ o.what = "final"

\* Who awaits the operation, and what it has to do with what is saved.
Waits(o) ==
  /\ o.by = "refresh" =>
       refresh.at = IF o.op = "get" THEN "look" ELSE IF o.op = "save" THEN "placing" ELSE "losing"
  /\ o.by = "record" => record[o.job] = IF o.op = "get" THEN "look" ELSE "saving"
  /\ o.what = "final" => /\ o.job \in saved \ had
                         /\ o.by = "page" => record[o.job] = "idle"

\* No two operations of the queue are rivals.
Rivals(o, p) ==
  \/ o.by = "refresh" /\ p.by = "refresh"
  \/ o.job = p.job /\ o.by = "record" /\ p.by = "record"
  \/ o.job = p.job /\ o.what = "final" /\ p.what = "final"

ChainOK ==
  /\ chain \in Seq(Ops)
  /\ \A i \in 1 .. Len(chain) : Queued(chain[i]) /\ Waits(chain[i])
  /\ \A i, k \in 1 .. Len(chain) : Rivals(chain[i], chain[k]) => i = k

RecordOK ==
  \A j \in Job :
    /\ record[j] # "idle" => j \in saved
    /\ record[j] \in {"fetch", "saving"} => entry[j] # "final"
    /\ j \in had => j \in saved /\ record[j] = "idle"

RefreshOK ==
  /\ refresh.at \in {"look", "place", "placing"} => refresh.cur \in Job
  /\ \A j \in old : srv[j] # "none"
  /\ refresh.at \notin {"idle", "list"} => \A j \in old \ Alive : srv[j] = "gone"

Types ==
  /\ srv \in [Job -> Servers] /\ old \in SUBSET Job /\ entry \in [Job -> Entries]
  /\ running \in SUBSET Job /\ seen \in SUBSET Job /\ saved \in SUBSET Job
  /\ refresh \in Refreshes /\ record \in [Job -> Records]
  /\ page \in [Job -> {"none", "asked", "running", "ended"}]
  /\ status \in {"authed", "anonymous"} /\ had \in SUBSET Job
  /\ upsets \in 0 .. MaxUpsets /\ failed \in BOOLEAN

Inv == Types /\ ChainOK /\ RecordOK /\ RefreshOK

-----------------------------------------------------------------------------
(* The queue *)

LEMMA QueueKept ==
  ASSUME ChainOK, chain' = chain,
         \A o : Queued(o) /\ Waits(o) => Waits(o)'
  PROVE  ChainOK'
BY DEF ChainOK

\* An operation is queued that has no rival there.
LEMMA QueueMore ==
  ASSUME ChainOK, NEW o, Queued(o), Queue(o), Waits(o)',
         \A p : Queued(p) /\ Waits(p) => Waits(p)' /\ ~Rivals(p, o)
  PROVE  ChainOK'
<1>1. chain \in Seq(Ops) /\ o \in Ops  BY DEF ChainOK, Queued
<1>2. chain' \in Seq(Ops) /\ Len(chain') = Len(chain) + 1 /\ Len(chain) \in Nat
  BY <1>1 DEF Queue
<1>3. \A i \in 1 .. Len(chain') :
        IF i = Len(chain) + 1 THEN chain'[i] = o ELSE i \in 1 .. Len(chain) /\ chain'[i] = chain[i]
  BY <1>1, <1>2 DEF Queue
<1>4. ASSUME NEW i \in 1 .. Len(chain') PROVE Queued(chain'[i]) /\ Waits(chain[i])'
  <2>1. CASE i = Len(chain) + 1
    <3>1. chain'[i] = o  BY <1>3, <2>1
    <3>2. QED  BY <3>1 DEF Waits
  <2>2. CASE i # Len(chain) + 1
    <3>1. i \in 1 .. Len(chain) /\ chain'[i] = chain[i]  BY <1>3, <2>2
    <3>2. PICK p : p = chain[i]  OBVIOUS
    <3>3. Queued(p) /\ Waits(p)  BY <3>1, <3>2 DEF ChainOK
    <3>4. Waits(p)'  BY <3>3
    <3>5. QED  BY <3>1, <3>2, <3>3, <3>4 DEF Waits
  <2>3. QED  BY <2>1, <2>2
<1>5. ASSUME NEW i \in 1 .. Len(chain'), NEW k \in 1 .. Len(chain'), Rivals(chain'[i], chain'[k])
      PROVE  i = k
  <2>1. \A m \in 1 .. Len(chain) : ~Rivals(chain[m], o) /\ ~Rivals(o, chain[m])
    BY DEF ChainOK, Rivals
  <2>2. CASE i # Len(chain) + 1 /\ k # Len(chain) + 1
    BY <1>3, <1>5, <2>2 DEF ChainOK
  <2>3. CASE i = Len(chain) + 1 /\ k # Len(chain) + 1
    BY <1>3, <1>5, <2>1, <2>3
  <2>4. CASE i # Len(chain) + 1 /\ k = Len(chain) + 1
    BY <1>3, <1>5, <2>1, <2>4
  <2>5. QED  BY <2>2, <2>3, <2>4
<1>6. QED  BY <1>2, <1>4, <1>5 DEF ChainOK

LEMMA SeqOfSet ==
  ASSUME NEW S, IsFiniteSet(S)
  PROVE  /\ SetToSeq(S) \in Seq(S)
         /\ \A i, k \in 1 .. Len(SetToSeq(S)) : SetToSeq(S)[i] = SetToSeq(S)[k] => i = k
<1> DEFINE n == Cardinality(S)
<1>1. n \in Nat /\ ExistsBijection(1 .. n, S)  BY FS_CardinalityType
<1>2. \E f \in [1 .. n -> S] : IsInjective(f)
  BY <1>1 DEF ExistsBijection, Bijection, Injection
<1>3. SetToSeq(S) \in [1 .. n -> S] /\ IsInjective(SetToSeq(S))
  BY <1>2 DEF SetToSeq
<1> HIDE DEF n
<1>4. Len(SetToSeq(S)) = n /\ SetToSeq(S) \in Seq(S)  BY <1>1, <1>3
<1>5. QED  BY <1>3, <1>4 DEF IsInjective

\* Several at once, of which no two are rivals.
LEMMA QueueAll ==
  ASSUME ChainOK, NEW S, IsFiniteSet(S), chain' = chain \o SetToSeq(S),
         \A o \in S : Queued(o) /\ Waits(o)',
         \A o, p \in S : Rivals(o, p) => o = p,
         \A p : Queued(p) /\ Waits(p) => Waits(p)' /\ \A o \in S : ~Rivals(p, o)
  PROVE  ChainOK'
<1> DEFINE q == SetToSeq(S)
           n == Len(chain)
<1>1. q \in Seq(S) /\ \A i, k \in 1 .. Len(q) : q[i] = q[k] => i = k  BY SeqOfSet
<1>2. chain \in Seq(Ops) /\ \A o \in S : o \in Ops  BY DEF ChainOK, Queued
<1> HIDE DEF q
<1>3. q \in Seq(Ops) /\ chain' = chain \o q
  <2>1. \A i \in 1 .. Len(q) : q[i] \in Ops  BY <1>1, <1>2
  <2>2. QED  BY <1>1, <2>1 DEF q
<1>4. chain' \in Seq(Ops) /\ Len(chain') = n + Len(q) /\ n \in Nat /\ Len(q) \in Nat
  BY <1>2, <1>3
<1>5. \A i \in 1 .. Len(chain') :
        IF i <= n THEN i \in 1 .. n /\ chain'[i] = chain[i]
                  ELSE i - n \in 1 .. Len(q) /\ chain'[i] = q[i - n]
  BY <1>2, <1>3, <1>4
<1>6. ASSUME NEW i \in 1 .. Len(chain') PROVE Queued(chain'[i]) /\ Waits(chain[i])'
  <2>1. PICK p : p = chain'[i]  OBVIOUS
  <2>2. CASE i <= n
    <3>1. Queued(p) /\ Waits(p)  BY <1>5, <2>1, <2>2 DEF ChainOK
    <3>2. Waits(p)'  BY <3>1
    <3>3. QED  BY <2>1, <3>1, <3>2 DEF Waits
  <2>3. CASE ~(i <= n)
    <3>1. p \in S  BY <1>1, <1>5, <2>1, <2>3
    <3>2. Queued(p) /\ Waits(p)'  BY <3>1
    <3>3. QED  BY <2>1, <3>2 DEF Waits
  <2>4. QED  BY <2>2, <2>3
<1>7. ASSUME NEW i \in 1 .. Len(chain'), NEW k \in 1 .. Len(chain'), Rivals(chain'[i], chain'[k])
      PROVE  i = k
  <2>1. \A m \in 1 .. n : \A o \in S : ~Rivals(chain[m], o) /\ ~Rivals(o, chain[m])
    BY DEF ChainOK, Rivals
  <2>2. CASE i <= n /\ k <= n
    BY <1>5, <1>7, <2>2 DEF ChainOK
  <2>3. CASE ~(i <= n) /\ k <= n
    <3>1. chain'[i] \in S  BY <1>1, <1>5, <2>3
    <3>2. k \in 1 .. n /\ chain'[k] = chain[k]  BY <1>5, <2>3
    <3>3. QED  BY <1>7, <2>1, <3>1, <3>2
  <2>4. CASE i <= n /\ ~(k <= n)
    <3>1. chain'[k] \in S  BY <1>1, <1>5, <2>4
    <3>2. i \in 1 .. n /\ chain'[i] = chain[i]  BY <1>5, <2>4
    <3>3. QED  BY <1>7, <2>1, <3>1, <3>2
  <2>5. CASE ~(i <= n) /\ ~(k <= n)
    <3>1. i - n \in 1 .. Len(q) /\ k - n \in 1 .. Len(q)
          /\ chain'[i] = q[i - n] /\ chain'[k] = q[k - n]
      BY <1>5, <2>5
    <3>2. q[i - n] \in S /\ q[k - n] \in S  BY <1>1, <3>1
    <3>3. q[i - n] = q[k - n]  BY <1>7, <3>1, <3>2
    <3>4. i - n = k - n  BY <1>1, <3>1, <3>3
    <3>5. QED  BY <1>4, <3>4
  <2>6. QED  BY <2>2, <2>3, <2>4, <2>5
<1>8. QED  BY <1>4, <1>6, <1>7 DEF ChainOK

\* The operation at the head is taken off; its rivals were not there.
LEMMA QueueLess ==
  ASSUME ChainOK, chain # <<>>, chain' = Tail(chain),
         \A p : Queued(p) /\ Waits(p) /\ ~Rivals(Head(chain), p) => Waits(p)'
  PROVE  ChainOK'
<1>1. chain \in Seq(Ops) /\ Len(chain) \in Nat /\ Len(chain) > 0 /\ Head(chain) = chain[1]
  BY DEF ChainOK
<1>2. chain' \in Seq(Ops) /\ Len(chain') = Len(chain) - 1
      /\ \A i \in 1 .. Len(chain') : chain'[i] = chain[i + 1] /\ i + 1 \in 1 .. Len(chain) /\ 1 # i + 1
  BY <1>1
<1>3. ASSUME NEW i \in 1 .. Len(chain') PROVE Queued(chain'[i]) /\ Waits(chain[i])'
  <2>1. PICK p : p = chain'[i]  OBVIOUS
  <2>2. Queued(p) /\ Waits(p) /\ ~Rivals(chain[1], p)  BY <1>1, <1>2, <2>1 DEF ChainOK
  <2>3. Waits(p)'  BY <1>1, <2>2
  <2>4. QED  BY <2>1, <2>2, <2>3 DEF Waits
<1>4. ASSUME NEW i \in 1 .. Len(chain'), NEW k \in 1 .. Len(chain'), Rivals(chain'[i], chain'[k])
      PROVE  i = k
  <2>1. i + 1 = k + 1  BY <1>2, <1>4 DEF ChainOK
  <2>2. QED  BY <1>1, <1>2, <2>1
<1>5. QED  BY <1>2, <1>3, <1>4 DEF ChainOK

-----------------------------------------------------------------------------
(* Types *)

LEMMA NewOp ==
  ASSUME NEW op, NEW j, NEW what, NEW by
  PROVE  /\ Op(op, j, what, by).op = op /\ Op(op, j, what, by).job = j
         /\ Op(op, j, what, by).what = what /\ Op(op, j, what, by).by = by
         /\ Op(op, j, what, by) \in Ops <=>
              /\ op \in {"get", "save", "lost", "delete", "clear"} /\ j \in Job \cup {NoJob}
              /\ what \in Entries /\ by \in {"refresh", "record", "page", "user"}
BY DEF Op, Ops

\* What the list of jobs and the two loops over it make of `refresh`.
LEMMA RefreshTypes ==
  /\ NoRefresh \in Refreshes /\ Listing \in Refreshes
  /\ NoRefresh.at = "idle" /\ Listing.at = "list"
BY DEF NoRefresh, Listing, Refreshes

LEMMA HeadQueued ==
  ASSUME ChainOK, chain # <<>>
  PROVE  Queued(Head(chain)) /\ Waits(Head(chain))
BY DEF ChainOK

LEMMA NextOpEffect ==
  ASSUME Types, NEW o, Queued(o), Waits(o), Execute(o), Resume(o)
  PROVE  /\ entry' \in [Job -> Entries] /\ refresh' \in Refreshes /\ record' \in [Job -> Records]
         /\ o.by # "refresh" => refresh' = refresh
         /\ o.by = "refresh" /\ o.op # "lost" =>
              refresh'.at \in {"place", "live"} /\ refresh' = [refresh EXCEPT !.at = refresh'.at]
         /\ o.op = "lost" => refresh'.at = "idle"
         /\ o.by # "record" => record' = record
         /\ o.by = "record" =>
              record' = [record EXCEPT ![o.job] =
                           IF o.op = "get" /\ NeedsFinal(entry[o.job]) THEN "fetch" ELSE "idle"]
<1> USE DEF Types, Queued, Ops
<1>1. entry' \in [Job -> Entries]
  BY DEF Execute, Entries
<1>2. CASE o.by = "refresh"
  <2>1. CASE o.op = "get"
    BY <1>1, <1>2, <2>1 DEF Resume, Refreshes
  <2>2. CASE o.op = "save"
    BY <1>1, <1>2, <2>2 DEF Resume, Refreshes
  <2>3. CASE o.op = "lost"
    BY <1>1, <1>2, <2>3, RefreshTypes DEF Resume
  <2>4. QED  BY <1>2, <2>1, <2>2, <2>3
<1>3. CASE o.by = "record"
  BY <1>1, <1>3 DEF Resume, Records
<1>4. CASE o.by \notin {"refresh", "record"}
  BY <1>1, <1>4 DEF Resume
<1>5. QED  BY <1>2, <1>3, <1>4

LEMMA TypesStep ==
  ASSUME Inv, [Next]_vars
  PROVE  Types'
<1>0. Types /\ ChainOK  BY DEF Inv
<1> USE <1>0 DEF Types
<1>1. ASSUME Upset PROVE upsets' \in 0 .. MaxUpsets
  BY <1>1, HistoryAssumption DEF Upset
<1>2. ASSUME NEW j \in Job, StartJob(j) \/ ServerStep(j) \/ GrowOld(j) PROVE Types'
  BY <1>2 DEF StartJob, ServerStep, GrowOld, Servers, tab, world
<1>3. ASSUME NEW j \in Job, Track(j) PROVE Types'
  <2>1. CASE LookUp(j)  BY <2>1 DEF LookUp, Refreshes, world
  <2>2. CASE Fetched(j)  BY <2>2 DEF Fetched, Records, world
  <2>3. CASE FetchFails(j)  BY <1>1, <2>3 DEF FetchFails, Fails, Records
  <2>4. QED  BY <1>3, <2>1, <2>2, <2>3 DEF Track
<1>4. ASSUME NEW j \in Paged, PageAsks(j) \/ PageRunning(j) \/ PageEnded(j) PROVE Types'
  BY <1>4, HistoryAssumption DEF PageAsks, PageRunning, PageEnded, world
<1>5. CASE NextOp
  BY <1>5, HeadQueued, NextOpEffect DEF NextOp, world
<1>6. CASE Refresh
  <2>1. CASE Listed  BY <2>1 DEF Listed, Refreshes, world
  <2>2. CASE ListRefused  BY <2>2, RefreshTypes DEF ListRefused, world
  <2>3. CASE Place  BY <2>3 DEF Place, Refreshes, world
  <2>4. CASE RecordFinished
    <3>1. saved' \in SUBSET Job /\ record' \in [Job -> Records]
      BY <2>4 DEF RecordFinished, Records, Refreshes
    <3>2. refresh' \in Refreshes  BY <2>4 DEF RecordFinished, Refreshes
    <3>3. QED  BY <2>4, <3>1, <3>2 DEF RecordFinished, world
  <2>5. CASE MarkLost  BY <2>5 DEF MarkLost, Refreshes, world
  <2>6. QED  BY <1>6, <2>1, <2>2, <2>3, <2>4, <2>5 DEF Refresh
<1>7. CASE ListFails \/ Poll \/ SignIn
  BY <1>1, <1>7, RefreshTypes DEF ListFails, Fails, Poll, SignIn, world
<1>8. CASE Reload
  BY <1>1, <1>8, RefreshTypes DEF Reload, Records
<1>9. CASE SignOut
  BY <1>1, <1>9 DEF SignOut, Servers
<1>10. CASE Clear \/ \E j \in Job : Delete(j)
  BY <1>1, <1>10 DEF Clear, Delete, tab
<1>11. CASE UNCHANGED vars
  BY <1>11 DEF vars, tab, world
<1>12. QED
  BY <1>2, <1>3, <1>4, <1>5, <1>6, <1>7, <1>8, <1>9, <1>10, <1>11 DEF Next

-----------------------------------------------------------------------------
(* The queue is in order *)

\* The operations that one caller or the user may queue.
LEMMA MayQueue ==
  /\ \A j \in Job : /\ Queued(Op("get", j, "none", "refresh"))
                    /\ Queued(Op("get", j, "none", "record"))
                    /\ Queued(Op("save", j, "placeholder", "refresh"))
                    /\ Queued(Op("save", j, "placeholder", "page"))
                    /\ Queued(Op("save", j, "final", "record"))
                    /\ Queued(Op("save", j, "final", "page"))
                    /\ Queued(Op("delete", j, "none", "user"))
  /\ Queued(Op("lost", NoJob, "lost", "refresh")) /\ Queued(Op("clear", NoJob, "none", "user"))
BY NewOp DEF Queued, Entries

\* The next operation is executed and its caller goes on.
LEMMA NextOpOK ==
  ASSUME Inv, NextOp
  PROVE  ChainOK' /\ RecordOK'
<1> DEFINE o == Head(chain)
<1>0. Types /\ ChainOK /\ RecordOK /\ Queued(o) /\ Waits(o)
  BY HeadQueued DEF Inv, NextOp
<1>1. saved' = saved /\ Execute(o) /\ Resume(o) /\ chain' = Tail(chain)
  BY DEF NextOp
<1>2. had' = had \cup (IF o.what = "final" THEN {o.job} ELSE {})
  <2>1. ASSUME NEW j \in Job, NEW by, o = Op("save", j, "final", by) PROVE o.what = "final" /\ o.job = j
    BY <2>1, NewOp
  <2>2. o.what = "final" => /\ o.job \in Job
                            /\ o \in {Op("save", o.job, "final", by) : by \in {"record", "page"}}
    BY <1>0 DEF Queued, Op, Ops
  <2>3. QED  BY <2>1, <2>2 DEF NextOp
<1> HIDE DEF o
<1>3. ASSUME NEW p, Queued(p), Waits(p), ~Rivals(o, p) PROVE Waits(p)'
  <2>1. p.by = "refresh" => refresh' = refresh
    BY <1>0, <1>1, <1>3, NextOpEffect DEF Rivals
  <2>2. p.by = "record" => record'[p.job] = record[p.job]
    BY <1>0, <1>1, <1>3, NextOpEffect DEF Rivals, Types, Queued
  <2>3. p.what = "final" => p.job \in saved' \ had'
    BY <1>1, <1>2, <1>3 DEF Rivals, Waits
  <2>4. p.what = "final" /\ p.by = "page" => record'[p.job] = record[p.job]
    <3>1. CASE o.by = "record" /\ o.job = p.job /\ p.what = "final" /\ p.by = "page"
      BY <1>0, <1>3, <3>1 DEF Rivals, Waits, Queued
    <3>2. CASE o.by # "record" \/ o.job # p.job
      BY <1>0, <1>1, <1>3, <3>2, NextOpEffect DEF Types, Queued
    <3>3. QED  BY <3>1, <3>2
  <2>5. QED  BY <1>3, <2>1, <2>2, <2>3, <2>4 DEF Waits
<1>4. ChainOK'
  BY <1>0, <1>1, <1>3, QueueLess DEF NextOp, o
<1>5. ASSUME NEW j \in Job
      PROVE  /\ record'[j] # "idle" => j \in saved'
             /\ record'[j] \in {"fetch", "saving"} => entry'[j] # "final"
             /\ j \in had' => j \in saved' /\ record'[j] = "idle"
  <2>1. \/ record'[j] = record[j]
        \/ o.by = "record" /\ o.job = j /\ record[j] # "idle"
           /\ record'[j] = IF o.op = "get" /\ NeedsFinal(entry[j]) THEN "fetch" ELSE "idle"
    BY <1>0, <1>1, NextOpEffect DEF Types, Queued, Waits
  <2>2. entry'[j] = "final" => entry[j] = "final" \/ (o.what = "final" /\ o.job = j)
    BY <1>0, <1>1 DEF Execute, Types, Queued
  <2>3. record'[j] # "idle" => j \in saved'
    BY <1>0, <1>1, <2>1 DEF RecordOK
  <2>4. ASSUME record'[j] \in {"fetch", "saving"} PROVE entry'[j] # "final"
    <3>1. CASE o.by = "record" /\ o.job = j
      BY <1>0, <1>1, <2>1, <2>2, <2>4, <3>1, NextOpEffect DEF NeedsFinal, Queued, Waits, Types
    <3>2. CASE ~(o.by = "record" /\ o.job = j)
      BY <1>0, <2>1, <2>2, <2>4, <3>2 DEF RecordOK, Waits, Queued
    <3>3. QED  BY <3>1, <3>2
  <2>5. ASSUME j \in had' PROVE j \in saved' /\ record'[j] = "idle"
    <3>1. CASE j \in had
      BY <1>0, <1>1, <2>1, <3>1 DEF RecordOK
    <3>2. CASE o.what = "final" /\ o.job = j /\ o.by = "page"
      BY <1>0, <1>1, <2>1, <3>2 DEF Waits
    <3>3. CASE o.what = "final" /\ o.job = j /\ o.by = "record"
      BY <1>0, <1>1, <3>3, NextOpEffect DEF Waits, Queued, Types
    <3>4. QED  BY <1>0, <1>2, <2>5, <3>1, <3>2, <3>3 DEF Queued
  <2>6. QED  BY <2>3, <2>4, <2>5
<1>6. QED  BY <1>4, <1>5 DEF RecordOK

\* Nothing waits for a refresh that has not begun.
LEMMA NotWaiting ==
  ASSUME ChainOK, chain' = chain, refresh.at \notin {"look", "placing", "losing"},
         UNCHANGED <<saved, record, had>>
  PROVE  ChainOK'
<1>1. ASSUME NEW o, Queued(o), Waits(o) PROVE Waits(o)'
  BY <1>1 DEF Waits, Queued
<1>2. QED  BY <1>1, QueueKept

\* What the tracker, its refresh and the pages append.
LEMMA TrackOK ==
  ASSUME Inv, NEW j \in Job, Track(j)
  PROVE  ChainOK' /\ RecordOK'
<1>0. Types /\ ChainOK /\ RecordOK  BY DEF Inv
<1>1. CASE LookUp(j)
  <2> DEFINE o == Op("get", j, "none", "refresh")
  <2>1. o.by = "refresh" /\ o.op = "get" /\ o.what = "none"  BY NewOp
  <2> HIDE DEF o
  <2>2. Queued(o) /\ Queue(o)  BY <1>1, MayQueue DEF LookUp, o
  <2>3. refresh.at = "live" /\ refresh'.at = "look" /\ UNCHANGED <<saved, record, had, entry>>
    BY <1>0, <1>1 DEF LookUp, Types, Refreshes
  <2>4. Waits(o)'  BY <2>1, <2>3 DEF Waits
  <2>5. ASSUME NEW p, Queued(p), Waits(p) PROVE Waits(p)' /\ ~Rivals(p, o)
    BY <2>1, <2>3, <2>5 DEF Waits, Rivals, Queued
  <2>6. ChainOK'  BY <1>0, <2>2, <2>4, <2>5, QueueMore
  <2>7. QED  BY <1>0, <2>3, <2>6 DEF RecordOK
<1>2. CASE Fetched(j)
  <2> DEFINE o == Op("save", j, "final", "record")
  <2>1. o.by = "record" /\ o.op = "save" /\ o.what = "final" /\ o.job = j  BY NewOp
  <2> HIDE DEF o
  <2>2. Queued(o) /\ Queue(o)  BY <1>2, MayQueue DEF Fetched, o
  <2>3. /\ record[j] = "fetch" /\ record' = [record EXCEPT ![j] = "saving"]
        /\ UNCHANGED <<saved, refresh, had, entry>>
    BY <1>2 DEF Fetched
  <2>4. j \in saved \ had  BY <1>0, <2>3 DEF RecordOK
  <2>5. Waits(o)'  BY <1>0, <2>1, <2>3, <2>4 DEF Waits, Types
  <2>6. ASSUME NEW p, Queued(p), Waits(p) PROVE Waits(p)' /\ ~Rivals(p, o)
    BY <1>0, <2>1, <2>3, <2>6 DEF Waits, Rivals, Queued, Types
  <2>7. ChainOK'  BY <1>0, <2>2, <2>5, <2>6, QueueMore
  <2>8. QED  BY <1>0, <2>3, <2>7 DEF RecordOK, Types
<1>3. CASE FetchFails(j)
  <2>1. /\ record[j] = "fetch" /\ record' = [record EXCEPT ![j] = "idle"]
        /\ saved' = saved \ {j} /\ UNCHANGED <<refresh, had, entry, chain>>
    BY <1>3 DEF FetchFails
  <2>2. ASSUME NEW p, Queued(p), Waits(p) PROVE Waits(p)'
    BY <1>0, <2>1, <2>2 DEF Waits, Queued, Types
  <2>3. ChainOK'  BY <1>0, <2>1, <2>2, QueueKept
  <2>4. QED  BY <1>0, <2>1, <2>3 DEF RecordOK, Types
<1>4. QED  BY <1>1, <1>2, <1>3 DEF Track

LEMMA PageOK ==
  ASSUME Inv, NEW j \in Job, PageAsks(j) \/ PageRunning(j) \/ PageEnded(j)
  PROVE  ChainOK' /\ RecordOK'
<1>0. Types /\ ChainOK /\ RecordOK  BY DEF Inv
<1>1. UNCHANGED <<refresh, record, entry, had>>  BY DEF PageAsks, PageRunning, PageEnded
<1>2. CASE UNCHANGED <<chain, saved>>
  <2>1. \A p : Queued(p) /\ Waits(p) => Waits(p)'  BY <1>1, <1>2 DEF Waits
  <2>2. ChainOK'  BY <1>0, <1>2, <2>1, QueueKept
  <2>3. QED  BY <1>0, <1>1, <1>2, <2>2 DEF RecordOK
<1>3. CASE UNCHANGED saved /\ Queue(Op("save", j, "placeholder", "page"))
  <2> DEFINE o == Op("save", j, "placeholder", "page")
  <2>1. o.by = "page" /\ o.op = "save" /\ o.what = "placeholder"  BY NewOp
  <2> HIDE DEF o
  <2>2. Queued(o) /\ Queue(o)  BY <1>3, MayQueue DEF o
  <2>3. Waits(o)'  BY <2>1 DEF Waits
  <2>4. ASSUME NEW p, Queued(p), Waits(p) PROVE Waits(p)' /\ ~Rivals(p, o)
    BY <1>1, <1>3, <2>1, <2>4 DEF Waits, Rivals
  <2>5. ChainOK'  BY <1>0, <2>2, <2>3, <2>4, QueueMore
  <2>6. QED  BY <1>0, <1>1, <1>3, <2>5 DEF RecordOK
<1>4. CASE j \notin saved /\ saved' = saved \cup {j} /\ Queue(Op("save", j, "final", "page"))
  <2> DEFINE o == Op("save", j, "final", "page")
  <2>1. o.by = "page" /\ o.op = "save" /\ o.what = "final" /\ o.job = j  BY NewOp
  <2> HIDE DEF o
  <2>2. Queued(o) /\ Queue(o)  BY <1>4, MayQueue DEF o
  <2>3. record[j] = "idle" /\ j \notin had  BY <1>0, <1>4 DEF RecordOK
  <2>4. Waits(o)'  BY <1>1, <1>4, <2>1, <2>3 DEF Waits
  <2>5. ASSUME NEW p, Queued(p), Waits(p) PROVE Waits(p)' /\ ~Rivals(p, o)
    BY <1>1, <1>4, <2>1, <2>5 DEF Waits, Rivals
  <2>6. ChainOK'  BY <1>0, <2>2, <2>4, <2>5, QueueMore
  <2>7. QED  BY <1>0, <1>1, <1>4, <2>6 DEF RecordOK
<1>5. QED
  BY <1>2, <1>3, <1>4 DEF PageAsks, PageRunning, PageEnded

LEMMA RefreshStepOK ==
  ASSUME Inv, Refresh
  PROVE  ChainOK' /\ RecordOK'
<1>0. Types /\ ChainOK /\ RecordOK /\ RefreshOK  BY DEF Inv
<1>1. CASE Listed \/ ListRefused
  <2>1. refresh.at = "list" /\ UNCHANGED <<chain, saved, record, had, entry>>
    BY <1>1 DEF Listed, ListRefused
  <2>2. QED  BY <1>0, <2>1, NotWaiting DEF RecordOK
<1>2. CASE Place
  <2>0. PICK o : o = Op("save", refresh.cur, "placeholder", "refresh")  OBVIOUS
  <2>1. o.by = "refresh" /\ o.op = "save" /\ o.what = "placeholder"  BY <2>0, NewOp
  <2>2. Queued(o) /\ Queue(o)  BY <1>0, <1>2, <2>0, MayQueue DEF Place, RefreshOK
  <2>3. refresh.at = "place" /\ refresh'.at = "placing" /\ UNCHANGED <<saved, record, had, entry>>
    BY <1>0, <1>2 DEF Place, Types, Refreshes
  <2>4. Waits(o)'  BY <2>1, <2>3 DEF Waits
  <2>5. ASSUME NEW p, Queued(p), Waits(p) PROVE Waits(p)' /\ ~Rivals(p, o)
    BY <2>1, <2>3, <2>5 DEF Waits, Rivals, Queued
  <2>6. ChainOK'  BY <1>0, <2>2, <2>4, <2>5, QueueMore
  <2>7. QED  BY <1>0, <2>3, <2>6 DEF RecordOK
<1>3. CASE MarkLost
  <2> DEFINE o == Op("lost", NoJob, "lost", "refresh")
  <2>1. o.by = "refresh" /\ o.op = "lost" /\ o.what = "lost"  BY NewOp
  <2> HIDE DEF o
  <2>2. Queued(o) /\ Queue(o)  BY <1>3, MayQueue DEF MarkLost, o
  <2>3. refresh.at = "recording" /\ refresh'.at = "losing" /\ UNCHANGED <<saved, record, had, entry>>
    BY <1>0, <1>3 DEF MarkLost, Types, Refreshes
  <2>4. Waits(o)'  BY <2>1, <2>3 DEF Waits
  <2>5. ASSUME NEW p, Queued(p), Waits(p) PROVE Waits(p)' /\ ~Rivals(p, o)
    BY <2>1, <2>3, <2>5 DEF Waits, Rivals, Queued
  <2>6. ChainOK'  BY <1>0, <2>2, <2>4, <2>5, QueueMore
  <2>7. QED  BY <1>0, <2>3, <2>6 DEF RecordOK
<1>4. CASE RecordFinished
  <2> DEFINE new == refresh.ended \ saved
             S   == {Op("get", j, "none", "record") : j \in new}
  <2>1. /\ refresh.at = "live" /\ saved' = saved \cup new /\ UNCHANGED <<entry, had>>
        /\ record' = [j \in Job |-> IF j \in new THEN "look" ELSE record[j]]
        /\ chain' = chain \o SetToSeq(S)
    BY <1>4 DEF RecordFinished
  <2>2. new \subseteq Job /\ \A j \in new : record[j] = "idle" /\ j \notin had
    BY <1>0 DEF Types, Refreshes, RecordOK
  <2>3. IsFiniteSet(S)
    <3>1. IsFiniteSet(new)  BY <2>2, HistoryAssumption, FS_Subset
    <3> DEFINE f == [j \in new |-> Op("get", j, "none", "record")]
    <3> HIDE DEF new
    <3>2. f \in Surjection(new, S)  BY DEF Surjection
    <3>3. QED  BY <3>1, <3>2, FS_Surjection
  <2>4. \A o \in S : /\ o.job \in new /\ o.by = "record" /\ o.op = "get" /\ o.what = "none"
                     /\ o = Op("get", o.job, "none", "record")
    BY NewOp
  <2>5. ASSUME NEW o \in S PROVE Queued(o) /\ Waits(o)'
    BY <2>1, <2>2, <2>4, MayQueue DEF Waits
  <2>6. ASSUME NEW o \in S, NEW p \in S, Rivals(o, p) PROVE o = p
    BY <2>4, <2>6 DEF Rivals
  <2>7. ASSUME NEW p, Queued(p), Waits(p) PROVE Waits(p)'
    <3>1. refresh'.at = "recording"  BY <1>0, <1>4 DEF RecordFinished, Types, Refreshes
    <3>2. QED  BY <2>1, <2>2, <2>7, <3>1 DEF Waits, Queued
  <2>8. ASSUME NEW p, Queued(p), Waits(p), NEW o \in S PROVE ~Rivals(p, o)
    BY <2>2, <2>4, <2>8 DEF Waits, Rivals, Queued
  <2> HIDE DEF S
  <2>9. ChainOK'  BY <1>0, <2>1, <2>3, <2>5, <2>6, <2>7, <2>8, QueueAll
  <2>10. QED  BY <1>0, <2>1, <2>2, <2>9 DEF RecordOK
<1>5. QED  BY <1>1, <1>2, <1>3, <1>4 DEF Refresh

LEMMA UserOK ==
  ASSUME Inv, Clear \/ \E j \in Job : Delete(j)
  PROVE  ChainOK' /\ RecordOK'
<1>0. ChainOK /\ RecordOK /\ UNCHANGED <<refresh, record, entry, had, saved>>
  BY DEF Inv, Clear, Delete, tab
<1>1. PICK o : Queued(o) /\ Queue(o) /\ o.by = "user"
  BY MayQueue, NewOp DEF Clear, Delete
<1>2. \A p : Queued(p) /\ Waits(p) => Waits(p)' /\ ~Rivals(p, o)
  BY <1>0, <1>1 DEF Waits, Rivals, Queued
<1>3. Waits(o)'  BY <1>1 DEF Waits, Queued
<1>4. ChainOK'  BY <1>0, <1>1, <1>2, <1>3, QueueMore
<1>5. QED  BY <1>0, <1>4 DEF RecordOK

LEMMA QueueStep ==
  ASSUME Inv, [Next]_vars
  PROVE  ChainOK' /\ RecordOK'
<1>0. ChainOK /\ RecordOK /\ Types  BY DEF Inv
<1>1. ASSUME UNCHANGED <<refresh, record, entry, had, saved, chain>> PROVE ChainOK' /\ RecordOK'
  <2>1. \A p : Queued(p) /\ Waits(p) => Waits(p)'  BY <1>1 DEF Waits
  <2>2. QED  BY <1>0, <1>1, <2>1, QueueKept DEF RecordOK
<1>2. ASSUME NEW j \in Job, StartJob(j) \/ ServerStep(j) \/ GrowOld(j) PROVE ChainOK' /\ RecordOK'
  BY <1>1, <1>2 DEF StartJob, ServerStep, GrowOld, tab
<1>3. CASE SignOut \/ UNCHANGED vars
  BY <1>1, <1>3 DEF SignOut, vars, tab
<1>4. CASE Poll \/ ListFails
  BY <1>0, <1>4, NotWaiting DEF Poll, ListFails, RecordOK
<1>5. CASE SignIn
  <2>1. CASE refresh.at = "idle"
    BY <1>0, <1>5, <2>1, NotWaiting DEF SignIn, RecordOK
  <2>2. CASE refresh.at # "idle"
    BY <1>1, <1>5, <2>2 DEF SignIn
  <2>3. QED  BY <2>1, <2>2
<1>6. CASE Reload
  BY <1>6 DEF Reload, ChainOK, RecordOK
<1>7. ASSUME NEW j \in Paged, PageAsks(j) \/ PageRunning(j) \/ PageEnded(j) PROVE ChainOK' /\ RecordOK'
  BY <1>7, HistoryAssumption, PageOK
<1>8. QED
  BY <1>2, <1>3, <1>4, <1>5, <1>6, <1>7, NextOpOK, TrackOK, RefreshStepOK, UserOK DEF Next

-----------------------------------------------------------------------------
(* What the refresh has listed *)

LEMMA ServerStepOK ==
  ASSUME Inv, NEW j \in Job, StartJob(j) \/ ServerStep(j) \/ GrowOld(j)
  PROVE  RefreshOK'
BY HistoryAssumption DEF Inv, Types, RefreshOK, StartJob, ServerStep, GrowOld, Alive, tab

LEMMA RefreshStep ==
  ASSUME Inv, [Next]_vars
  PROVE  RefreshOK'
<1>0. Types /\ RefreshOK /\ ChainOK  BY DEF Inv
<1>1. ASSUME UNCHANGED <<srv, old, refresh>> PROVE RefreshOK'
  BY <1>0, <1>1 DEF RefreshOK, Alive
<1>2. ASSUME UNCHANGED <<srv, old>>, refresh'.at \in {"idle", "list"} PROVE RefreshOK'
  BY <1>0, <1>2 DEF RefreshOK
\* The loops only move on: what was listed stays.
<1>3. ASSUME UNCHANGED <<srv, old>>, refresh.at \notin {"idle", "list"},
             refresh'.live = refresh.live, refresh'.ended = refresh.ended,
             refresh'.at \in {"look", "place", "placing"} => refresh'.cur \in Job
      PROVE  RefreshOK'
  BY <1>0, <1>3 DEF RefreshOK, Alive
<1>4. CASE NextOp
  <2> DEFINE o == Head(chain)
  <2>1. Queued(o) /\ Waits(o) /\ Execute(o) /\ Resume(o) /\ UNCHANGED <<srv, old>>
    BY <1>0, <1>4, HeadQueued DEF NextOp
  <2> HIDE DEF o
  <2>2. CASE o.by # "refresh"
    BY <1>0, <1>1, <2>1, <2>2, NextOpEffect
  <2>3. CASE o.by = "refresh" /\ o.op = "lost"
    BY <1>0, <1>2, <2>1, <2>3, NextOpEffect
  <2>4. CASE o.by = "refresh" /\ o.op # "lost"
    <3>1. /\ refresh' = [refresh EXCEPT !.at = refresh'.at] /\ refresh'.at \in {"place", "live"}
          /\ refresh.at \in {"look", "placing"} /\ refresh.cur \in Job
      BY <1>0, <2>1, <2>4, NextOpEffect DEF Waits, Queued, RefreshOK
    <3>2. refresh'.live = refresh.live /\ refresh'.ended = refresh.ended /\ refresh'.cur = refresh.cur
      BY <1>0, <3>1 DEF Types, Refreshes
    <3>3. QED  BY <1>3, <2>1, <3>1, <3>2
  <2>5. QED  BY <2>2, <2>3, <2>4
<1>5. CASE Listed
  <2>1. /\ refresh' = [at |-> "live", live |-> {j \in Job : srv[j] = "running"},
                       ended |-> {j \in Job : srv[j] = "ended"}, cur |-> NoJob]
        /\ UNCHANGED <<srv, old>>
    BY <1>5 DEF Listed
  <2>2. \A j \in old \ Alive' : srv[j] = "gone"
    BY <1>0, <2>1 DEF Types, Servers, RefreshOK, Alive
  <2>3. QED  BY <1>0, <2>1, <2>2 DEF RefreshOK
<1>6. CASE ListFails \/ ListRefused \/ Poll
  BY <1>2, <1>6, RefreshTypes DEF ListFails, ListRefused, Poll
<1>7. CASE SignIn \/ Reload
  BY <1>1, <1>2, <1>7, RefreshTypes DEF SignIn, Reload
<1>8. CASE Place \/ RecordFinished \/ MarkLost
  <2>1. PICK p : /\ refresh' = [refresh EXCEPT !.at = p] /\ p \in {"placing", "recording", "losing"}
                 /\ refresh.at \in {"place", "live", "recording"} /\ UNCHANGED <<srv, old>>
                 /\ (p = "placing" => refresh.at = "place")
    BY <1>8 DEF Place, RecordFinished, MarkLost
  <2>2. /\ refresh'.live = refresh.live /\ refresh'.ended = refresh.ended
        /\ refresh'.cur = refresh.cur /\ refresh'.at = p
    BY <1>0, <2>1 DEF Types, Refreshes
  <2>3. QED  BY <1>0, <1>3, <2>1, <2>2 DEF RefreshOK
<1>9. ASSUME NEW j \in Job, Track(j) PROVE RefreshOK'
  <2>1. CASE LookUp(j)
    <3>1. /\ refresh' = [refresh EXCEPT !.at = "look", !.cur = j] /\ refresh.at = "live"
          /\ UNCHANGED <<srv, old>>
      BY <2>1 DEF LookUp
    <3>2. refresh'.live = refresh.live /\ refresh'.ended = refresh.ended /\ refresh'.cur = j
      BY <1>0, <3>1 DEF Types, Refreshes
    <3>3. QED  BY <1>3, <3>1, <3>2
  <2>2. CASE Fetched(j) \/ FetchFails(j)
    BY <1>1, <2>2 DEF Fetched, FetchFails
  <2>3. QED  BY <1>9, <2>1, <2>2 DEF Track
<1>10. CASE SignOut
  BY <1>0, <1>10 DEF SignOut, Types, RefreshOK, Alive
<1>11. ASSUME NEW j \in Paged, PageAsks(j) \/ PageRunning(j) \/ PageEnded(j) PROVE RefreshOK'
  BY <1>1, <1>11 DEF PageAsks, PageRunning, PageEnded
<1>12. CASE Clear \/ (\E j \in Job : Delete(j)) \/ UNCHANGED vars
  BY <1>1, <1>12 DEF Clear, Delete, vars, tab
<1>13. QED
  BY <1>4, <1>5, <1>6, <1>7, <1>8, <1>9, <1>10, <1>11, <1>12, ServerStepOK DEF Next, Refresh

-----------------------------------------------------------------------------
LEMMA InitInv == Init => Inv
<1> SUFFICES ASSUME Init PROVE Inv  OBVIOUS
<1>1. Types
  <2>1. refresh \in Refreshes /\ upsets \in 0 .. MaxUpsets
    BY RefreshTypes, HistoryAssumption DEF Init
  <2>2. /\ srv \in [Job -> Servers] /\ entry \in [Job -> Entries] /\ record \in [Job -> Records]
        /\ page \in [Job -> {"none", "asked", "running", "ended"}]
    BY DEF Init, Servers, Entries, Records
  <2>3. QED  BY <2>1, <2>2 DEF Init, Types
<1>2. ChainOK /\ RecordOK /\ RefreshOK
  BY RefreshTypes DEF Init, ChainOK, RecordOK, RefreshOK
<1>3. QED  BY <1>1, <1>2 DEF Inv

LEMMA NextInv == Inv /\ [Next]_vars => Inv'
BY TypesStep, QueueStep, RefreshStep DEF Inv

\* Of the operations queued, each is awaited by one place of the tracker, which is
\* where it says it is, and no job is being recorded that has its final record.
THEOREM Invariance == Spec => []Inv
BY InitInv, NextInv, PTL DEF Spec

\* Every variable of the history and its tracker keeps its type.
THEOREM TypeCorrect == Spec => []TypeOK
<1>1. Inv => TypeOK  BY DEF Inv, Types, ChainOK, RecordOK, TypeOK
<1>2. QED  BY <1>1, Invariance, PTL

\* Neither two lists of the server, nor a list and a page, nor a reload make the
\* tracker write a job whose final record the history has.
THEOREM OnceRecorded == Spec => []RecordedOnce
<1>1. Inv => RecordedOnce  BY DEF Inv, RecordOK, RecordedOnce
<1>2. QED  BY <1>1, Invariance, PTL

\* A run is given up only if the server has no more of it.
LEMMA LostStep ==
  ASSUME Inv, [Next]_vars, NEW j \in Job, entry[j] # "lost", entry'[j] = "lost"
  PROVE  srv[j] = "gone"
<1>0. Types /\ ChainOK /\ RefreshOK  BY DEF Inv
<1>1. CASE NextOp
  <2> DEFINE o == Head(chain)
  <2>1. Queued(o) /\ Waits(o) /\ Execute(o)
    BY <1>0, <1>1, HeadQueued DEF NextOp
  <2> HIDE DEF o
  <2>2. o.op = "lost" /\ j \in GivenUp
    BY <1>0, <2>1 DEF Execute, Types, Queued
  <2>3. refresh.at = "losing"  BY <2>1, <2>2 DEF Waits, Queued
  <2>4. QED  BY <1>0, <2>2, <2>3 DEF GivenUp, RefreshOK
<1>2. CASE entry' = entry  BY <1>2
<1>3. QED
  BY <1>1, <1>2 DEF Next, vars, StartJob, ServerStep, GrowOld, Track, LookUp, Fetched, FetchFails,
     PageAsks, PageRunning, PageEnded, Refresh, Listed, ListRefused, Place, RecordFinished, MarkLost,
     ListFails, Poll, Reload, SignOut, SignIn, Clear, Delete

\* A run is marked as lost only when the server has forgotten the job.
THEOREM LostOnlyGone == Spec => LostIsGone
<1>1. Inv /\ [Next]_vars =>
        [\A j \in Job : entry[j] # "lost" /\ entry'[j] = "lost" => srv[j] = "gone"]_vars
  BY LostStep
<1>2. QED  BY <1>1, Invariance, PTL DEF Spec, LostIsGone

LEMMA DeletedStep ==
  ASSUME Inv, [Next]_vars, NEW j \in had, entry[j] # "final"
  PROVE  entry'[j] # "final"
<1>0. Types /\ ChainOK /\ RecordOK  BY DEF Inv
<1>1. CASE NextOp
  <2> DEFINE o == Head(chain)
  <2>1. Queued(o) /\ Waits(o) /\ Execute(o)
    BY <1>0, <1>1, HeadQueued DEF NextOp
  <2> HIDE DEF o
  <2>2. ~(o.what = "final" /\ o.job = j)  BY <2>1 DEF Waits
  <2>3. QED  BY <1>0, <2>1, <2>2 DEF Execute, Types, Queued
<1>2. CASE entry' = entry  BY <1>2
<1>3. QED
  BY <1>1, <1>2 DEF Next, vars, StartJob, ServerStep, GrowOld, Track, LookUp, Fetched, FetchFails,
     PageAsks, PageRunning, PageEnded, Refresh, Listed, ListRefused, Place, RecordFinished, MarkLost,
     ListFails, Poll, Reload, SignOut, SignIn, Clear, Delete

\* What the user deletes is not written again while the tab lives.
THEOREM DeletedForGood == Spec => DeletedStays
<1>1. Inv /\ [Next]_vars => [\A j \in had : entry[j] # "final" => entry'[j] # "final"]_vars
  BY DeletedStep
<1>2. QED  BY <1>1, Invariance, PTL DEF Spec, DeletedStays

-----------------------------------------------------------------------------
(***************************************************************************)
(* The second part: how a page follows one of the jobs. Theorems about      *)
(* JobEvents, for any number of events, lost connections and failing        *)
(* requests, and any sizes of channel and wire. JobEvents shares no state   *)
(* with the history.                                                        *)
(***************************************************************************)

CONSTANTS Key, MaxEvents, Slack, MaxWire, MaxDrops, SyncMayFail, NoKey

E == INSTANCE JobEvents

LEMMA CardinalityIs == \A T : E!Cardinality(T) = Cardinality(T)
BY DEF E!Cardinality, Cardinality

LEMMA Least ==
  ASSUME NEW T, T \subseteq Nat, T # {}
  PROVE  \E n \in T : \A m \in T : n <= m
<1> DEFINE R == {ss \in Nat \X Nat : ss[1] < ss[2]}
<1>1. IsWellFoundedOn(R, Nat)  BY NatLessThanWellFounded DEF OpToRel
<1>2. PICK n \in T : \A m \in T : ~ <<m, n>> \in R
  <2> HIDE DEF R
  <2>1. QED  BY <1>1, WFMin
<1>3. ASSUME NEW m \in T
      PROVE  n <= m
  <2>1. m \in Nat /\ n \in Nat  OBVIOUS
  <2>2. ~ (m < n)
    <3>1. ~ <<m, n>> \in R  BY <1>2
    <3>2. <<m, n>> \in Nat \X Nat  BY <2>1
    <3>3. QED  BY <3>1, <3>2
  <2>3. QED  BY <2>1, <2>2
<1>4. QED  BY <1>3

\* What the first n events of a log amount to, and a value that shows them.
SinceIn(l, n, t) ==
  {i \in 1 .. n : l[i].type = t /\ \A k \in i .. n : l[k].type # "rescan"}

Shows(l, p, n) ==
  /\ p.found  = {l[i].of : i \in SinceIn(l, n, "resource_found")}
  /\ p.errors = Cardinality(SinceIn(l, n, "general_error"))

-----------------------------------------------------------------------------
(* One event more *)

LEMMA SinceStep ==
  ASSUME NEW l, NEW n \in Nat, NEW t \in {"resource_found", "general_error"}
  PROVE  /\ l[n + 1].type = "rescan" => SinceIn(l, n + 1, t) = {}
         /\ l[n + 1].type = t => SinceIn(l, n + 1, t) = SinceIn(l, n, t) \cup {n + 1}
         /\ l[n + 1].type \notin {"rescan", t} => SinceIn(l, n + 1, t) = SinceIn(l, n, t)
<1>1. CASE l[n + 1].type = "rescan"
  BY <1>1 DEF SinceIn
<1>2. CASE l[n + 1].type # "rescan"
  <2>1. ASSUME NEW i \in 1 .. n
        PROVE  (\A k \in i .. n + 1 : l[k].type # "rescan") <=> (\A k \in i .. n : l[k].type # "rescan")
    BY <1>2
  <2>2. \A i \in 1 .. n : i \in SinceIn(l, n + 1, t) <=> i \in SinceIn(l, n, t)
    BY <2>1 DEF SinceIn
  <2>3. n + 1 \in SinceIn(l, n + 1, t) <=> l[n + 1].type = t
    BY <1>2 DEF SinceIn
  <2>4. SinceIn(l, n + 1, t) \subseteq 1 .. n + 1 /\ SinceIn(l, n, t) \subseteq 1 .. n
    BY DEF SinceIn
  <2>5. \A i : i \in 1 .. n + 1 <=> i \in 1 .. n \/ i = n + 1
    OBVIOUS
  <2>6. \A i : i \in SinceIn(l, n + 1, t) <=> i \in SinceIn(l, n, t) \/ (i = n + 1 /\ l[n + 1].type = t)
    <3>1. n + 1 \notin SinceIn(l, n, t)  BY <2>4
    <3>2. QED  BY <2>2, <2>3, <2>4, <2>5, <3>1
  <2>7. CASE l[n + 1].type = t
    <3> DEFINE A == SinceIn(l, n + 1, t)
               B == SinceIn(l, n, t) \cup {n + 1}
    <3>1. \A i : i \in A <=> i \in B  BY <2>6, <2>7
    <3> HIDE DEF A, B
    <3>2. A = B  BY <3>1
    <3>3. QED  BY <1>2, <2>7, <3>2 DEF A, B
  <2>8. CASE l[n + 1].type # t
    <3> DEFINE A == SinceIn(l, n + 1, t)
               B == SinceIn(l, n, t)
    <3>1. \A i : i \in A <=> i \in B  BY <2>6, <2>8
    <3> HIDE DEF A, B
    <3>2. A = B  BY <3>1
    <3>3. QED  BY <1>2, <2>8, <3>2 DEF A, B
  <2>9. QED  BY <2>7, <2>8
<1>3. QED  BY <1>1, <1>2

LEMMA SinceFinite ==
  ASSUME NEW l, NEW n \in Nat, NEW t
  PROVE  /\ IsFiniteSet(SinceIn(l, n, t)) /\ Cardinality(SinceIn(l, n, t)) \in Nat
         /\ n + 1 \notin SinceIn(l, n, t)
         /\ Cardinality(SinceIn(l, n, t) \cup {n + 1}) = Cardinality(SinceIn(l, n, t)) + 1
<1>1. IsFiniteSet(1 .. n) /\ SinceIn(l, n, t) \subseteq 1 .. n
  BY FS_Interval DEF SinceIn
<1>2. IsFiniteSet(SinceIn(l, n, t)) /\ n + 1 \notin SinceIn(l, n, t)
  BY <1>1, FS_Subset
<1>3. QED  BY <1>2, FS_CardinalityType, FS_AddElement

LEMMA NothingYet == \A l, t : SinceIn(l, 0, t) = {} /\ Cardinality({}) = 0
BY FS_EmptySet DEF SinceIn

\* A value that shows the first n events shows one more after that event.
LEMMA OneMore ==
  ASSUME NEW l, NEW n \in Nat, NEW p, NEW q, Shows(l, p, n), l[n + 1] \in E!Event,
         l[n + 1].type = "rescan" => q.found = {} /\ q.errors = 0,
         l[n + 1].type = "scan_progress" => q.found = p.found /\ q.errors = p.errors,
         l[n + 1].type = "resource_found" =>
           q.found = p.found \cup {l[n + 1].of} /\ q.errors = p.errors,
         l[n + 1].type = "general_error" => q.found = p.found /\ q.errors = p.errors + 1
  PROVE  Shows(l, q, n + 1)
<1>1. l[n + 1].type \in {"rescan", "general_error", "resource_found", "scan_progress"}
  BY DEF E!Event
<1> USE SinceStep DEF Shows
<1>2. CASE l[n + 1].type = "rescan"
  BY <1>2, NothingYet
<1>3. CASE l[n + 1].type = "scan_progress"
  BY <1>3
<1>4. CASE l[n + 1].type = "resource_found"
  BY <1>4
<1>5. CASE l[n + 1].type = "general_error"
  BY <1>5, SinceFinite
<1>6. QED  BY <1>1, <1>2, <1>3, <1>4, <1>5

Page ==
  [loaded : BOOLEAN, ended : BOOLEAN, lastSeq : Nat, found : SUBSET Key, errors : Nat,
   scanned : Nat, pairs : SUBSET Key]

LEMMA ShownOne ==
  ASSUME NEW p \in Page, IsFiniteSet(p.pairs), NEW e \in E!Event
  PROVE  /\ E!Shown(p, e) \in Page /\ IsFiniteSet(E!Shown(p, e).pairs)
         /\ E!Shown(p, e).lastSeq = p.lastSeq /\ E!Shown(p, e).loaded = p.loaded
         /\ e.type = "rescan" => E!Shown(p, e).found = {} /\ E!Shown(p, e).errors = 0
         /\ e.type = "scan_progress" => E!Shown(p, e).found = p.found /\ E!Shown(p, e).errors = p.errors
         /\ e.type = "resource_found" =>
              E!Shown(p, e).found = p.found \cup {e.of} /\ E!Shown(p, e).errors = p.errors
         /\ e.type = "general_error" => E!Shown(p, e).found = p.found /\ E!Shown(p, e).errors = p.errors + 1
<1> DEFINE s == p.pairs \cup {e.of}
           c == Cardinality(s)
<1>1. IsFiniteSet(s) /\ c \in Nat
  <2>1. IsFiniteSet(s)  BY FS_AddElement
  <2> HIDE DEF s
  <2>2. QED  BY <2>1, FS_CardinalityType
<1>2. e.type = "scan_progress" =>
        E!Shown(p, e) = [p EXCEPT !.pairs = s, !.scanned = IF c > @ THEN c ELSE @]
  BY CardinalityIs DEF E!Shown
<1>3. e.type \in {"scan_progress", "resource_found"} => e.of \in Key
  BY DEF E!Event
<1> HIDE DEF c
<1>4. CASE e.type = "rescan"
  BY <1>4, FS_EmptySet DEF E!Shown, Page
<1>5. CASE e.type = "scan_progress"
  <2> DEFINE k == IF c > p.scanned THEN c ELSE p.scanned
             q == [p EXCEPT !.pairs = s, !.scanned = k]
  <2>1. k \in Nat  BY <1>1 DEF Page
  <2>2. s \subseteq Key  BY <1>3, <1>5 DEF Page
  <2>3. E!Shown(p, e) = q  BY <1>2, <1>5
  <2> HIDE DEF k, s
  <2>4. /\ q \in Page /\ q.pairs = s /\ q.lastSeq = p.lastSeq /\ q.loaded = p.loaded
        /\ q.found = p.found /\ q.errors = p.errors
    BY <2>1, <2>2 DEF Page
  <2>5. QED  BY <1>1, <1>5, <2>3, <2>4
<1>6. CASE e.type = "resource_found"
  BY <1>3, <1>6 DEF E!Shown, Page
<1>7. CASE e.type = "general_error"
  BY <1>7 DEF E!Shown, Page
<1>8. QED  BY <1>4, <1>5, <1>6, <1>7 DEF E!Event

LEMMA ApplyOne ==
  ASSUME log \in Seq(E!Event), NEW p \in Page, IsFiniteSet(p.pairs),
         p.lastSeq + 1 <= Len(log), Shows(log, p, p.lastSeq)
  PROVE  /\ E!ApplyEvent(p, p.lastSeq + 1) \in Page
         /\ IsFiniteSet(E!ApplyEvent(p, p.lastSeq + 1).pairs)
         /\ E!ApplyEvent(p, p.lastSeq + 1).lastSeq = p.lastSeq + 1
         /\ E!ApplyEvent(p, p.lastSeq + 1).loaded = p.loaded
         /\ Shows(log, E!ApplyEvent(p, p.lastSeq + 1), p.lastSeq + 1)
<1> DEFINE n == p.lastSeq
           q == [p EXCEPT !.lastSeq = n + 1]
           e == log[n + 1]
           r == E!Shown(q, e)
<1>1. n \in Nat /\ e \in E!Event  BY DEF Page
<1>2. E!ApplyEvent(p, n + 1) = r  BY <1>1 DEF E!ApplyEvent
<1>3. q \in Page /\ q.pairs = p.pairs /\ q.lastSeq = n + 1 /\ q.loaded = p.loaded
      /\ q.found = p.found /\ q.errors = p.errors
  BY <1>1 DEF Page
<1>4. Shows(log, q, n)  BY <1>3 DEF Shows
<1> HIDE DEF q
<1>5. Shows(log, r, n + 1)
  <2>1. /\ e.type = "rescan" => r.found = {} /\ r.errors = 0
        /\ e.type = "scan_progress" => r.found = q.found /\ r.errors = q.errors
        /\ e.type = "resource_found" => r.found = q.found \cup {e.of} /\ r.errors = q.errors
        /\ e.type = "general_error" => r.found = q.found /\ r.errors = q.errors + 1
    BY <1>1, <1>3, ShownOne
  <2> HIDE DEF r, n
  <2>2. QED  BY <1>1, <1>4, <2>1, OneMore
<1>6. r \in Page /\ IsFiniteSet(r.pairs) /\ r.lastSeq = n + 1 /\ r.loaded = p.loaded
  BY <1>1, <1>3, ShownOne
<1>7. QED  BY <1>2, <1>5, <1>6

-----------------------------------------------------------------------------
(* The events of a frame *)

\* f is the history of applying the first m pending events.
History(f, m) ==
  f = [n \in 0 .. m |-> IF n = 0 THEN shown ELSE E!ApplyEvent(f[n - 1], pending[n])]

LEMMA HistoryExists ==
  ASSUME pending \in Seq(Nat)
  PROVE  \E f : History(f, Len(pending))
<1> DEFINE T == {m \in 0 .. Len(pending) : ~ \E f : History(f, m)}
<1>1. SUFFICES ASSUME T # {} PROVE FALSE
  <2>1. Len(pending) \in 0 .. Len(pending)  OBVIOUS
  <2>2. QED  BY <2>1
<1>2. T \subseteq Nat  OBVIOUS
<1>3. PICK m \in T : \A k \in T : m <= k
  <2> HIDE DEF T
  <2>1. QED  BY <1>1, <1>2, Least
<1>4. m \in 0 .. Len(pending) /\ m \in Nat  OBVIOUS
<1>5. CASE m = 0
  <2> DEFINE f == [n \in 0 .. 0 |-> shown]
  <2>1. History(f, 0)
    <3>1. \A n \in 0 .. 0 : n = 0  OBVIOUS
    <3>2. QED  BY <3>1 DEF History
  <2>2. QED  BY <1>5, <2>1
<1>6. CASE m # 0
  <2>1. m - 1 \in 0 .. Len(pending) /\ ~ (m <= m - 1)  BY <1>4, <1>6
  <2>2. PICK f : History(f, m - 1)  BY <1>3, <2>1
  <2> DEFINE g == [n \in 0 .. m |-> IF n = m THEN E!ApplyEvent(f[m - 1], pending[m]) ELSE f[n]]
  <2>3. \A n \in 0 .. m - 1 : f[n] = IF n = 0 THEN shown ELSE E!ApplyEvent(f[n - 1], pending[n])
    BY <2>2 DEF History
  <2>4. ASSUME NEW n \in 0 .. m
        PROVE  g[n] = IF n = 0 THEN shown ELSE E!ApplyEvent(g[n - 1], pending[n])
    <3>1. n # 0 => n - 1 \in 0 .. m /\ n - 1 # m /\ g[n - 1] = f[n - 1]  BY <1>4
    <3>2. CASE n = m  BY <1>6, <3>1, <3>2
    <3>3. CASE n # m
      <4>1. n \in 0 .. m - 1 /\ g[n] = f[n]  BY <1>4, <3>3
      <4>2. QED  BY <2>3, <3>1, <4>1
    <3>4. QED  BY <3>2, <3>3
  <2>5. History(g, m)
    <3>1. g = [n \in 0 .. m |-> g[n]]  OBVIOUS
    <3> HIDE DEF g
    <3>2. QED  BY <2>4, <3>1 DEF History
  <2>6. QED  BY <2>5
<1>7. QED  BY <1>5, <1>6

LEMMA AppliedIsHistory ==
  ASSUME pending \in Seq(Nat)
  PROVE  /\ E!Applied[0] = shown
         /\ \A n \in 1 .. Len(pending) : E!Applied[n] = E!ApplyEvent(E!Applied[n - 1], pending[n])
<1>1. PICK f : History(f, Len(pending))  BY HistoryExists
<1>2. History(E!Applied, Len(pending))  BY <1>1 DEF E!Applied, History
<1>3. Len(pending) \in Nat  OBVIOUS
<1> HIDE DEF E!Applied
<1>4. \A n \in 0 .. Len(pending) :
        E!Applied[n] = IF n = 0 THEN shown ELSE E!ApplyEvent(E!Applied[n - 1], pending[n])
  BY <1>2 DEF History
<1>5. QED  BY <1>3, <1>4

\* After n of the pending events, the page shows n events more.
LEMMA FrameShows ==
  ASSUME log \in Seq(E!Event), pending \in Seq(Nat), shown \in Page, IsFiniteSet(shown.pairs),
         \A i \in 1 .. Len(pending) : pending[i] = shown.lastSeq + i,
         shown.lastSeq + Len(pending) <= Len(log), Shows(log, shown, shown.lastSeq),
         NEW n \in 0 .. Len(pending)
  PROVE  /\ E!Applied[n] \in Page /\ IsFiniteSet(E!Applied[n].pairs)
         /\ E!Applied[n].lastSeq = shown.lastSeq + n /\ E!Applied[n].loaded = shown.loaded
         /\ Shows(log, E!Applied[n], shown.lastSeq + n)
<1> DEFINE Good(k) ==
             /\ E!Applied[k] \in Page /\ IsFiniteSet(E!Applied[k].pairs)
             /\ E!Applied[k].lastSeq = shown.lastSeq + k /\ E!Applied[k].loaded = shown.loaded
             /\ Shows(log, E!Applied[k], shown.lastSeq + k)
           T == {k \in 0 .. Len(pending) : ~ Good(k)}
<1>1. SUFFICES ASSUME T # {} PROVE FALSE
  OBVIOUS
<1>2. T \subseteq Nat  OBVIOUS
<1>3. PICK m \in T : \A k \in T : m <= k
  <2> HIDE DEF T
  <2>1. QED  BY <1>1, <1>2, Least
<1>4. shown.lastSeq \in Nat /\ Len(pending) \in Nat /\ Len(log) \in Nat /\ m \in Nat /\ m <= Len(pending)
  BY DEF Page
<1>5. m # 0
  <2>1. Good(0)
    <3>1. E!Applied[0] = shown  BY AppliedIsHistory
    <3>2. shown.lastSeq + 0 = shown.lastSeq  BY <1>4
    <3>3. QED  BY <3>1, <3>2
  <2> HIDE DEF Good
  <2>2. QED  BY <2>1
<1>6. Good(m - 1)
  <2> HIDE DEF Good
  <2>1. m - 1 \in 0 .. Len(pending) /\ ~ (m <= m - 1)  BY <1>4, <1>5
  <2>2. QED  BY <1>3, <2>1
<1>7. Good(m)
  <2> DEFINE p == E!Applied[m - 1]
  <2>1. p \in Page /\ IsFiniteSet(p.pairs) /\ p.lastSeq = shown.lastSeq + (m - 1) /\ p.loaded = shown.loaded
        /\ Shows(log, p, p.lastSeq)
    BY <1>6
  <2>2. E!Applied[m] = E!ApplyEvent(p, pending[m])  BY <1>4, <1>5, AppliedIsHistory
  <2> HIDE DEF p
  <2>3. p.lastSeq + 1 = shown.lastSeq + m /\ p.lastSeq + 1 <= Len(log)  BY <1>4, <1>5, <2>1
  <2>4. pending[m] = p.lastSeq + 1  BY <1>4, <1>5, <2>3
  <2>5. E!Applied[m] = E!ApplyEvent(p, p.lastSeq + 1)  BY <2>2, <2>4
  <2>6. /\ E!ApplyEvent(p, p.lastSeq + 1) \in Page
        /\ IsFiniteSet(E!ApplyEvent(p, p.lastSeq + 1).pairs)
        /\ E!ApplyEvent(p, p.lastSeq + 1).lastSeq = p.lastSeq + 1
        /\ E!ApplyEvent(p, p.lastSeq + 1).loaded = p.loaded
        /\ Shows(log, E!ApplyEvent(p, p.lastSeq + 1), p.lastSeq + 1)
    BY <2>1, <2>3, ApplyOne
  <2> DEFINE a == E!Applied[m]
             b == E!ApplyEvent(p, p.lastSeq + 1)
  <2> HIDE DEF b
  <2>7. b \in Page /\ IsFiniteSet(b.pairs) /\ b.lastSeq = shown.lastSeq + m /\ b.loaded = shown.loaded
        /\ Shows(log, b, shown.lastSeq + m)
    BY <2>1, <2>3, <2>6 DEF b
  <2>8. a = b  BY <2>5 DEF b
  <2> HIDE DEF a
  <2>9. a \in Page /\ IsFiniteSet(a.pairs) /\ a.lastSeq = shown.lastSeq + m /\ a.loaded = shown.loaded
        /\ Shows(log, a, shown.lastSeq + m)
    BY <2>7, <2>8
  <2>10. QED  BY <2>9 DEF a
<1>8. QED  BY <1>7

-----------------------------------------------------------------------------
(* A longer log *)

\* An event that is appended changes nothing that the events before it show.
LEMMA SinceKept ==
  ASSUME NEW l \in Seq(E!Event), NEW e \in E!Event, NEW n \in 0 .. Len(l), NEW t
  PROVE  SinceIn(Append(l, e), n, t) = SinceIn(l, n, t)
<1> DEFINE ll == Append(l, e)
<1>1. \A i \in 1 .. n : ll[i] = l[i]  OBVIOUS
<1> HIDE DEF ll
<1>2. \A i \in 1 .. n : (\A k \in i .. n : ll[k].type # "rescan") <=> (\A k \in i .. n : l[k].type # "rescan")
  BY <1>1
<1>3. \A i \in 1 .. n :
        (ll[i].type = t /\ \A k \in i .. n : ll[k].type # "rescan")
        <=> (l[i].type = t /\ \A k \in i .. n : l[k].type # "rescan")
  BY <1>1, <1>2
<1>4. SinceIn(ll, n, t) = SinceIn(l, n, t)
  BY <1>3 DEF SinceIn
<1>5. QED  BY <1>4 DEF ll

LEMMA ShowsKept ==
  ASSUME NEW l \in Seq(E!Event), NEW e \in E!Event, NEW n \in 0 .. Len(l), NEW p, Shows(l, p, n)
  PROVE  Shows(Append(l, e), p, n)
<1> DEFINE ll == Append(l, e)
<1>1. \A i \in 1 .. n : ll[i] = l[i]  OBVIOUS
<1>2. \A t : SinceIn(ll, n, t) = SinceIn(l, n, t)  BY SinceKept
<1> HIDE DEF ll
<1>3. \A i \in SinceIn(l, n, "resource_found") : ll[i] = l[i]  BY <1>1 DEF SinceIn
<1>4. {ll[i].of : i \in SinceIn(l, n, "resource_found")} = {l[i].of : i \in SinceIn(l, n, "resource_found")}
  BY <1>3
<1>5. Shows(ll, p, n)  BY <1>2, <1>4 DEF Shows
<1>6. QED  BY <1>5 DEF ll

-----------------------------------------------------------------------------
(* The invariant *)

EventTypes ==
  /\ log \in Seq(E!Event) /\ ended \in BOOLEAN
  /\ agg \in [found : SUBSET Key, errors : Nat, scanned : SUBSET Key] /\ IsFiniteSet(agg.scanned)
  /\ shown \in Page /\ IsFiniteSet(shown.pairs)
  /\ sync \in [at : {"idle", "asked", "answered", "failed"}, job : Page]
  /\ es \in [at : {"none", "connecting", "open"}, after : Nat, lastId : Nat]
  /\ sub \in [at : {"stream", "resume", "over"}, live : BOOLEAN, closed : BOOLEAN,
              chan : Seq(Nat), cap : {sub.cap}, lastSeq : Nat]
  /\ pending \in Seq(Nat) /\ wire \in Seq(Nat)

\* The page, the job's aggregates and a snapshot each show a prefix of the log.
PrefixesShown ==
  /\ shown.lastSeq <= Len(log) /\ Shows(log, shown, shown.lastSeq)
  /\ Shows(log, agg, Len(log))
  /\ sync.at = "answered" =>
       sync.job.loaded /\ sync.job.lastSeq <= Len(log) /\ Shows(log, sync.job, sync.job.lastSeq)

\* What waits for the frame goes on where the page ends; the stream goes on
\* where that ends.
Collected ==
  /\ \A i \in 1 .. Len(pending) : pending[i] = shown.lastSeq + i
  /\ shown.lastSeq + Len(pending) <= Len(log)
  /\ pending # <<>> => shown.loaded
  /\ es.at # "none" => shown.loaded /\ sync.at = "idle" /\ E!ResumeFrom = shown.lastSeq + Len(pending)

\* The wire goes on where the page would resume, the channel where the wire
\* ends, up to the end of the log while the handler is subscribed.
OnTheWire ==
  \A i \in 1 .. Len(wire) :
    IF wire[i] = E!Done THEN i = Len(wire) /\ sub.at = "over"
    ELSE wire[i] = E!ResumeFrom + i /\ wire[i] <= Len(log)

InTheChannel ==
  /\ es.at # "open" => sub = E!NoSub /\ wire = <<>>
  /\ sub.at # "over" =>
       /\ sub.lastSeq = E!ResumeFrom + Len(wire)
       /\ \A i \in 1 .. Len(sub.chan) : sub.chan[i] = sub.lastSeq + i
       /\ sub.lastSeq + Len(sub.chan) <= Len(log)
  /\ sub.live => sub.at = "stream" /\ ~ sub.closed /\ sub.lastSeq + Len(sub.chan) = Len(log)

EventsInv == EventTypes /\ PrefixesShown /\ Collected /\ OnTheWire /\ InTheChannel

LEMMA NoSubType ==
  E!NoSub \in [at : {"stream", "resume", "over"}, live : BOOLEAN, closed : BOOLEAN,
             chan : Seq(Nat), cap : {E!NoSub.cap}, lastSeq : Nat]
<1>1. <<>> \in Seq(Nat)  OBVIOUS
<1>2. E!NoSub.cap = 0  BY DEF E!NoSub
<1>3. QED  BY <1>1, <1>2 DEF E!NoSub

LEMMA EventsInit == E!Init => EventsInv
<1> SUFFICES ASSUME E!Init PROVE EventsInv
  OBVIOUS
<1>2. IsFiniteSet({}) /\ Cardinality({}) = 0  BY FS_EmptySet
<1>3. E!Blank \in Page  BY DEF E!Blank, Page
<1>4. EventTypes
  <2>1. log \in Seq(E!Event) /\ pending \in Seq(Nat) /\ wire \in Seq(Nat) /\ ended \in BOOLEAN
    <3>1. \A S : <<>> \in Seq(S)  OBVIOUS
    <3>2. QED  BY <3>1 DEF E!Init
  <2>2. agg \in [found : SUBSET Key, errors : Nat, scanned : SUBSET Key] /\ IsFiniteSet(agg.scanned)
    BY <1>2 DEF E!Init
  <2>3. shown \in Page /\ IsFiniteSet(shown.pairs)  BY <1>2, <1>3 DEF E!Init, E!Blank
  <2>4. sync \in [at : {"idle", "asked", "answered", "failed"}, job : Page]
    BY <1>3 DEF E!Init, E!Asked
  <2>5. es \in [at : {"none", "connecting", "open"}, after : Nat, lastId : Nat]
    BY DEF E!Init, E!NoSource
  <2>6. sub \in [at : {"stream", "resume", "over"}, live : BOOLEAN, closed : BOOLEAN,
                 chan : Seq(Nat), cap : {sub.cap}, lastSeq : Nat]
    BY NoSubType DEF E!Init
  <2>7. QED  BY <2>1, <2>2, <2>3, <2>4, <2>5, <2>6 DEF EventTypes
<1>5. Shows(log, shown, 0) /\ Shows(log, agg, 0)
  <2>1. ASSUME NEW p, p.found = {}, p.errors = 0
        PROVE  Shows(log, p, 0)
    BY <2>1, NothingYet DEF Shows
  <2>2. shown.found = {} /\ shown.errors = 0 /\ agg.found = {} /\ agg.errors = 0
    BY DEF E!Init, E!Blank
  <2>3. QED  BY <2>1, <2>2
<1>6. /\ log = <<>> /\ pending = <<>> /\ wire = <<>> /\ shown.lastSeq = 0 /\ sync.at = "asked"
      /\ es.at = "none" /\ sub = E!NoSub /\ sub.at = "over" /\ sub.live = FALSE
  BY DEF E!Init, E!Asked, E!Blank, E!NoSource, E!NoSub
<1>7. Len(log) = 0 /\ Len(pending) = 0 /\ Len(wire) = 0  BY <1>6
<1>8. PrefixesShown  BY <1>5, <1>6, <1>7 DEF PrefixesShown
<1>9. Collected  BY <1>6, <1>7 DEF Collected
<1>10. OnTheWire /\ InTheChannel  BY <1>6, <1>7 DEF OnTheWire, InTheChannel
<1>11. QED  BY <1>4, <1>8, <1>9, <1>10 DEF EventsInv

\* The subscription after an event is published.
LEMMA FanOutKeeps ==
  ASSUME EventsInv, NEW e \in E!Event, log' = Append(log, e), es' = es, wire' = wire,
         sub' = E!FanOut(Len(log'))
  PROVE  /\ sub' \in [at : {"stream", "resume", "over"}, live : BOOLEAN, closed : BOOLEAN,
                      chan : Seq(Nat), cap : {sub'.cap}, lastSeq : Nat]
         /\ InTheChannel' /\ (sub.at = "over" => sub'.at = "over")
<1>1. Len(log') = Len(log) + 1 /\ Len(log) \in Nat  BY DEF EventsInv, EventTypes
<1>2. /\ sub \in [at : {"stream", "resume", "over"}, live : BOOLEAN, closed : BOOLEAN,
                  chan : Seq(Nat), cap : {sub.cap}, lastSeq : Nat]
  BY DEF EventsInv, EventTypes
<1>0. sub.chan \in Seq(Nat) /\ Len(sub.chan) \in Nat /\ sub.lastSeq \in Nat
  BY <1>2
<1>3. InTheChannel /\ E!ResumeFrom' = E!ResumeFrom  BY DEF EventsInv, E!ResumeFrom
<1>4. CASE ~ sub.live
  <2>1. sub' = sub  BY <1>4 DEF E!FanOut
  <2>2. InTheChannel'  BY <1>1, <1>2, <1>3, <1>4, <2>1 DEF InTheChannel
  <2>3. QED  BY <1>2, <2>1, <2>2
<1>5. CASE sub.live /\ Len(sub.chan) < sub.cap
  <2> DEFINE ch == Append(sub.chan, Len(log) + 1)
  <2>1. sub' = [sub EXCEPT !.chan = ch]  BY <1>1, <1>5 DEF E!FanOut
  <2>2. ch \in Seq(Nat) /\ Len(ch) = Len(sub.chan) + 1 /\ ch[Len(sub.chan) + 1] = Len(log) + 1
        /\ \A i \in 1 .. Len(sub.chan) : ch[i] = sub.chan[i]
    BY <1>0, <1>1
  <2> HIDE DEF ch
  <2>3. sub' \in [at : {"stream", "resume", "over"}, live : BOOLEAN, closed : BOOLEAN,
                  chan : Seq(Nat), cap : {sub'.cap}, lastSeq : Nat]
    BY <1>2, <2>1, <2>2
  <2>8. sub'.chan = ch /\ sub'.at = sub.at /\ sub'.live = sub.live /\ sub'.lastSeq = sub.lastSeq
        /\ sub'.closed = sub.closed
    BY <1>2, <2>1
  <2>4. sub.lastSeq + Len(sub.chan) = Len(log) /\ sub.at = "stream" /\ es.at = "open" /\ ~ sub.closed
        /\ sub.lastSeq = E!ResumeFrom + Len(wire)
        /\ \A i \in 1 .. Len(sub.chan) : sub.chan[i] = sub.lastSeq + i
    BY <1>3, <1>5 DEF E!NoSub, InTheChannel
  <2>5. ASSUME NEW i \in 1 .. Len(ch)
        PROVE  ch[i] = sub.lastSeq + i
    <3>1. i \in 1 .. Len(sub.chan) \/ i = Len(sub.chan) + 1  BY <1>0, <2>2
    <3>2. CASE i \in 1 .. Len(sub.chan)  BY <2>2, <2>4, <3>2
    <3>3. CASE i = Len(sub.chan) + 1
      <4>1. ch[i] = Len(log) + 1  BY <2>2, <3>3
      <4>2. sub.lastSeq + i = Len(log) + 1
        <5>1. sub.lastSeq + Len(sub.chan) = Len(log)  BY <2>4
        <5>2. \A x, y, z \in Nat : x + y = z => x + (y + 1) = z + 1  OBVIOUS
        <5>3. sub.lastSeq + (Len(sub.chan) + 1) = Len(log) + 1  BY <1>0, <1>1, <5>1, <5>2
        <5>4. QED  BY <3>3, <5>3
      <4>3. QED  BY <4>1, <4>2
    <3>4. QED  BY <3>1, <3>2, <3>3
  <2>6. InTheChannel'
    <3>1. sub'.lastSeq + Len(ch) = Len(log')
      <4>1. \A x, y, z \in Nat : x + y = z => x + (y + 1) = z + 1  OBVIOUS
      <4>2. sub.lastSeq + (Len(sub.chan) + 1) = Len(log) + 1
        <5>1. sub.lastSeq + Len(sub.chan) = Len(log)  BY <2>4
        <5>2. QED  BY <1>0, <1>1, <4>1, <5>1
      <4>3. sub'.lastSeq = sub.lastSeq /\ Len(ch) = Len(sub.chan) + 1  BY <2>2, <2>8
      <4>4. QED  BY <1>1, <4>2, <4>3
    <3>2. \A i \in 1 .. Len(sub'.chan) : sub'.chan[i] = sub'.lastSeq + i  BY <2>5, <2>8
    <3>3. sub'.lastSeq + Len(sub'.chan) <= Len(log')  BY <1>1, <2>8, <3>1
    <3>4. sub'.lastSeq = E!ResumeFrom' + Len(wire')  BY <1>3, <2>4, <2>8
    <3>5. QED  BY <2>4, <2>8, <3>1, <3>2, <3>3, <3>4 DEF InTheChannel
  <2>7. QED  BY <2>3, <2>4, <2>6, <2>8
<1>6. CASE sub.live /\ ~ (Len(sub.chan) < sub.cap)
  <2>1. sub' = [sub EXCEPT !.live = FALSE, !.closed = TRUE]  BY <1>6 DEF E!FanOut
  <2>2. sub' \in [at : {"stream", "resume", "over"}, live : BOOLEAN, closed : BOOLEAN,
                  chan : Seq(Nat), cap : {sub'.cap}, lastSeq : Nat]
        /\ sub'.chan = sub.chan /\ sub'.at = sub.at /\ sub'.live = FALSE /\ sub'.lastSeq = sub.lastSeq
    BY <1>2, <2>1
  <2>3. es.at = "open"  BY <1>3, <1>6 DEF E!NoSub, InTheChannel
  <2>4. InTheChannel'  BY <1>1, <1>2, <1>3, <1>6, <2>2, <2>3 DEF InTheChannel
  <2>5. QED  BY <2>2, <2>4
<1>7. QED  BY <1>2, <1>4, <1>5, <1>6

LEMMA AggregateShows ==
  ASSUME EventsInv, NEW e \in E!Event
  PROVE  /\ E!Aggregate(agg, e) \in [found : SUBSET Key, errors : Nat, scanned : SUBSET Key]
         /\ IsFiniteSet(E!Aggregate(agg, e).scanned)
         /\ Shows(Append(log, e), E!Aggregate(agg, e), Len(log) + 1)
<1> DEFINE a == E!Aggregate(agg, e)
           ll == Append(log, e)
           n == Len(log)
<1>0. /\ log \in Seq(E!Event) /\ IsFiniteSet(agg.scanned)
      /\ agg \in [found : SUBSET Key, errors : Nat, scanned : SUBSET Key]
  BY DEF EventsInv, EventTypes
<1>1. ll[n + 1] = e /\ n \in Nat /\ n \in 0 .. Len(log)  BY <1>0
<1>2. e.type \in {"scan_progress", "resource_found"} => e.of \in Key  BY DEF E!Event
<1>3. IsFiniteSet(agg.scanned \cup {e.of})  BY <1>0, FS_AddElement
<1>4. /\ a \in [found : SUBSET Key, errors : Nat, scanned : SUBSET Key] /\ IsFiniteSet(a.scanned)
      /\ e.type = "rescan" => a.found = {} /\ a.errors = 0
      /\ e.type = "scan_progress" => a.found = agg.found /\ a.errors = agg.errors
      /\ e.type = "resource_found" => a.found = agg.found \cup {e.of} /\ a.errors = agg.errors
      /\ e.type = "general_error" => a.found = agg.found /\ a.errors = agg.errors + 1
  <2>1. CASE e.type = "rescan"
    <3>1. a = [agg EXCEPT !.found = {}, !.errors = 0]  BY <2>1 DEF E!Aggregate
    <3> HIDE DEF a
    <3>2. QED  BY <1>0, <2>1, <3>1
  <2>2. CASE e.type = "scan_progress"
    <3> DEFINE s == agg.scanned \cup {e.of}
    <3>1. a = [agg EXCEPT !.scanned = s]  BY <2>2 DEF E!Aggregate
    <3>2. IsFiniteSet(s) /\ s \subseteq Key  BY <1>0, <1>2, <1>3, <2>2
    <3> HIDE DEF a, s
    <3>3. QED  BY <1>0, <2>2, <3>1, <3>2
  <2>3. CASE e.type = "resource_found"
    <3>1. a = [agg EXCEPT !.found = agg.found \cup {e.of}]  BY <2>3 DEF E!Aggregate
    <3> HIDE DEF a
    <3>2. QED  BY <1>0, <1>2, <2>3, <3>1
  <2>4. CASE e.type = "general_error"
    <3>1. a = [agg EXCEPT !.errors = agg.errors + 1]  BY <2>4 DEF E!Aggregate
    <3> HIDE DEF a
    <3>2. a \in [found : SUBSET Key, errors : Nat, scanned : SUBSET Key]
      BY <1>0, <3>1
    <3>3. a.found = agg.found /\ a.errors = agg.errors + 1 /\ a.scanned = agg.scanned
      BY <1>0, <3>1
    <3>4. QED  BY <1>0, <2>4, <3>2, <3>3
  <2>5. QED  BY <2>1, <2>2, <2>3, <2>4 DEF E!Event
<1>5. Shows(ll, agg, n)
  <2>1. Shows(log, agg, n)  BY DEF EventsInv, PrefixesShown
  <2>2. QED  BY <1>0, <1>1, <2>1, ShowsKept
<1> HIDE DEF a, ll, n
<1>6. Shows(ll, a, n + 1)  BY <1>1, <1>4, <1>5, OneMore
<1>7. QED  BY <1>4, <1>6 DEF a, ll, n

-----------------------------------------------------------------------------
(* The job and its subscriptions *)

LEMMA PublishInv == ASSUME EventsInv, NEW e \in E!Event, E!Publish(e) PROVE EventsInv'
<1>1. /\ log' = Append(log, e) /\ agg' = E!Aggregate(agg, e) /\ sub' = E!FanOut(Len(log'))
      /\ ended' = ended /\ wire' = wire /\ es' = es /\ sync' = sync /\ shown' = shown /\ pending' = pending
  BY DEF E!Publish, E!client
<1>2. log \in Seq(E!Event) /\ shown \in Page /\ sync.job \in Page  BY DEF EventsInv, EventTypes
<1>3. log' \in Seq(E!Event) /\ Len(log') = Len(log) + 1 /\ Len(log) \in Nat  BY <1>1, <1>2
<1>4. EventTypes'
  <2>1. sub' \in [at : {"stream", "resume", "over"}, live : BOOLEAN, closed : BOOLEAN,
                  chan : Seq(Nat), cap : {sub'.cap}, lastSeq : Nat]
    BY <1>1, FanOutKeeps
  <2>2. agg' \in [found : SUBSET Key, errors : Nat, scanned : SUBSET Key] /\ IsFiniteSet(agg'.scanned)
    BY <1>1, AggregateShows
  <2>3. QED  BY <1>1, <1>3, <2>1, <2>2 DEF EventsInv, EventTypes
<1>5. PrefixesShown'
  <2>1. shown.lastSeq \in Nat /\ sync.job.lastSeq \in Nat  BY <1>2 DEF Page
  <2>2. Shows(log', shown, shown.lastSeq)
    BY <1>1, <1>2, <1>3, <2>1, ShowsKept DEF EventsInv, PrefixesShown
  <2>3. Shows(log', agg', Len(log'))  BY <1>1, <1>3, AggregateShows
  <2>4. ASSUME sync.at = "answered"
        PROVE  sync.job.loaded /\ sync.job.lastSeq <= Len(log') /\ Shows(log', sync.job, sync.job.lastSeq)
    <3>1. sync.job.loaded /\ sync.job.lastSeq <= Len(log) /\ Shows(log, sync.job, sync.job.lastSeq)
      BY <2>4 DEF EventsInv, PrefixesShown
    <3>2. sync.job.lastSeq \in 0 .. Len(log) /\ sync.job.lastSeq <= Len(log')  BY <1>3, <2>1, <3>1
    <3>3. QED  BY <1>1, <1>2, <3>1, <3>2, ShowsKept
  <2>5. shown.lastSeq <= Len(log')  BY <1>3, <2>1 DEF EventsInv, PrefixesShown
  <2>6. QED  BY <1>1, <2>2, <2>3, <2>4, <2>5 DEF PrefixesShown
<1>6. E!ResumeFrom' = E!ResumeFrom  BY <1>1 DEF E!ResumeFrom
<1>7. Collected'
  <2>1. shown.lastSeq \in Nat /\ Len(pending) \in Nat  BY <1>2 DEF Page, EventsInv, EventTypes
  <2>2. shown.lastSeq + Len(pending) <= Len(log')  BY <1>3, <2>1 DEF EventsInv, Collected
  <2>3. QED  BY <1>1, <1>6, <2>2 DEF EventsInv, Collected
<1>8. sub.at = "over" => sub'.at = "over"  BY <1>1, FanOutKeeps
<1>9. OnTheWire'
  <2>1. wire \in Seq(Nat)  BY DEF EventsInv, EventTypes
  <2>2. ASSUME NEW i \in 1 .. Len(wire)
        PROVE  IF wire[i] = E!Done THEN i = Len(wire) /\ sub'.at = "over"
               ELSE wire[i] = E!ResumeFrom + i /\ wire[i] <= Len(log')
    <3>1. wire[i] \in Nat  BY <2>1
    <3>2. QED  BY <1>3, <1>8, <3>1 DEF EventsInv, OnTheWire
  <2>3. QED  BY <1>1, <1>6, <2>2 DEF OnTheWire
<1>10. InTheChannel'  BY <1>1, FanOutKeeps
<1>11. QED  BY <1>4, <1>5, <1>7, <1>9, <1>10 DEF EventsInv

LEMMA EndJobInv == ASSUME EventsInv, E!EndJob PROVE EventsInv'
<1>1. /\ log' = log /\ agg' = agg /\ ended' = TRUE /\ wire' = wire /\ es' = es /\ sync' = sync
      /\ shown' = shown /\ pending' = pending
      /\ sub' = IF sub.live THEN [sub EXCEPT !.live = FALSE, !.closed = TRUE] ELSE sub
  BY DEF E!EndJob, E!client
<1>2. sub \in [at : {"stream", "resume", "over"}, live : BOOLEAN, closed : BOOLEAN,
               chan : Seq(Nat), cap : {sub.cap}, lastSeq : Nat]
  BY DEF EventsInv, EventTypes
<1>3. /\ sub' \in [at : {"stream", "resume", "over"}, live : BOOLEAN, closed : BOOLEAN,
                   chan : Seq(Nat), cap : {sub'.cap}, lastSeq : Nat]
      /\ sub'.at = sub.at /\ sub'.chan = sub.chan /\ sub'.lastSeq = sub.lastSeq /\ sub'.live = FALSE
      /\ (~ sub.live => sub' = sub)
  BY <1>1, <1>2
<1>4. E!ResumeFrom' = E!ResumeFrom  BY <1>1 DEF E!ResumeFrom
<1>5. EventTypes'  BY <1>1, <1>3 DEF EventsInv, EventTypes
<1>6. PrefixesShown' /\ Collected' /\ OnTheWire'
  BY <1>1, <1>3, <1>4 DEF EventsInv, PrefixesShown, Collected, OnTheWire
<1>7. InTheChannel'
  <2>1. es.at # "open" => ~ sub.live  BY DEF EventsInv, InTheChannel, E!NoSub
  <2>2. QED  BY <1>1, <1>3, <1>4, <2>1 DEF EventsInv, InTheChannel
<1>8. QED  BY <1>5, <1>6, <1>7 DEF EventsInv

\* The backlog is what follows the seq that the subscriber has.
LEMMA BacklogIs ==
  ASSUME log \in Seq(E!Event), NEW after \in 0 .. Len(log)
  PROVE  /\ E!Backlog(after) \in Seq(Nat) /\ Len(E!Backlog(after)) = Len(log) - after
         /\ \A i \in 1 .. Len(E!Backlog(after)) : E!Backlog(after)[i] = after + i
<1>1. Len(log) \in Nat  OBVIOUS
<1>2. E!AllSeqs \in Seq(Nat) /\ Len(E!AllSeqs) = Len(log) /\ \A i \in 1 .. Len(log) : E!AllSeqs[i] = i
  BY <1>1 DEF E!AllSeqs
<1>3. CASE after = 0
  BY <1>1, <1>2, <1>3 DEF E!Backlog
<1>4. CASE after # 0
  <2> DEFINE b == SubSeq(E!AllSeqs, after + 1, Len(log))
  <2>1. E!Backlog(after) = b  BY <1>1, <1>4 DEF E!Backlog
  <2>2. b \in Seq(Nat) /\ Len(b) = Len(log) - after /\ \A i \in 1 .. Len(b) : b[i] = after + i
    <3> HIDE DEF E!AllSeqs
    <3>1. QED  BY <1>1, <1>2, <1>4
  <2>3. QED  BY <2>1, <2>2
<1>5. QED  BY <1>3, <1>4

\* A new subscription goes on where its handler is.
LEMMA SubscribeKeeps ==
  ASSUME EventsInv, E!Subscribe(E!ResumeFrom + Len(wire)), E!ResumeFrom + Len(wire) <= Len(log),
         log' = log, wire' = wire, E!ResumeFrom' = E!ResumeFrom, es'.at = "open",
         \A i \in 1 .. Len(wire) : wire[i] # E!Done
  PROVE  /\ sub' \in [at : {"stream", "resume", "over"}, live : BOOLEAN, closed : BOOLEAN,
                      chan : Seq(Nat), cap : {sub'.cap}, lastSeq : Nat]
         /\ InTheChannel' /\ OnTheWire'
<1> DEFINE after == E!ResumeFrom + Len(wire)
           b == E!Backlog(after)
<1>1. log \in Seq(E!Event) /\ Len(log) \in Nat /\ after \in Nat /\ ended \in BOOLEAN
  BY DEF EventsInv, EventTypes, E!ResumeFrom
<1>2. b \in Seq(Nat) /\ Len(b) = Len(log) - after /\ \A i \in 1 .. Len(b) : b[i] = after + i
  <2>1. after \in 0 .. Len(log)  BY <1>1
  <2> HIDE DEF after
  <2>2. QED  BY <1>1, <2>1, BacklogIs
<1>3. sub' = [at |-> "stream", live |-> ~ended, closed |-> ended, chan |-> b,
              cap |-> Len(b) + Slack, lastSeq |-> after]
  BY DEF E!Subscribe
<1>4. after = E!ResumeFrom' + Len(wire')  OBVIOUS
<1> HIDE DEF after, b
<1>5. sub' \in [at : {"stream", "resume", "over"}, live : BOOLEAN, closed : BOOLEAN,
                chan : Seq(Nat), cap : {sub'.cap}, lastSeq : Nat]
  BY <1>1, <1>2, <1>3
<1>6. sub'.at = "stream" /\ sub'.chan = b /\ sub'.lastSeq = after /\ (sub'.live => ~ sub'.closed)
  BY <1>3
<1>7. sub'.lastSeq + Len(sub'.chan) = Len(log')  BY <1>1, <1>2, <1>6
<1>8. sub'.lastSeq + Len(sub'.chan) <= Len(log')  BY <1>1, <1>7
<1>9. InTheChannel'  BY <1>2, <1>4, <1>6, <1>7, <1>8 DEF InTheChannel
<1>10. OnTheWire'  BY DEF EventsInv, OnTheWire
<1>11. QED  BY <1>5, <1>9, <1>10

-----------------------------------------------------------------------------
(* The stream's handler *)

\* Where the page would resume, and what is on the wire, is in the log.
LEMMA WireFits ==
  ASSUME EventsInv, es.at # "none"
  PROVE  /\ E!ResumeFrom \in Nat /\ Len(wire) \in Nat /\ Len(log) \in Nat
         /\ E!ResumeFrom <= Len(log)
         /\ sub.at # "over" => \A i \in 1 .. Len(wire) : wire[i] # E!Done
<1>1. /\ Len(wire) \in Nat /\ Len(log) \in Nat /\ Len(pending) \in Nat /\ shown.lastSeq \in Nat
      /\ es.lastId \in Nat /\ es.after \in Nat
  BY DEF EventsInv, EventTypes, Page
<1>2. E!ResumeFrom \in Nat  BY <1>1 DEF E!ResumeFrom
<1>3. E!ResumeFrom <= Len(log)  BY DEF EventsInv, Collected
<1>4. sub.at # "over" => \A i \in 1 .. Len(wire) : wire[i] # E!Done  BY DEF EventsInv, OnTheWire
<1>5. QED  BY <1>1, <1>2, <1>3, <1>4

\* A step of the handler or of the network that leaves the page alone.
LEMMA PageKept ==
  ASSUME EventsInv, UNCHANGED <<log, agg, sync, shown, pending>>, es' = es
  PROVE  PrefixesShown' /\ Collected' /\ E!ResumeFrom' = E!ResumeFrom
BY DEF EventsInv, PrefixesShown, Collected, E!ResumeFrom

LEMMA ConnectInv == ASSUME EventsInv, E!Connect PROVE EventsInv'
<1>1. /\ log' = log /\ agg' = agg /\ ended' = ended /\ wire' = wire /\ sync' = sync
      /\ shown' = shown /\ pending' = pending /\ es' = [es EXCEPT !.at = "open"] /\ es.at = "connecting"
  BY DEF E!Connect, E!server
<1>2. /\ es' \in [at : {"none", "connecting", "open"}, after : Nat, lastId : Nat]
      /\ es'.at = "open" /\ es'.after = es.after /\ es'.lastId = es.lastId
  BY <1>1 DEF EventsInv, EventTypes
<1>3. E!ResumeFrom' = E!ResumeFrom  BY <1>2 DEF E!ResumeFrom
<1>4. wire = <<>> /\ Len(wire) = 0  BY <1>1 DEF EventsInv, InTheChannel
<1>5. E!ResumeFrom \in Nat /\ E!ResumeFrom <= Len(log)  BY <1>1, WireFits
<1>6. E!Subscribe(E!ResumeFrom + Len(wire))
  <2>1. E!ResumeFrom + Len(wire) = E!ResumeFrom  BY <1>4, <1>5
  <2>2. QED  BY <2>1 DEF E!Connect
<1>7. /\ sub' \in [at : {"stream", "resume", "over"}, live : BOOLEAN, closed : BOOLEAN,
                   chan : Seq(Nat), cap : {sub'.cap}, lastSeq : Nat]
      /\ InTheChannel' /\ OnTheWire'
  BY <1>1, <1>2, <1>3, <1>4, <1>5, <1>6, SubscribeKeeps
<1>8. EventTypes'  BY <1>1, <1>2, <1>7 DEF EventsInv, EventTypes
<1>9. PrefixesShown' /\ Collected'  BY <1>1, <1>2, <1>3 DEF EventsInv, PrefixesShown, Collected
<1>10. QED  BY <1>7, <1>8, <1>9 DEF EventsInv

LEMMA SendInv == ASSUME EventsInv, E!Send PROVE EventsInv'
<1>1. /\ UNCHANGED <<log, agg, ended, es, sync, shown, pending>>
      /\ sub.at = "stream" /\ sub.chan # <<>>
      /\ wire' = Append(wire, Head(sub.chan))
      /\ sub' = [sub EXCEPT !.chan = Tail(sub.chan), !.lastSeq = Head(sub.chan)]
  BY DEF E!Send, E!server, E!client
<1>2. /\ sub \in [at : {"stream", "resume", "over"}, live : BOOLEAN, closed : BOOLEAN,
                  chan : Seq(Nat), cap : {sub.cap}, lastSeq : Nat]
      /\ wire \in Seq(Nat) /\ log \in Seq(E!Event)
  BY DEF EventsInv, EventTypes
<1>3. /\ sub.chan \in Seq(Nat) /\ sub.lastSeq \in Nat /\ Len(sub.chan) \in Nat
      /\ Len(wire) \in Nat /\ Len(log) \in Nat
  BY <1>2
<1>4. es.at = "open"  BY <1>1 DEF EventsInv, InTheChannel, E!NoSub
<1>5. E!ResumeFrom \in Nat /\ \A i \in 1 .. Len(wire) : wire[i] # E!Done  BY <1>1, <1>4, WireFits
<1>6. /\ sub.lastSeq = E!ResumeFrom + Len(wire)
      /\ \A i \in 1 .. Len(sub.chan) : sub.chan[i] = sub.lastSeq + i
      /\ sub.lastSeq + Len(sub.chan) <= Len(log)
  BY <1>1 DEF EventsInv, InTheChannel
<1> DEFINE h == Head(sub.chan)
           c == Tail(sub.chan)
<1>7. /\ Len(sub.chan) >= 1 /\ h = sub.chan[1] /\ c \in Seq(Nat) /\ Len(c) = Len(sub.chan) - 1
      /\ \A i \in 1 .. Len(c) : c[i] = sub.chan[i + 1]
  BY <1>1, <1>3
<1> HIDE DEF h, c
<1>8. h = sub.lastSeq + 1 /\ h \in Nat /\ h <= Len(log) /\ h # E!Done
  <2>1. 1 \in 1 .. Len(sub.chan)  BY <1>3, <1>7
  <2>2. h = sub.lastSeq + 1  BY <1>6, <1>7, <2>1
  <2>3. sub.lastSeq + 1 <= sub.lastSeq + Len(sub.chan)  BY <1>3, <1>7
  <2>4. sub.lastSeq + 1 <= Len(log)  BY <1>3, <1>6, <2>3
  <2>5. QED  BY <1>3, <2>2, <2>4 DEF E!Done
<1>9. \A i \in 1 .. Len(c) : c[i] = h + i
  BY <1>3, <1>6, <1>7, <1>8
<1>10. sub' = [sub EXCEPT !.chan = c, !.lastSeq = h] /\ wire' = Append(wire, h)
  BY <1>1 DEF h, c
<1>11. sub' \in [at : {"stream", "resume", "over"}, live : BOOLEAN, closed : BOOLEAN,
                 chan : Seq(Nat), cap : {sub'.cap}, lastSeq : Nat]
  BY <1>2, <1>7, <1>8, <1>10
<1>12. /\ sub'.at = sub.at /\ sub'.live = sub.live /\ sub'.closed = sub.closed
       /\ sub'.chan = c /\ sub'.lastSeq = h
  BY <1>2, <1>10
<1>13. /\ wire' \in Seq(Nat) /\ Len(wire') = Len(wire) + 1 /\ wire'[Len(wire) + 1] = h
       /\ \A i \in 1 .. Len(wire) : wire'[i] = wire[i]
  BY <1>2, <1>8, <1>10
<1>14. PrefixesShown' /\ Collected' /\ E!ResumeFrom' = E!ResumeFrom  BY <1>1, PageKept
<1>15. EventTypes'  BY <1>1, <1>11, <1>13 DEF EventsInv, EventTypes
<1>16. OnTheWire'
  <2>1. ASSUME NEW i \in 1 .. Len(wire')
        PROVE  wire'[i] # E!Done /\ wire'[i] = E!ResumeFrom + i /\ wire'[i] <= Len(log)
    <3>1. i \in 1 .. Len(wire) \/ i = Len(wire) + 1  BY <1>3, <1>13
    <3>2. CASE i \in 1 .. Len(wire)
      <4>1. wire[i] # E!Done /\ wire'[i] = wire[i]  BY <1>5, <1>13, <3>2
      <4>2. wire[i] = E!ResumeFrom + i /\ wire[i] <= Len(log)  BY <3>2, <4>1 DEF EventsInv, OnTheWire
      <4>3. QED  BY <4>1, <4>2
    <3>3. CASE i = Len(wire) + 1
      <4>1. wire'[i] = h  BY <1>13, <3>3
      <4>2. h = E!ResumeFrom + i  BY <1>3, <1>5, <1>6, <1>8, <3>3
      <4>3. QED  BY <1>8, <4>1, <4>2
    <3>4. QED  BY <3>1, <3>2, <3>3
  <2>2. QED  BY <1>1, <1>14, <2>1 DEF OnTheWire
<1>17. InTheChannel'
  <2>1. sub'.lastSeq = E!ResumeFrom' + Len(wire')  BY <1>3, <1>5, <1>6, <1>8, <1>12, <1>13, <1>14
  <2>2. \A i \in 1 .. Len(sub'.chan) : sub'.chan[i] = sub'.lastSeq + i  BY <1>9, <1>12
  <2>3. sub'.lastSeq + Len(sub'.chan) = sub.lastSeq + Len(sub.chan)
    <3>1. sub'.lastSeq = sub.lastSeq + 1 /\ Len(sub'.chan) = Len(sub.chan) - 1  BY <1>7, <1>8, <1>12
    <3>2. QED  BY <1>3, <3>1
  <2>4. sub.live => ~ sub.closed /\ sub.lastSeq + Len(sub.chan) = Len(log)  BY DEF EventsInv, InTheChannel
  <2>5. QED  BY <1>1, <1>4, <1>6, <1>12, <2>1, <2>2, <2>3, <2>4 DEF InTheChannel
<1>18. QED  BY <1>14, <1>15, <1>16, <1>17 DEF EventsInv

LEMMA ChannelClosedInv == ASSUME EventsInv, E!ChannelClosed PROVE EventsInv'
<1>1. /\ UNCHANGED <<log, agg, ended, es, sync, shown, pending>>
      /\ sub.at = "stream" /\ sub.chan = <<>> /\ sub.closed
      /\ \/ wire' = Append(wire, E!Done) /\ sub' = [sub EXCEPT !.at = "over"]
         \/ wire' = wire /\ sub' = [sub EXCEPT !.at = "resume"]
  BY DEF E!ChannelClosed, E!server, E!client
<1>2. /\ sub \in [at : {"stream", "resume", "over"}, live : BOOLEAN, closed : BOOLEAN,
                  chan : Seq(Nat), cap : {sub.cap}, lastSeq : Nat]
      /\ wire \in Seq(Nat)
  BY DEF EventsInv, EventTypes
<1>3. es.at = "open"  BY <1>1 DEF EventsInv, InTheChannel, E!NoSub
<1>4. \A i \in 1 .. Len(wire) : wire[i] # E!Done  BY <1>1, <1>3, WireFits
<1>5. PrefixesShown' /\ Collected' /\ E!ResumeFrom' = E!ResumeFrom  BY <1>1, PageKept
<1>6. ~ sub.live
  <2>1. sub.live => ~ sub.closed  BY DEF EventsInv, InTheChannel
  <2>2. QED  BY <1>1, <2>1
<1>7. CASE wire' = Append(wire, E!Done) /\ sub' = [sub EXCEPT !.at = "over"]
  <2>1. sub' \in [at : {"stream", "resume", "over"}, live : BOOLEAN, closed : BOOLEAN,
                  chan : Seq(Nat), cap : {sub'.cap}, lastSeq : Nat]
        /\ sub'.at = "over" /\ sub'.live = sub.live
    BY <1>2, <1>7
  <2>2. /\ wire' \in Seq(Nat) /\ Len(wire') = Len(wire) + 1 /\ wire'[Len(wire) + 1] = E!Done
        /\ (\A i \in 1 .. Len(wire) : wire'[i] = wire[i]) /\ Len(wire) \in Nat
    BY <1>2, <1>7 DEF E!Done
  <2>3. EventTypes'  BY <1>1, <2>1, <2>2 DEF EventsInv, EventTypes
  <2>4. OnTheWire'
    <3>1. ASSUME NEW i \in 1 .. Len(wire')
          PROVE  IF wire'[i] = E!Done THEN i = Len(wire')
                 ELSE wire'[i] = E!ResumeFrom + i /\ wire'[i] <= Len(log)
      <4>1. i \in 1 .. Len(wire) \/ i = Len(wire) + 1  BY <2>2
      <4>2. CASE i \in 1 .. Len(wire)
        BY <1>4, <2>2, <4>2 DEF EventsInv, OnTheWire
      <4>3. CASE i = Len(wire) + 1
        BY <2>2, <4>3
      <4>4. QED  BY <4>1, <4>2, <4>3
    <3>2. QED  BY <1>1, <1>5, <2>1, <3>1 DEF OnTheWire
  <2>5. InTheChannel'  BY <1>1, <1>3, <1>6, <2>1 DEF InTheChannel
  <2>6. QED  BY <1>5, <2>3, <2>4, <2>5 DEF EventsInv
<1>8. CASE wire' = wire /\ sub' = [sub EXCEPT !.at = "resume"]
  <2>1. sub' \in [at : {"stream", "resume", "over"}, live : BOOLEAN, closed : BOOLEAN,
                  chan : Seq(Nat), cap : {sub'.cap}, lastSeq : Nat]
    BY <1>2, <1>8
  <2>2. sub'.at = "resume" /\ sub'.live = sub.live /\ sub'.chan = sub.chan /\ sub'.lastSeq = sub.lastSeq
    BY <1>2, <1>8
  <2>3. EventTypes'  BY <1>1, <1>8, <2>1 DEF EventsInv, EventTypes
  <2>4. OnTheWire'  BY <1>1, <1>4, <1>5, <1>8 DEF EventsInv, OnTheWire
  <2>5. InTheChannel'  BY <1>1, <1>3, <1>5, <1>6, <1>8, <2>2 DEF EventsInv, InTheChannel
  <2>6. QED  BY <1>5, <2>3, <2>4, <2>5 DEF EventsInv
<1>9. QED  BY <1>1, <1>7, <1>8

LEMMA ResubscribeInv == ASSUME EventsInv, E!Resubscribe PROVE EventsInv'
<1>1. /\ UNCHANGED <<log, agg, ended, wire, es, sync, shown, pending>>
      /\ sub.at = "resume" /\ E!Subscribe(sub.lastSeq)
  BY DEF E!Resubscribe, E!server, E!client
<1>2. es.at = "open"  BY <1>1 DEF EventsInv, InTheChannel, E!NoSub
<1>3. /\ E!ResumeFrom \in Nat /\ Len(wire) \in Nat /\ Len(log) \in Nat
      /\ \A i \in 1 .. Len(wire) : wire[i] # E!Done
  BY <1>1, <1>2, WireFits
<1>4. /\ sub.lastSeq = E!ResumeFrom + Len(wire) /\ sub.lastSeq + Len(sub.chan) <= Len(log)
      /\ Len(sub.chan) \in Nat
  <2>1. sub.chan \in Seq(Nat)  BY DEF EventsInv, EventTypes
  <2>2. QED  BY <1>1, <2>1 DEF EventsInv, InTheChannel
<1>5. E!ResumeFrom + Len(wire) <= Len(log)
  <2>1. sub.lastSeq \in Nat  BY <1>3, <1>4
  <2>2. sub.lastSeq <= Len(log)
    <3>1. \A x, y, z \in Nat : x + y <= z => x <= z  OBVIOUS
    <3>2. QED  BY <1>3, <1>4, <2>1, <3>1
  <2>3. QED  BY <1>4, <2>2
<1>6. PrefixesShown' /\ Collected' /\ E!ResumeFrom' = E!ResumeFrom  BY <1>1, PageKept
<1>7. /\ sub' \in [at : {"stream", "resume", "over"}, live : BOOLEAN, closed : BOOLEAN,
                   chan : Seq(Nat), cap : {sub'.cap}, lastSeq : Nat]
      /\ InTheChannel' /\ OnTheWire'
  <2>1. E!Subscribe(E!ResumeFrom + Len(wire))  BY <1>1, <1>4
  <2>2. QED  BY <1>1, <1>2, <1>3, <1>5, <1>6, <2>1, SubscribeKeeps
<1>8. EventTypes'  BY <1>1, <1>7 DEF EventsInv, EventTypes
<1>9. QED  BY <1>6, <1>7, <1>8 DEF EventsInv

-----------------------------------------------------------------------------
(* The network and the page *)

LEMMA DisconnectInv == ASSUME EventsInv, E!Disconnect PROVE EventsInv'
<1>1. /\ UNCHANGED <<log, agg, ended, sync, shown, pending>>
      /\ es' = [es EXCEPT !.at = "connecting"] /\ es.at = "open" /\ sub' = E!NoSub /\ wire' = <<>>
  BY DEF E!Disconnect, E!server
<1>2. /\ es' \in [at : {"none", "connecting", "open"}, after : Nat, lastId : Nat]
      /\ es'.at = "connecting" /\ es'.after = es.after /\ es'.lastId = es.lastId
  BY <1>1 DEF EventsInv, EventTypes
<1>3. E!ResumeFrom' = E!ResumeFrom  BY <1>2 DEF E!ResumeFrom
<1>4. sub'.at = "over" /\ sub'.live = FALSE /\ wire' \in Seq(Nat) /\ Len(wire') = 0
  BY <1>1 DEF E!NoSub
<1>5. EventTypes'  BY <1>1, <1>2, <1>4, NoSubType DEF EventsInv, EventTypes
<1>6. PrefixesShown' /\ Collected'  BY <1>1, <1>2, <1>3 DEF EventsInv, PrefixesShown, Collected
<1>7. OnTheWire' /\ InTheChannel'  BY <1>1, <1>2, <1>4 DEF OnTheWire, InTheChannel
<1>8. QED  BY <1>5, <1>6, <1>7 DEF EventsInv

\* While the page has no stream, nothing is on its way.
LEMMA NoStream ==
  ASSUME EventsInv, es.at # "open", sub' = sub, wire' = wire, es'.at # "open"
  PROVE  OnTheWire' /\ InTheChannel' /\ wire' = <<>> /\ sub' = E!NoSub
<1>1. sub' = E!NoSub /\ wire' = <<>>  BY DEF EventsInv, InTheChannel
<1>2. sub'.at = "over" /\ sub'.live = FALSE /\ Len(wire') = 0  BY <1>1 DEF E!NoSub
<1>3. QED  BY <1>1, <1>2 DEF OnTheWire, InTheChannel

LEMMA RefuseInv == ASSUME EventsInv, E!Refuse PROVE EventsInv'
<1>1. /\ UNCHANGED <<log, agg, ended, sub, wire, shown, pending>>
      /\ es' = E!NoSource /\ sync' = E!Asked /\ es.at = "connecting"
  BY DEF E!Refuse, E!server
<1>2. /\ es' \in [at : {"none", "connecting", "open"}, after : Nat, lastId : Nat] /\ es'.at = "none"
  BY <1>1 DEF E!NoSource
<1>3. sync' \in [at : {"idle", "asked", "answered", "failed"}, job : Page] /\ sync'.at = "asked"
  BY <1>1 DEF E!Asked, E!Blank, Page
<1>4. EventTypes'  BY <1>1, <1>2, <1>3 DEF EventsInv, EventTypes
<1>5. PrefixesShown' /\ Collected'  BY <1>1, <1>2, <1>3 DEF EventsInv, PrefixesShown, Collected
<1>6. OnTheWire' /\ InTheChannel'  BY <1>1, <1>2, NoStream
<1>7. QED  BY <1>4, <1>5, <1>6 DEF EventsInv

LEMMA DeliverDoneInv == ASSUME EventsInv, E!DeliverDone PROVE EventsInv'
<1>1. /\ UNCHANGED <<log, agg, ended, shown, pending>>
      /\ es' = E!NoSource /\ sync' = E!Asked /\ wire' = <<>> /\ sub' = E!NoSub
  BY DEF E!DeliverDone, E!server
<1>2. /\ es' \in [at : {"none", "connecting", "open"}, after : Nat, lastId : Nat] /\ es'.at = "none"
  BY <1>1 DEF E!NoSource
<1>3. sync' \in [at : {"idle", "asked", "answered", "failed"}, job : Page] /\ sync'.at = "asked"
  BY <1>1 DEF E!Asked, E!Blank, Page
<1>4. sub'.at = "over" /\ sub'.live = FALSE /\ wire' \in Seq(Nat) /\ Len(wire') = 0
  BY <1>1 DEF E!NoSub
<1>5. EventTypes'  BY <1>1, <1>2, <1>3, <1>4, NoSubType DEF EventsInv, EventTypes
<1>6. PrefixesShown' /\ Collected'  BY <1>1, <1>2, <1>3 DEF EventsInv, PrefixesShown, Collected
<1>7. OnTheWire' /\ InTheChannel'  BY <1>1, <1>2, <1>4 DEF OnTheWire, InTheChannel
<1>8. QED  BY <1>5, <1>6, <1>7 DEF EventsInv

LEMMA DeliverInv == ASSUME EventsInv, E!Deliver PROVE EventsInv'
<1> DEFINE h == Head(wire)
           w == Tail(wire)
<1>1. /\ UNCHANGED <<log, agg, ended, sub, sync, shown>>
      /\ es.at = "open" /\ wire # <<>> /\ h # E!Done
      /\ wire' = w /\ pending' = Append(pending, h) /\ es' = [es EXCEPT !.lastId = h]
  BY DEF E!Deliver, E!server
<1>2. wire \in Seq(Nat) /\ pending \in Seq(Nat) /\ shown.lastSeq \in Nat /\ Len(log) \in Nat
  BY DEF EventsInv, EventTypes, Page
<1>3. /\ Len(wire) \in Nat /\ Len(wire) >= 1 /\ h = wire[1] /\ h \in Nat
      /\ w \in Seq(Nat) /\ Len(w) = Len(wire) - 1 /\ \A i \in 1 .. Len(w) : w[i] = wire[i + 1]
  BY <1>1, <1>2
<1> HIDE DEF h, w
<1>4. E!ResumeFrom \in Nat /\ E!ResumeFrom = shown.lastSeq + Len(pending) /\ shown.loaded /\ sync.at = "idle"
  BY <1>1, WireFits DEF EventsInv, Collected
<1>5. h = E!ResumeFrom + 1 /\ h <= Len(log) /\ h > 0
  <2>1. 1 \in 1 .. Len(wire)  BY <1>3
  <2>2. h = E!ResumeFrom + 1 /\ h <= Len(log)  BY <1>1, <1>3, <2>1 DEF EventsInv, OnTheWire
  <2>3. QED  BY <1>4, <2>2
<1>6. /\ es' \in [at : {"none", "connecting", "open"}, after : Nat, lastId : Nat]
      /\ es'.at = "open" /\ es'.lastId = h
  BY <1>1, <1>3 DEF EventsInv, EventTypes
<1>7. E!ResumeFrom' = E!ResumeFrom + 1  BY <1>5, <1>6 DEF E!ResumeFrom
<1>8. /\ pending' \in Seq(Nat) /\ Len(pending) \in Nat /\ Len(pending') = Len(pending) + 1
      /\ pending'[Len(pending) + 1] = h /\ \A i \in 1 .. Len(pending) : pending'[i] = pending[i]
  BY <1>1, <1>2, <1>3
<1>9. EventTypes'  BY <1>1, <1>3, <1>6, <1>8 DEF EventsInv, EventTypes
<1>10. PrefixesShown'  BY <1>1 DEF EventsInv, PrefixesShown
<1>11. Collected'
  <2>1. ASSUME NEW i \in 1 .. Len(pending')
        PROVE  pending'[i] = shown.lastSeq + i
    <3>1. i \in 1 .. Len(pending) \/ i = Len(pending) + 1  BY <1>8
    <3>2. CASE i \in 1 .. Len(pending)  BY <1>8, <3>2 DEF EventsInv, Collected
    <3>3. CASE i = Len(pending) + 1
      <4>1. h = shown.lastSeq + i  BY <1>2, <1>4, <1>5, <1>8, <3>3
      <4>2. QED  BY <1>8, <3>3, <4>1
    <3>4. QED  BY <3>1, <3>2, <3>3
  <2>2. shown.lastSeq + Len(pending') = E!ResumeFrom + 1
    <3>1. \A x, y \in Nat : x + (y + 1) = (x + y) + 1  OBVIOUS
    <3>2. shown.lastSeq + (Len(pending) + 1) = (shown.lastSeq + Len(pending)) + 1  BY <1>2, <1>8, <3>1
    <3>3. QED  BY <1>4, <1>8, <3>2
  <2>3. shown.lastSeq + Len(pending') <= Len(log)  BY <1>5, <2>2
  <2>4. QED  BY <1>1, <1>4, <1>7, <2>1, <2>2, <2>3 DEF Collected
<1>12. OnTheWire'
  <2>1. ASSUME NEW i \in 1 .. Len(w)
        PROVE  IF w[i] = E!Done THEN i = Len(w) /\ sub.at = "over"
               ELSE w[i] = (E!ResumeFrom + 1) + i /\ w[i] <= Len(log)
    <3>1. i + 1 \in 1 .. Len(wire) /\ w[i] = wire[i + 1]  BY <1>3
    <3>2. IF w[i] = E!Done THEN i + 1 = Len(wire) /\ sub.at = "over"
          ELSE w[i] = E!ResumeFrom + (i + 1) /\ w[i] <= Len(log)
      BY <3>1 DEF EventsInv, OnTheWire
    <3>3. E!ResumeFrom + (i + 1) = (E!ResumeFrom + 1) + i  BY <1>4
    <3>4. i + 1 = Len(wire) => i = Len(w)  BY <1>3
    <3>5. QED  BY <3>2, <3>3, <3>4
  <2>2. QED  BY <1>1, <1>7, <2>1 DEF OnTheWire
<1>13. InTheChannel'
  <2>1. sub.at # "over" => sub.lastSeq = E!ResumeFrom + Len(wire)  BY DEF EventsInv, InTheChannel
  <2>2. E!ResumeFrom + Len(wire) = E!ResumeFrom' + Len(wire')  BY <1>1, <1>3, <1>4, <1>7
  <2>3. QED  BY <1>1, <1>6, <2>1, <2>2 DEF EventsInv, InTheChannel
<1>14. QED  BY <1>9, <1>10, <1>11, <1>12, <1>13 DEF EventsInv

LEMMA FrameInv == ASSUME EventsInv, E!Frame PROVE EventsInv'
<1>1. /\ UNCHANGED <<log, agg, ended, sub, wire, es, sync>>
      /\ pending # <<>> /\ pending' = <<>>
      /\ shown' = IF shown.loaded THEN E!Applied[Len(pending)] ELSE shown
  BY DEF E!Frame, E!server
<1>2. /\ log \in Seq(E!Event) /\ pending \in Seq(Nat) /\ shown \in Page /\ IsFiniteSet(shown.pairs)
      /\ Len(pending) \in 0 .. Len(pending) /\ Len(pending) \in Nat
  BY DEF EventsInv, EventTypes
<1>3. /\ \A i \in 1 .. Len(pending) : pending[i] = shown.lastSeq + i
      /\ shown.lastSeq + Len(pending) <= Len(log) /\ shown.loaded
      /\ Shows(log, shown, shown.lastSeq)
  BY <1>1 DEF EventsInv, Collected, PrefixesShown
<1>4. shown' = E!Applied[Len(pending)]  BY <1>1, <1>3
<1>5. /\ shown' \in Page /\ IsFiniteSet(shown'.pairs) /\ shown'.lastSeq = shown.lastSeq + Len(pending)
      /\ shown'.loaded = shown.loaded /\ Shows(log, shown', shown.lastSeq + Len(pending))
  BY <1>2, <1>3, <1>4, FrameShows
<1>6. pending' \in Seq(Nat) /\ Len(pending') = 0 /\ shown'.lastSeq \in Nat  BY <1>1, <1>5 DEF Page
<1>7. EventTypes'  BY <1>1, <1>5, <1>6 DEF EventsInv, EventTypes
<1>8. PrefixesShown'  BY <1>1, <1>3, <1>5 DEF EventsInv, PrefixesShown
<1>9. E!ResumeFrom' = E!ResumeFrom  BY <1>1 DEF E!ResumeFrom
<1>10. shown'.lastSeq + Len(pending') = shown.lastSeq + Len(pending)  BY <1>5, <1>6
<1>11. Collected'
  <2>1. es.at # "none" => sync.at = "idle" /\ E!ResumeFrom = shown.lastSeq + Len(pending)
    BY DEF EventsInv, Collected
  <2>2. shown'.lastSeq + Len(pending') <= Len(log)  BY <1>3, <1>10
  <2>3. es'.at # "none" =>
          shown'.loaded /\ sync'.at = "idle" /\ E!ResumeFrom' = shown'.lastSeq + Len(pending')
    BY <1>1, <1>3, <1>5, <1>9, <1>10, <2>1
  <2>4. \A i \in 1 .. Len(pending') : pending'[i] = shown'.lastSeq + i  BY <1>6
  <2>5. log' = log /\ pending' = <<>>  BY <1>1
  <2>6. QED  BY <2>2, <2>3, <2>4, <2>5 DEF Collected
<1>12. OnTheWire' /\ InTheChannel'  BY <1>1, <1>9 DEF EventsInv, OnTheWire, InTheChannel
<1>13. QED  BY <1>7, <1>8, <1>11, <1>12 DEF EventsInv

LEMMA SyncServedInv == ASSUME EventsInv, E!SyncServed PROVE EventsInv'
<1> DEFINE j == [loaded |-> TRUE, ended |-> ended, lastSeq |-> Len(log), found |-> agg.found,
                 errors |-> agg.errors, scanned |-> Cardinality(agg.scanned), pairs |-> {}]
<1>1. /\ UNCHANGED <<log, agg, ended, sub, wire, es, shown, pending>>
      /\ sync.at = "asked" /\ sync' = [at |-> "answered", job |-> j]
  BY CardinalityIs DEF E!SyncServed, E!server
<1>2. /\ agg \in [found : SUBSET Key, errors : Nat, scanned : SUBSET Key] /\ IsFiniteSet(agg.scanned)
      /\ ended \in BOOLEAN /\ Len(log) \in Nat
  BY DEF EventsInv, EventTypes
<1>3. Cardinality(agg.scanned) \in Nat  BY <1>2, FS_CardinalityType
<1>4. j \in Page  BY <1>2, <1>3 DEF Page
<1>5. j.loaded /\ j.lastSeq = Len(log) /\ j.found = agg.found /\ j.errors = agg.errors
  OBVIOUS
<1> HIDE DEF j
<1>6. sync' \in [at : {"idle", "asked", "answered", "failed"}, job : Page] /\ sync'.job = j
  BY <1>1, <1>4
<1>7. Shows(log, j, Len(log))  BY <1>5 DEF EventsInv, PrefixesShown, Shows
<1>8. E!ResumeFrom' = E!ResumeFrom  BY <1>1 DEF E!ResumeFrom
<1>9. EventTypes'  BY <1>1, <1>6 DEF EventsInv, EventTypes
<1>10. PrefixesShown'
  <2>1. j.lastSeq <= Len(log)  BY <1>2, <1>5
  <2>2. Shows(log, j, j.lastSeq)  BY <1>5, <1>7
  <2>3. QED  BY <1>1, <1>5, <1>6, <2>1, <2>2 DEF EventsInv, PrefixesShown
<1>11. es.at = "none"  BY <1>1 DEF EventsInv, Collected
<1>12. Collected'  BY <1>1, <1>11 DEF EventsInv, Collected
<1>13. OnTheWire' /\ InTheChannel'  BY <1>1, <1>8 DEF EventsInv, OnTheWire, InTheChannel
<1>14. QED  BY <1>9, <1>10, <1>12, <1>13 DEF EventsInv

LEMMA SyncApplyInv == ASSUME EventsInv, E!SyncApply PROVE EventsInv'
<1>1. /\ UNCHANGED <<log, agg, ended, sub, wire>>
      /\ sync.at = "answered" /\ shown' = [sync.job EXCEPT !.pairs = shown.pairs] /\ pending' = <<>>
      /\ es' = IF sync.job.ended THEN E!NoSource
               ELSE [at |-> "connecting", after |-> sync.job.lastSeq, lastId |-> 0]
      /\ sync' = [E!Asked EXCEPT !.at = "idle"]
  BY DEF E!SyncApply, E!server
<1>2. sync.job \in Page /\ shown \in Page /\ IsFiniteSet(shown.pairs)  BY DEF EventsInv, EventTypes
<1>3. /\ shown' \in Page /\ shown'.pairs = shown.pairs /\ shown'.lastSeq = sync.job.lastSeq
      /\ shown'.loaded = sync.job.loaded /\ shown'.found = sync.job.found /\ shown'.errors = sync.job.errors
  BY <1>1, <1>2 DEF Page
<1>4. sync.job.loaded /\ sync.job.lastSeq <= Len(log) /\ Shows(log, sync.job, sync.job.lastSeq)
  BY <1>1 DEF EventsInv, PrefixesShown
<1>5. sync.job.lastSeq \in Nat  BY <1>2 DEF Page
<1>6. /\ es' \in [at : {"none", "connecting", "open"}, after : Nat, lastId : Nat] /\ es'.at # "open"
      /\ es'.at # "none" => E!ResumeFrom' = sync.job.lastSeq
  BY <1>1, <1>5 DEF E!NoSource, E!ResumeFrom
<1>7. sync' \in [at : {"idle", "asked", "answered", "failed"}, job : Page] /\ sync'.at = "idle"
  BY <1>1 DEF E!Asked, E!Blank, Page
<1>8. pending' \in Seq(Nat) /\ Len(pending') = 0  BY <1>1
<1>9. EventTypes'  BY <1>1, <1>2, <1>3, <1>6, <1>7, <1>8 DEF EventsInv, EventTypes
<1>10. Shows(log, shown', shown'.lastSeq)  BY <1>3, <1>4 DEF Shows
<1>11. PrefixesShown'  BY <1>1, <1>3, <1>4, <1>7, <1>10 DEF EventsInv, PrefixesShown
<1>12. shown'.lastSeq + Len(pending') = sync.job.lastSeq  BY <1>3, <1>5, <1>8
<1>13. Collected'  BY <1>1, <1>3, <1>4, <1>6, <1>7, <1>8, <1>12 DEF Collected
<1>14. es.at = "none"  BY <1>1 DEF EventsInv, Collected
<1>15. OnTheWire' /\ InTheChannel'  BY <1>1, <1>6, <1>14, NoStream
<1>16. QED  BY <1>9, <1>11, <1>13, <1>15 DEF EventsInv

LEMMA SyncFailsInv == ASSUME EventsInv, E!SyncFails PROVE EventsInv'
<1>1. /\ UNCHANGED <<log, agg, ended, sub, wire, es, shown, pending>>
      /\ sync.at \in {"asked", "answered"} /\ sync' = [E!Asked EXCEPT !.at = "failed"]
  BY DEF E!SyncFails, E!server
<1>2. sync' \in [at : {"idle", "asked", "answered", "failed"}, job : Page] /\ sync'.at = "failed"
  BY <1>1 DEF E!Asked, E!Blank, Page
<1>3. es.at = "none" /\ E!ResumeFrom' = E!ResumeFrom  BY <1>1 DEF EventsInv, Collected, E!ResumeFrom
<1>4. EventTypes'  BY <1>1, <1>2 DEF EventsInv, EventTypes
<1>5. PrefixesShown' /\ Collected'  BY <1>1, <1>2, <1>3 DEF EventsInv, PrefixesShown, Collected
<1>6. OnTheWire' /\ InTheChannel'  BY <1>1, <1>3 DEF EventsInv, OnTheWire, InTheChannel
<1>7. QED  BY <1>4, <1>5, <1>6 DEF EventsInv

-----------------------------------------------------------------------------
(* The page goes forward: the pairs it has counted *)

\* The pairs that the first n events of a log are about.
Pairs(l, n) == {l[i].of : i \in {k \in 1 .. n : l[k].type = "scan_progress"}}

\* A page counts no pair beyond these.
Counts(l, p, n) == p.pairs \subseteq Pairs(l, n) /\ p.scanned <= Cardinality(Pairs(l, n))

LEMMA PairsStep ==
  ASSUME NEW l, NEW n \in Nat
  PROVE  Pairs(l, n + 1) = IF l[n + 1].type = "scan_progress" THEN Pairs(l, n) \cup {l[n + 1].of}
                           ELSE Pairs(l, n)
<1> DEFINE K(m) == {k \in 1 .. m : l[k].type = "scan_progress"}
<1>1. K(n + 1) = IF l[n + 1].type = "scan_progress" THEN K(n) \cup {n + 1} ELSE K(n)
  <2>1. \A k : k \in 1 .. n + 1 <=> k \in 1 .. n \/ k = n + 1  OBVIOUS
  <2>2. QED  BY <2>1
<1> HIDE DEF K
<1>2. \A m : Pairs(l, m) = {l[i].of : i \in K(m)}  BY DEF Pairs, K
<1>3. CASE l[n + 1].type = "scan_progress"
  <2>1. {l[i].of : i \in K(n) \cup {n + 1}} = {l[i].of : i \in K(n)} \cup {l[n + 1].of}  OBVIOUS
  <2>2. QED  BY <1>1, <1>2, <1>3, <2>1
<1>4. QED  BY <1>1, <1>2, <1>3

LEMMA PairsFinite ==
  ASSUME NEW l, NEW n \in Nat
  PROVE  IsFiniteSet(Pairs(l, n)) /\ Cardinality(Pairs(l, n)) \in Nat
<1> DEFINE K == {k \in 1 .. n : l[k].type = "scan_progress"}
           f == [k \in K |-> l[k].of]
<1>1. IsFiniteSet(K)
  <2>1. IsFiniteSet(1 .. n) /\ K \subseteq 1 .. n  BY FS_Interval
  <2>2. QED  BY <2>1, FS_Subset
<1>2. f \in Surjection(K, Pairs(l, n))  BY DEF Surjection, Pairs
<1>3. IsFiniteSet(Pairs(l, n))
  <2> HIDE DEF K, f
  <2>1. QED  BY <1>1, <1>2, FS_Surjection
<1>4. QED  BY <1>3, FS_CardinalityType

LEMMA PairsGrow ==
  ASSUME NEW l, NEW n \in Nat, NEW m \in 0 .. n
  PROVE  Pairs(l, m) \subseteq Pairs(l, n) /\ Cardinality(Pairs(l, m)) <= Cardinality(Pairs(l, n))
<1>1. Pairs(l, m) \subseteq Pairs(l, n)
  <2>1. \A k \in 1 .. m : k \in 1 .. n  OBVIOUS
  <2>2. QED  BY <2>1 DEF Pairs
<1>2. QED  BY <1>1, PairsFinite, FS_Subset

LEMMA PairsKept ==
  ASSUME NEW l \in Seq(E!Event), NEW e \in E!Event, NEW n \in 0 .. Len(l)
  PROVE  Pairs(Append(l, e), n) = Pairs(l, n)
<1> DEFINE ll == Append(l, e)
<1>1. \A i \in 1 .. n : ll[i] = l[i]  OBVIOUS
<1> HIDE DEF ll
<1>2. {k \in 1 .. n : ll[k].type = "scan_progress"} = {k \in 1 .. n : l[k].type = "scan_progress"}
  BY <1>1
<1>3. {ll[i].of : i \in {k \in 1 .. n : l[k].type = "scan_progress"}}
        = {l[i].of : i \in {k \in 1 .. n : l[k].type = "scan_progress"}}
  BY <1>1
<1>4. Pairs(ll, n) = Pairs(l, n)  BY <1>2, <1>3 DEF Pairs
<1>5. QED  BY <1>4 DEF ll

\* Only the first event clears what a page has counted, and then it is nothing.
LEMMA CountOne ==
  ASSUME log \in Seq(E!Event), NEW p \in Page, IsFiniteSet(p.pairs), p.lastSeq + 1 <= Len(log),
         \A i \in 1 .. Len(log) : log[i].type = "rescan" => i = 1, Counts(log, p, p.lastSeq)
  PROVE  /\ Counts(log, E!ApplyEvent(p, p.lastSeq + 1), p.lastSeq + 1)
         /\ E!ApplyEvent(p, p.lastSeq + 1).scanned >= p.scanned
         /\ E!ApplyEvent(p, p.lastSeq + 1).ended = p.ended
<1> DEFINE n == p.lastSeq
           q == [p EXCEPT !.lastSeq = n + 1]
           e == log[n + 1]
           r == E!Shown(q, e)
           pre == Pairs(log, n)
           post == Pairs(log, n + 1)
<1>1. n \in Nat /\ e \in E!Event /\ n + 1 \in 1 .. Len(log)  BY DEF Page
<1>2. E!ApplyEvent(p, n + 1) = r  BY <1>1 DEF E!ApplyEvent
<1>3. q \in Page /\ q.pairs = p.pairs /\ q.scanned = p.scanned /\ q.ended = p.ended
  BY <1>1 DEF Page
<1>4. p.scanned \in Nat /\ p.pairs \subseteq pre /\ p.scanned <= Cardinality(pre)  BY DEF Page, Counts
<1>5. /\ IsFiniteSet(pre) /\ Cardinality(pre) \in Nat /\ IsFiniteSet(post) /\ Cardinality(post) \in Nat
      /\ pre \subseteq post /\ Cardinality(pre) <= Cardinality(post)
      /\ post = IF e.type = "scan_progress" THEN pre \cup {e.of} ELSE pre
  <2>1. n + 1 \in Nat /\ n \in 0 .. n + 1  BY <1>1
  <2>2. QED  BY <1>1, <2>1, PairsFinite, PairsGrow, PairsStep
<1>6. e.type = "rescan" => n = 0 /\ p.scanned = 0
  <2>1. e.type = "rescan" => n = 0  BY <1>1
  <2>2. Pairs(log, 0) = {} /\ Cardinality({}) = 0  BY FS_EmptySet DEF Pairs
  <2>3. n = 0 => Cardinality(pre) = 0
    <3> HIDE DEF n
    <3>1. QED  BY <2>2
  <2> HIDE DEF n, pre, e
  <2>4. QED  BY <1>4, <2>1, <2>3
<1> HIDE DEF q, e, pre, post, n
<1>7. r.pairs \subseteq post /\ r.scanned <= Cardinality(post) /\ r.scanned >= p.scanned /\ r.ended = p.ended
  <2>1. CASE e.type = "rescan"
    <3>1. r = [q EXCEPT !.found = {}, !.errors = 0, !.pairs = {}, !.scanned = 0]
      BY <2>1 DEF E!Shown
    <3> HIDE DEF r
    <3>2. r.pairs = {} /\ r.scanned = 0 /\ r.ended = q.ended  BY <1>3, <3>1 DEF Page
    <3>3. QED  BY <1>3, <1>5, <1>6, <2>1, <3>2
  <2>2. CASE e.type = "scan_progress"
    <3> DEFINE s == q.pairs \cup {e.of}
               c == IF Cardinality(s) > q.scanned THEN Cardinality(s) ELSE q.scanned
    <3>1. r = [q EXCEPT !.pairs = s, !.scanned = c]  BY <2>2, CardinalityIs DEF E!Shown
    <3>2. s \subseteq post  BY <1>3, <1>4, <1>5, <2>2
    <3> HIDE DEF r, s
    <3>3. Cardinality(s) \in Nat /\ Cardinality(s) <= Cardinality(post)
      BY <1>5, <3>2, FS_Subset, FS_CardinalityType
    <3>4. c >= p.scanned /\ c <= Cardinality(post)  BY <1>3, <1>4, <1>5, <3>3
    <3> HIDE DEF c
    <3>5. r.pairs = s /\ r.scanned = c /\ r.ended = q.ended  BY <1>3, <3>1 DEF Page
    <3>6. QED  BY <1>3, <3>2, <3>4, <3>5
  <2>3. CASE e.type \in {"resource_found", "general_error"}
    <3>1. r = [q EXCEPT !.found = @ \cup {e.of}] \/ r = [q EXCEPT !.errors = @ + 1]
      BY <2>3 DEF E!Shown
    <3> HIDE DEF r
    <3>2. r.pairs = q.pairs /\ r.scanned = q.scanned /\ r.ended = q.ended  BY <1>3, <3>1 DEF Page
    <3>3. QED  BY <1>3, <1>4, <1>5, <3>2
  <2>4. QED  BY <1>1, <2>1, <2>2, <2>3 DEF E!Event
<1>8. Counts(log, r, n + 1)
  <2> HIDE DEF r
  <2>1. QED  BY <1>7 DEF Counts, post
<1>9. QED  BY <1>2, <1>7, <1>8 DEF n

-----------------------------------------------------------------------------
(* The page goes forward: the invariant *)

\* A snapshot that has been answered holds all that waits for the frame.
Forward ==
  /\ \A i \in 1 .. Len(log) : log[i].type = "rescan" => i = 1
  /\ agg.scanned = Pairs(log, Len(log))
  /\ Counts(log, shown, shown.lastSeq)
  /\ shown.ended => ended
  /\ sync.at = "answered" =>
       /\ shown.lastSeq + Len(pending) <= sync.job.lastSeq
       /\ sync.job.scanned = Cardinality(Pairs(log, sync.job.lastSeq))
       /\ sync.job.ended => ended
       /\ shown.ended => sync.job.ended

\* What a step may do to the page.
Ahead ==
  /\ shown'.lastSeq >= shown.lastSeq
  /\ shown'.scanned >= shown.scanned
  /\ shown.ended => shown'.ended

LEMMA FrameForward ==
  ASSUME EventsInv, Forward, NEW n \in 0 .. Len(pending)
  PROVE  /\ Counts(log, E!Applied[n], shown.lastSeq + n)
         /\ E!Applied[n].scanned >= shown.scanned
         /\ E!Applied[n].ended = shown.ended
<1> DEFINE Good(k) ==
             /\ Counts(log, E!Applied[k], shown.lastSeq + k)
             /\ E!Applied[k].scanned >= shown.scanned
             /\ E!Applied[k].ended = shown.ended
           T == {k \in 0 .. Len(pending) : ~ Good(k)}
<1>1. SUFFICES ASSUME T # {} PROVE FALSE
  OBVIOUS
<1>2. T \subseteq Nat  OBVIOUS
<1>3. PICK m \in T : \A k \in T : m <= k
  <2> HIDE DEF T
  <2>1. QED  BY <1>1, <1>2, Least
<1>4. /\ log \in Seq(E!Event) /\ pending \in Seq(Nat) /\ shown \in Page /\ IsFiniteSet(shown.pairs)
      /\ \A i \in 1 .. Len(pending) : pending[i] = shown.lastSeq + i
      /\ shown.lastSeq + Len(pending) <= Len(log) /\ Shows(log, shown, shown.lastSeq)
      /\ \A i \in 1 .. Len(log) : log[i].type = "rescan" => i = 1
  BY DEF EventsInv, EventTypes, Collected, PrefixesShown, Forward
<1>5. /\ shown.lastSeq \in Nat /\ shown.scanned \in Nat /\ Len(pending) \in Nat /\ Len(log) \in Nat
      /\ m \in Nat /\ m <= Len(pending)
  BY <1>4 DEF Page
<1>6. m # 0
  <2>1. Good(0)
    <3>1. E!Applied[0] = shown  BY <1>4, AppliedIsHistory
    <3>2. shown.lastSeq + 0 = shown.lastSeq  BY <1>5
    <3>3. Counts(log, shown, shown.lastSeq)  BY DEF Forward
    <3>4. QED  BY <1>5, <3>1, <3>2, <3>3
  <2> HIDE DEF Good
  <2>2. QED  BY <2>1
<1>7. m - 1 \in 0 .. Len(pending) /\ ~ (m <= m - 1)  BY <1>5, <1>6
<1>8. Good(m - 1)
  <2> HIDE DEF Good
  <2>1. QED  BY <1>3, <1>7
<1>9. Good(m)
  <2> DEFINE p == E!Applied[m - 1]
             b == E!ApplyEvent(p, p.lastSeq + 1)
  <2>1. p \in Page /\ IsFiniteSet(p.pairs) /\ p.lastSeq = shown.lastSeq + (m - 1)
    BY <1>4, <1>7, FrameShows
  <2>2. Counts(log, p, p.lastSeq) /\ p.scanned >= shown.scanned /\ p.ended = shown.ended
    BY <1>8, <2>1
  <2>3. E!Applied[m] = E!ApplyEvent(p, pending[m])  BY <1>4, <1>5, <1>6, AppliedIsHistory
  <2> HIDE DEF p
  <2>4. p.lastSeq + 1 = shown.lastSeq + m /\ p.lastSeq + 1 <= Len(log)  BY <1>4, <1>5, <1>6, <2>1
  <2>5. pending[m] = p.lastSeq + 1  BY <1>4, <1>5, <1>6, <2>4
  <2>6. E!Applied[m] = b  BY <2>3, <2>5
  <2>7. Counts(log, b, p.lastSeq + 1) /\ b.scanned >= p.scanned /\ b.ended = p.ended
    BY <1>4, <2>1, <2>2, <2>4, CountOne
  <2>8. b.scanned \in Nat /\ p.scanned \in Nat
    <3>1. E!Applied[m] \in Page  BY <1>4, <1>5, FrameShows
    <3>2. b \in Page  BY <2>6, <3>1
    <3> HIDE DEF b
    <3>3. QED  BY <2>1, <3>2 DEF Page
  <2> HIDE DEF b
  <2>9. Counts(log, b, shown.lastSeq + m) /\ b.scanned >= shown.scanned /\ b.ended = shown.ended
    BY <1>5, <2>2, <2>4, <2>7, <2>8
  <2> DEFINE a == E!Applied[m]
  <2>10. a = b  BY <2>6
  <2> HIDE DEF a
  <2>11. Counts(log, a, shown.lastSeq + m) /\ a.scanned >= shown.scanned /\ a.ended = shown.ended
    BY <2>9, <2>10
  <2>12. QED  BY <2>11 DEF a
<1>10. QED  BY <1>9

LEMMA ForwardInit == E!Init => Forward
<1> SUFFICES ASSUME E!Init PROVE Forward
  OBVIOUS
<1>1. /\ log = <<>> /\ agg.scanned = {} /\ sync.at = "asked"
      /\ shown.pairs = {} /\ shown.scanned = 0 /\ shown.lastSeq = 0 /\ shown.ended = FALSE
  BY DEF E!Init, E!Asked, E!Blank
<1>2. Len(log) = 0  BY <1>1
<1>3. Pairs(log, 0) = {} /\ Cardinality({}) = 0  BY FS_EmptySet DEF Pairs
<1>4. Counts(log, shown, shown.lastSeq)
  <2>1. Cardinality(Pairs(log, 0)) = 0  BY <1>3
  <2>2. shown.scanned <= Cardinality(Pairs(log, 0))  BY <1>1, <2>1
  <2>3. QED  BY <1>1, <2>2 DEF Counts
<1>5. agg.scanned = Pairs(log, Len(log))  BY <1>1, <1>2, <1>3
<1>6. QED  BY <1>1, <1>2, <1>4, <1>5 DEF Forward

\* A step that leaves the log and the page alone, and answers no snapshot.
LEMMA ForwardKept ==
  ASSUME Forward, UNCHANGED <<log, agg, shown>>, ended' = ended \/ ended' = TRUE,
         (sync' = sync /\ pending' = pending) \/ sync'.at # "answered"
  PROVE  Forward'
BY DEF Forward, Counts

LEMMA PublishForward ==
  ASSUME EventsInv, Forward, NEW e \in E!Event, E!Publish(e)
  PROVE  Forward' /\ shown' = shown
<1>1. /\ log' = Append(log, e) /\ agg' = E!Aggregate(agg, e) /\ (e.type = "rescan" => log = <<>>)
      /\ ended' = ended /\ sync' = sync /\ shown' = shown /\ pending' = pending
  BY DEF E!Publish, E!client
<1>2. log \in Seq(E!Event) /\ shown \in Page /\ sync.job \in Page
      /\ agg \in [found : SUBSET Key, errors : Nat, scanned : SUBSET Key]
  BY DEF EventsInv, EventTypes
<1>3. /\ Len(log') = Len(log) + 1 /\ Len(log) \in Nat /\ log'[Len(log) + 1] = e
      /\ \A i \in 1 .. Len(log) : log'[i] = log[i]
  BY <1>1, <1>2
<1>4. ASSUME NEW i \in 1 .. Len(log'), log'[i].type = "rescan"
      PROVE  i = 1
  <2>1. i \in 1 .. Len(log) \/ i = Len(log) + 1  BY <1>3
  <2>2. CASE i \in 1 .. Len(log)  BY <1>3, <1>4, <2>2 DEF Forward
  <2>3. CASE i = Len(log) + 1
    <3>1. log = <<>>  BY <1>1, <1>3, <1>4, <2>3
    <3>2. QED  BY <2>3, <3>1
  <2>4. QED  BY <2>1, <2>2, <2>3
<1>5. \A n \in 0 .. Len(log) : Pairs(log', n) = Pairs(log, n)  BY <1>1, <1>2, PairsKept
<1>6. agg'.scanned = Pairs(log', Len(log'))
  <2>1. Pairs(log', Len(log) + 1) = IF e.type = "scan_progress" THEN Pairs(log, Len(log)) \cup {e.of}
                                    ELSE Pairs(log, Len(log))
    <3>1. Pairs(log', Len(log) + 1)
            = IF log'[Len(log) + 1].type = "scan_progress" THEN Pairs(log', Len(log)) \cup {log'[Len(log) + 1].of}
              ELSE Pairs(log', Len(log))
      BY <1>3, PairsStep
    <3>2. Len(log) \in 0 .. Len(log)  BY <1>3
    <3>3. QED  BY <1>3, <1>5, <3>1, <3>2
  <2>2. agg'.scanned = IF e.type = "scan_progress" THEN agg.scanned \cup {e.of} ELSE agg.scanned
    BY <1>1, <1>2 DEF E!Aggregate, E!Event
  <2>3. agg.scanned = Pairs(log, Len(log))  BY DEF Forward
  <2>4. QED  BY <1>3, <2>1, <2>2, <2>3
<1>7. shown.lastSeq \in 0 .. Len(log)
  BY <1>2, <1>3 DEF EventsInv, PrefixesShown, Page
<1>8. Counts(log', shown', shown'.lastSeq)  BY <1>1, <1>5, <1>7 DEF Forward, Counts
<1>9. ASSUME sync.at = "answered"
      PROVE  sync.job.scanned = Cardinality(Pairs(log', sync.job.lastSeq))
  <2>1. sync.job.lastSeq \in 0 .. Len(log)
    BY <1>2, <1>3, <1>9 DEF EventsInv, PrefixesShown, Page
  <2>2. QED  BY <1>5, <1>9, <2>1 DEF Forward
<1>10. QED  BY <1>1, <1>4, <1>6, <1>8, <1>9 DEF Forward

LEMMA FrameAhead ==
  ASSUME EventsInv, Forward, E!Frame
  PROVE  Forward' /\ Ahead
<1>1. /\ UNCHANGED <<log, agg, ended, sync>> /\ pending # <<>> /\ pending' = <<>>
      /\ shown' = IF shown.loaded THEN E!Applied[Len(pending)] ELSE shown
  BY DEF E!Frame, E!server
<1>2. /\ log \in Seq(E!Event) /\ pending \in Seq(Nat) /\ shown \in Page /\ IsFiniteSet(shown.pairs)
      /\ Len(pending) \in 0 .. Len(pending) /\ Len(pending) \in Nat
  BY DEF EventsInv, EventTypes
<1>3. /\ \A i \in 1 .. Len(pending) : pending[i] = shown.lastSeq + i
      /\ shown.lastSeq + Len(pending) <= Len(log) /\ shown.loaded
      /\ Shows(log, shown, shown.lastSeq)
  BY <1>1 DEF EventsInv, Collected, PrefixesShown
<1>4. shown' = E!Applied[Len(pending)]  BY <1>1, <1>3
<1>5. shown'.lastSeq = shown.lastSeq + Len(pending)  BY <1>2, <1>3, <1>4, FrameShows
<1>6. /\ Counts(log, shown', shown'.lastSeq) /\ shown'.scanned >= shown.scanned
      /\ shown'.ended = shown.ended
  BY <1>2, <1>4, <1>5, FrameForward
<1>7. shown.lastSeq \in Nat  BY <1>2 DEF Page
<1>8. shown'.lastSeq + Len(pending') = shown.lastSeq + Len(pending)
  <2>1. Len(pending') = 0  BY <1>1
  <2>2. QED  BY <1>2, <1>5, <1>7, <2>1
<1>9. Forward'  BY <1>1, <1>6, <1>8 DEF Forward
<1>10. Ahead  BY <1>2, <1>5, <1>6, <1>7 DEF Ahead
<1>11. QED  BY <1>9, <1>10

LEMMA SyncServedForward ==
  ASSUME EventsInv, Forward, E!SyncServed
  PROVE  Forward' /\ shown' = shown
<1> DEFINE j == [loaded |-> TRUE, ended |-> ended, lastSeq |-> Len(log), found |-> agg.found,
                 errors |-> agg.errors, scanned |-> Cardinality(agg.scanned), pairs |-> {}]
<1>1. UNCHANGED <<log, agg, ended, shown, pending>> /\ sync' = [at |-> "answered", job |-> j]
  BY CardinalityIs DEF E!SyncServed, E!server
<1>2. j.lastSeq = Len(log) /\ j.ended = ended /\ j.scanned = Cardinality(agg.scanned)  OBVIOUS
<1> HIDE DEF j
<1>3. sync'.job = j  BY <1>1
<1>4. shown.lastSeq + Len(pending) <= j.lastSeq  BY <1>2 DEF EventsInv, Collected
<1>5. j.scanned = Cardinality(Pairs(log, j.lastSeq)) /\ (j.ended => ended) /\ (shown.ended => j.ended)
  BY <1>2 DEF Forward
<1>6. QED  BY <1>1, <1>3, <1>4, <1>5 DEF Forward

LEMMA SyncApplyAhead ==
  ASSUME EventsInv, Forward, E!SyncApply
  PROVE  Forward' /\ Ahead
<1>1. /\ UNCHANGED <<log, agg, ended>> /\ sync.at = "answered"
      /\ shown' = [sync.job EXCEPT !.pairs = shown.pairs] /\ sync' = [E!Asked EXCEPT !.at = "idle"]
  BY DEF E!SyncApply, E!server
<1>2. sync.job \in Page /\ shown \in Page /\ Len(log) \in Nat /\ Len(pending) \in Nat
  BY DEF EventsInv, EventTypes
<1> DEFINE n == shown.lastSeq
           m == sync.job.lastSeq
<1>3. /\ shown'.pairs = shown.pairs /\ shown'.lastSeq = m /\ shown'.scanned = sync.job.scanned
      /\ shown'.ended = sync.job.ended /\ sync'.at = "idle"
  BY <1>1, <1>2 DEF Page, E!Asked
<1>4. n \in Nat /\ m \in Nat /\ shown.scanned \in Nat /\ sync.job.scanned \in Nat  BY <1>2 DEF Page
<1>5. /\ n + Len(pending) <= m /\ sync.job.scanned = Cardinality(Pairs(log, m))
      /\ (sync.job.ended => ended) /\ (shown.ended => sync.job.ended)
      /\ shown.pairs \subseteq Pairs(log, n) /\ shown.scanned <= Cardinality(Pairs(log, n))
  BY <1>1 DEF Forward, Counts
<1>6. n \in 0 .. m  BY <1>2, <1>4, <1>5
<1> HIDE DEF n, m
<1>7. /\ Pairs(log, n) \subseteq Pairs(log, m) /\ Cardinality(Pairs(log, n)) <= Cardinality(Pairs(log, m))
      /\ Cardinality(Pairs(log, n)) \in Nat
  BY <1>4, <1>6, PairsGrow, PairsFinite
<1>8. Counts(log, shown', m)  BY <1>3, <1>4, <1>5, <1>7 DEF Counts
<1>9. Forward'  BY <1>1, <1>3, <1>5, <1>8 DEF Forward
<1>10. Ahead  BY <1>3, <1>4, <1>5, <1>6, <1>7 DEF Ahead, n
<1>11. QED  BY <1>9, <1>10

LEMMA ForwardNext ==
  ASSUME EventsInv, Forward, [E!Next]_E!vars
  PROVE  Forward' /\ (Ahead \/ shown' = shown)
<1>1. CASE \E e \in E!Event : E!Publish(e)  BY <1>1, PublishForward
<1>2. CASE E!EndJob  BY <1>2, ForwardKept DEF E!EndJob, E!client
<1>3. CASE E!Handler \/ E!Connect \/ E!Disconnect
  <2>1. UNCHANGED <<log, agg, ended, sync, shown, pending>>
    BY <1>3 DEF E!Handler, E!Send, E!ChannelClosed, E!Resubscribe, E!Connect, E!Disconnect, E!server, E!client
  <2>2. QED  BY <2>1, ForwardKept
<1>4. CASE E!DeliverDone \/ E!Refuse \/ E!SyncFails
  <2>1. UNCHANGED <<log, agg, ended, shown>> /\ sync'.at # "answered"
    BY <1>4 DEF E!DeliverDone, E!Refuse, E!SyncFails, E!Asked, E!server
  <2>2. QED  BY <2>1, ForwardKept
<1>5. CASE E!Deliver
  <2>1. UNCHANGED <<log, agg, ended, sync, shown>> /\ es.at = "open"  BY <1>5 DEF E!Deliver, E!server
  <2>2. sync.at = "idle"  BY <2>1 DEF EventsInv, Collected
  <2>3. QED  BY <2>1, <2>2, ForwardKept
<1>6. CASE E!Frame  BY <1>6, FrameAhead
<1>7. CASE E!SyncServed  BY <1>7, SyncServedForward
<1>8. CASE E!SyncApply  BY <1>8, SyncApplyAhead
<1>9. CASE UNCHANGED E!vars
  <2>1. UNCHANGED <<log, agg, ended, sync, shown, pending>>  BY <1>9 DEF E!vars, E!server, E!client
  <2>2. QED  BY <2>1, ForwardKept
<1>10. QED
  BY <1>1, <1>2, <1>3, <1>4, <1>5, <1>6, <1>7, <1>8, <1>9 DEF E!Next, E!Network, E!SyncStep

-----------------------------------------------------------------------------
(* The theorems *)

LEMMA EventsNext == EventsInv /\ [E!Next]_E!vars => EventsInv'
<1> SUFFICES ASSUME EventsInv, [E!Next]_E!vars PROVE EventsInv'
  OBVIOUS
<1>1. CASE \E e \in E!Event : E!Publish(e)  BY <1>1, PublishInv
<1>2. CASE E!EndJob  BY <1>2, EndJobInv
<1>3. CASE E!Handler  BY <1>3, SendInv, ChannelClosedInv, ResubscribeInv DEF E!Handler
<1>4. CASE E!Network  BY <1>4, ConnectInv, DeliverInv, DeliverDoneInv DEF E!Network
<1>5. CASE E!Disconnect  BY <1>5, DisconnectInv
<1>6. CASE E!Refuse  BY <1>6, RefuseInv
<1>7. CASE E!Frame  BY <1>7, FrameInv
<1>8. CASE E!SyncStep  BY <1>8, SyncServedInv, SyncApplyInv DEF E!SyncStep
<1>9. CASE E!SyncFails  BY <1>9, SyncFailsInv
<1>10. CASE UNCHANGED E!vars
  <2>1. UNCHANGED <<log, agg, ended, sub, wire, es, sync, shown, pending>>
    BY <1>10 DEF E!vars, E!server, E!client
  <2>2. E!ResumeFrom' = E!ResumeFrom  BY <2>1 DEF E!ResumeFrom
  <2>3. QED  BY <2>1, <2>2 DEF EventsInv, EventTypes, PrefixesShown, Collected, OnTheWire, InTheChannel
<1>11. QED
  BY <1>1, <1>2, <1>3, <1>4, <1>5, <1>6, <1>7, <1>8, <1>9, <1>10 DEF E!Next

\* The page, what waits for a frame, the wire and the channel are consecutive
\* pieces of the job's log in every reachable state.
THEOREM EventsInvariance == E!Spec => []EventsInv
BY EventsInit, EventsNext, PTL DEF E!Spec

\* Dropped, disconnected, refused or reloaded, a page shows exactly the first
\* lastSeq events of its job, however many there are.
THEOREM PrefixShown == E!Spec => []PageIsPrefix
<1>1. EventsInv => PageIsPrefix
  BY DEF EventsInv, PrefixesShown, Shows, SinceIn, PageIsPrefix, Since
<1>2. QED  BY <1>1, EventsInvariance, PTL

\* No event is on its way that the page has already had.
THEOREM NothingReplayed == E!Spec => []NeverReplayed
<1>1. ASSUME EventsInv, NEW i \in 1 .. Len(wire), wire[i] # E!Done
      PROVE  wire[i] > shown.lastSeq /\ wire[i] > es.lastId
  <2>1. es.at = "open"  BY <1>1 DEF EventsInv, InTheChannel
  <2>2. shown.lastSeq \in Nat /\ Len(pending) \in Nat /\ es.lastId \in Nat /\ es.after \in Nat
    BY <1>1 DEF EventsInv, EventTypes, Page
  <2>3. E!ResumeFrom = shown.lastSeq + Len(pending)  BY <1>1, <2>1 DEF EventsInv, Collected
  <2>4. wire[i] = E!ResumeFrom + i  BY <1>1 DEF EventsInv, OnTheWire
  <2>5. wire[i] > shown.lastSeq  BY <2>2, <2>3, <2>4
  <2>6. E!ResumeFrom >= es.lastId /\ E!ResumeFrom \in Nat  BY <2>2 DEF E!ResumeFrom
  <2>7. wire[i] > es.lastId  BY <2>2, <2>4, <2>6
  <2>8. QED  BY <2>5, <2>7
<1>2. EventsInv => NeverReplayed  BY <1>1 DEF NeverReplayed, Done, E!Done
<1>3. QED  BY <1>2, EventsInvariance, PTL

\* A snapshot and the stream do not overtake each other: whatever is lost or
\* refused, the page never takes back what it has shown.
THEOREM PageGoesForward == E!Spec => NeverGoesBack
<1>1. EventsInv /\ Forward /\ [E!Next]_E!vars => Forward' /\ [Ahead]_shown  BY ForwardNext
<1>2. E!Spec => [](EventsInv /\ Forward)
  BY <1>1, EventsInit, ForwardInit, EventsNext, PTL DEF E!Spec
<1>3. [Ahead]_shown => [/\ shown'.lastSeq >= shown.lastSeq
                        /\ shown'.scanned >= shown.scanned
                        /\ shown.ended => shown'.ended]_shown
  BY DEF Ahead
<1>4. QED  BY <1>1, <1>2, <1>3, PTL DEF E!Spec, NeverGoesBack
=============================================================================
