---------------------------- MODULE NukeRunProofs ----------------------------
(***************************************************************************)
(* Theorems about the clean-up run, for any regions, types, identifiers and *)
(* answers of Nuke: what it may delete and in which order; that it reports   *)
(* every confirmed resource exactly once; and that everything which counts   *)
(* the outcomes counts the same.                                             *)
(***************************************************************************)
EXTENDS NukeRun, TLAPS, FiniteSetTheorems

Shape ==
  /\ account \in SUBSET Key /\ confirmed \in SUBSET Key /\ listed \in SUBSET Key
  /\ attempted \in SUBSET Key
  /\ at \in [Place -> Worker]
  /\ reports \in [Key -> Seq(Results)]

\* Before the rescan nothing has been started.
Fresh == phase = "rescan" => attempted = {} /\ \A r \in Place : at[r] = Waiting

\* The global region waits for the others, and they do not start again.
GlobalWaits == phase \in {"rescan", "nuke"} => In(GlobalRegion, "waiting")
GlobalAlone == ~In(GlobalRegion, "waiting") => \A r \in Region : In(r, "returned")

\* The batches of a region hold confirmed identifiers of its present type.
Working(r) == In(r, "batches") \/ In(r, "nuking")
Batched(r) ==
  Working(r) =>
    /\ at[r].type \in Type
    /\ \A i \in at[r].left : KeyOf(at[r].type, r, i) \in listed \cap confirmed

\* What was attempted lies behind its region's position.
Reached(k) ==
  /\ k \in listed \cap confirmed
  /\ k.type <= at[k.region].type
  /\ ~In(k.region, "waiting")

\* What a region has left behind it has its answer.
Behind(d) ==
  LET w == at[d.region] IN
  \/ d.type < w.type
  \/ /\ Working(d.region) /\ d.type = w.type /\ d.id \notin w.left
     /\ In(d.region, "nuking") => d.id \notin w.batch
Answered == \A d \in listed \cap confirmed : Behind(d) => reports[d] # <<>>

\* The inductive invariant.
Inv ==
  /\ Shape /\ Fresh /\ GlobalWaits /\ GlobalAlone
  /\ \A r \in Place : Batched(r)
  /\ \A k \in attempted : Reached(k)
  /\ Answered

-----------------------------------------------------------------------------
(* Facts about the operators *)

LEMMA WaitingWorker == Waiting \in Worker
BY BoundAssumption DEF Waiting, Worker

LEMMA KeyFacts ==
  ASSUME NEW t \in Type, NEW r \in Place, NEW i \in Id
  PROVE  /\ KeyOf(t, r, i) \in Key
         /\ KeyOf(t, r, i).type = t
         /\ KeyOf(t, r, i).region = r
         /\ KeyOf(t, r, i).id = i
BY DEF KeyOf, Key

LEMMA KeyParts ==
  ASSUME NEW k \in Key
  PROVE  k.type \in Type /\ k.region \in Place /\ k.id \in Id /\ k = KeyOf(k.type, k.region, k.id)
BY DEF KeyOf, Key

\* Reporting adds one report for each key of either kind.
OneIn(k, S) == IF k \in S THEN 1 ELSE 0

LEMMA EmitLen ==
  ASSUME Shape, NEW A \in SUBSET Key, NEW answered \in [A -> Results],
         NEW rest \in SUBSET Key, NEW e \in Results, Emit(answered, rest, e)
  PROVE  /\ reports' \in [Key -> Seq(Results)]
         /\ \A k \in Key : Len(reports'[k]) = Len(reports[k]) + OneIn(k, A) + OneIn(k, rest)
<1>1. \A k \in Key : reports[k] \in Seq(Results)
  BY DEF Shape
<1>2. DOMAIN answered = A
  OBVIOUS
<1> DEFINE own(k)  == IF k \in A THEN <<answered[k]>> ELSE <<>>
           bare(k) == IF k \in rest THEN <<e>> ELSE <<>>
<1>3. reports' = [k \in Key |-> reports[k] \o own(k) \o bare(k)]
  BY <1>2 DEF Emit
<1>4. ASSUME NEW k \in Key
      PROVE  /\ own(k) \in Seq(Results) /\ bare(k) \in Seq(Results)
             /\ Len(own(k)) = OneIn(k, A) /\ Len(bare(k)) = OneIn(k, rest)
  <2>1. CASE k \in A
    BY <2>1 DEF OneIn
  <2>2. CASE k \notin A
    BY <2>2 DEF OneIn
  <2>3. QED  BY <2>1, <2>2
<1> HIDE DEF own, bare
<1>5. ASSUME NEW k \in Key
      PROVE  /\ reports'[k] \in Seq(Results)
             /\ Len(reports'[k]) = Len(reports[k]) + Len(own(k)) + Len(bare(k))
  BY <1>1, <1>3, <1>4
<1>6. QED  BY <1>3, <1>4, <1>5

\* Reporting never takes a report back, and reports what it is given.
LEMMA EmitReports ==
  ASSUME Shape, NEW A \in SUBSET Key, NEW answered \in [A -> Results],
         NEW rest \in SUBSET Key, NEW e \in Results, Emit(answered, rest, e)
  PROVE  /\ reports' \in [Key -> Seq(Results)]
         /\ \A k \in Key : reports[k] # <<>> \/ k \in A \/ k \in rest => reports'[k] # <<>>
<1>1. /\ reports' \in [Key -> Seq(Results)]
      /\ \A k \in Key : Len(reports'[k]) = Len(reports[k]) + OneIn(k, A) + OneIn(k, rest)
  BY EmitLen
<1>2. ASSUME NEW k \in Key, reports[k] # <<>> \/ k \in A \/ k \in rest
      PROVE  reports'[k] # <<>>
  <2>1. Len(reports[k]) \in Nat /\ (reports[k] # <<>> => Len(reports[k]) > 0)
    BY DEF Shape
  <2>2. /\ OneIn(k, A) \in Nat /\ OneIn(k, rest) \in Nat
        /\ k \in A => OneIn(k, A) > 0
        /\ k \in rest => OneIn(k, rest) > 0
    BY DEF OneIn
  <2>3. Len(reports'[k]) > 0
    BY <1>1, <1>2, <2>1, <2>2
  <2>4. QED  BY <2>3
<1>3. QED  BY <1>1, <1>2

LEMMA InitInv == Init => Inv
<1> SUFFICES ASSUME Init PROVE Inv
  OBVIOUS
<1>1. Shape
  BY WaitingWorker DEF Init, Shape
<1>2. QED
  BY <1>1 DEF Init, Inv, Fresh, GlobalWaits, GlobalAlone, Batched, Working, In, Waiting,
             Answered, Place

-----------------------------------------------------------------------------
(* The run outside the regions, and its environment *)

LEMMA RescanInv == Inv /\ Rescan => Inv'
<1> SUFFICES ASSUME Inv, Rescan PROVE Inv'
  OBVIOUS
<1>1. attempted = {} /\ \A r \in Place : at[r] = Waiting
  BY DEF Inv, Fresh, Rescan
<1>2. listed' \in SUBSET Key /\ UNCHANGED <<account, confirmed, at, attempted, reports>> /\ phase' = "nuke"
  BY DEF Inv, Shape, Rescan
<1>3. Shape' /\ Fresh' /\ GlobalWaits' /\ GlobalAlone'
  BY <1>1, <1>2 DEF Inv, Shape, Fresh, GlobalWaits, GlobalAlone, In, Waiting, Place
<1>4. \A r \in Place : ~Working(r)' /\ at'[r].type = 1
  BY <1>1, <1>2 DEF Working, In, Waiting
<1>5. (\A r \in Place : Batched(r)') /\ (\A k \in attempted : Reached(k))'
  BY <1>1, <1>2, <1>4 DEF Batched
<1>6. Answered'
  <2>1. \A d \in Key : d.type \in Nat \ {0} /\ d.region \in Place
    BY BoundAssumption DEF Key, Type
  <2>2. \A d \in Key : ~Behind(d)'
    BY <1>4, <2>1 DEF Behind
  <2>3. confirmed' \in SUBSET Key
    BY <1>2 DEF Inv, Shape
  <2>4. QED  BY <2>2, <2>3 DEF Answered
<1>7. QED  BY <1>3, <1>5, <1>6 DEF Inv

\* Steps after which everything the invariant speaks of is as before.
LEMMA QuietInv ==
  ASSUME Inv, UNCHANGED <<confirmed, listed, at, attempted, reports>>,
         account' \in SUBSET Key, phase' = phase \/ phase' \notin {"rescan", "nuke"}
  PROVE  Inv'
<1>1. Shape' /\ Fresh' /\ GlobalWaits' /\ GlobalAlone'
  BY DEF Inv, Shape, Fresh, GlobalWaits, GlobalAlone, In
<1>2. (\A r \in Place : Batched(r)') /\ (\A k \in attempted : Reached(k))'
  BY DEF Inv, Batched, Reached, Working, In
<1>3. Answered'
  BY DEF Inv, Answered, Behind, Working, In
<1>4. QED  BY <1>1, <1>2, <1>3 DEF Inv

LEMMA ReportGoneInv == Inv /\ ReportGone => Inv'
<1> SUFFICES ASSUME Inv, ReportGone PROVE Inv'
  OBVIOUS
<1> DEFINE nobody == [k \in {} |-> Gone]
<1>1. Unseen \in SUBSET Key /\ nobody \in [{} -> Results] /\ Gone \in Results
  BY DEF Inv, Shape, Unseen, Results
<1>2. /\ reports' \in [Key -> Seq(Results)]
      /\ \A k \in Key : reports[k] # <<>> => reports'[k] # <<>>
  <2>1. Emit(nobody, Unseen, Gone)
    BY DEF ReportGone
  <2>2. Shape
    BY DEF Inv
  <2> HIDE DEF nobody
  <2>3. QED  BY <1>1, <2>1, <2>2, EmitReports
<1>3. Shape' /\ Fresh' /\ GlobalWaits' /\ GlobalAlone'
  BY <1>2 DEF ReportGone, Inv, Shape, Fresh, GlobalWaits, GlobalAlone, In
<1>4. (\A r \in Place : Batched(r)') /\ (\A k \in attempted : Reached(k))'
  BY DEF ReportGone, Inv, Batched, Reached, Working, In
<1>5. Answered'
  BY <1>2 DEF ReportGone, Inv, Shape, Answered, Behind, Working, In
<1>6. QED  BY <1>3, <1>4, <1>5 DEF Inv

-----------------------------------------------------------------------------
(* The regions *)

\* A region that works moves on: the order of the regions is not touched.
LEMMA MoveOrder ==
  ASSUME Inv, NEW r \in Place, NEW w \in Worker, Put(r, w), phase' = phase,
         w.place # "waiting", ~In(r, "waiting"), ~In(r, "returned")
  PROVE  /\ at' \in [Place -> Worker]
         /\ at'[r] = w /\ \A q \in Place \ {r} : at'[q] = at[q]
         /\ Fresh' /\ GlobalWaits' /\ GlobalAlone'
<1>1. at \in [Place -> Worker]
  BY DEF Inv, Shape
<1>2. /\ at' \in [Place -> Worker]
      /\ at'[r] = w /\ \A q \in Place \ {r} : at'[q] = at[q]
  BY <1>1 DEF Put
<1>3. Fresh'
  BY DEF Inv, Fresh, In, Waiting
<1>4. GlobalWaits' /\ GlobalAlone'
  <2>1. CASE r = GlobalRegion
    BY <1>2, <2>1, RegionAssumption DEF Inv, GlobalWaits, GlobalAlone, In, Place
  <2>2. CASE r # GlobalRegion
    BY <1>2, <2>2 DEF Inv, GlobalWaits, GlobalAlone, In, Place
  <2>3. QED  BY <2>1, <2>2
<1>5. QED  BY <1>2, <1>3, <1>4

LEMMA StartRegionInv ==
  ASSUME Inv, NEW r \in Place, StartRegion(r)
  PROVE  Inv'
<1>1. at \in [Place -> Worker] /\ r \in Region /\ r # GlobalRegion
  BY RegionAssumption DEF StartRegion, Inv, Shape
<1>2. /\ at' = [at EXCEPT ![r] = [at[r] EXCEPT !.place = "next"]]
      /\ UNCHANGED <<account, confirmed, listed, phase, attempted, reports>>
      /\ phase = "nuke" /\ at[r].place = "waiting"
  BY DEF StartRegion, Begin, Put, In
<1>3. [at[r] EXCEPT !.place = "next"] \in Worker
  BY <1>1 DEF Worker
<1>4. /\ at'[r].place = "next" /\ at'[r].type = at[r].type
      /\ \A q \in Place \ {r} : at'[q] = at[q]
      /\ at' \in [Place -> Worker]
  BY <1>1, <1>2, <1>3 DEF Worker
<1>5. Shape' /\ Fresh' /\ GlobalWaits' /\ GlobalAlone'
  BY <1>1, <1>2, <1>4 DEF Inv, Shape, Fresh, GlobalWaits, GlobalAlone, In, Place
<1>6. \A q \in Place : Batched(q)'
  BY <1>2, <1>4 DEF Inv, Batched, Working, In
<1>7. (\A k \in attempted : Reached(k))'
  <2>1. \A k \in attempted : k.region \in Place
    BY DEF Inv, Shape, Key
  <2>2. QED  BY <1>2, <1>4, <2>1 DEF Inv, Reached, In
<1>8. Answered'
  <2>1. \A d \in listed \cap confirmed : d.region \in Place
    BY DEF Inv, Shape, Key
  <2>2. \A d \in listed \cap confirmed : Behind(d)' => Behind(d)
    BY <1>2, <1>4, <2>1 DEF Behind, Working, In
  <2>3. QED  BY <1>2, <2>2 DEF Inv, Answered
<1>9. QED  BY <1>5, <1>6, <1>7, <1>8 DEF Inv

LEMMA StartGlobalInv == Inv /\ StartGlobal => Inv'
<1> SUFFICES ASSUME Inv, StartGlobal PROVE Inv'
  OBVIOUS
<1> DEFINE g == GlobalRegion
<1>1. at \in [Place -> Worker] /\ g \in Place /\ g \notin Region
  BY RegionAssumption DEF Inv, Shape, Place
<1>2. /\ at' = [at EXCEPT ![g] = [at[g] EXCEPT !.place = "next"]]
      /\ UNCHANGED <<account, confirmed, listed, attempted, reports>>
      /\ phase' = "global" /\ at[g].place = "waiting" /\ \A r \in Region : In(r, "returned")
  BY DEF StartGlobal, Begin, Put, In, Inv, GlobalWaits
<1>3. [at[g] EXCEPT !.place = "next"] \in Worker
  BY <1>1 DEF Worker
<1>4. /\ at'[g].place = "next" /\ at'[g].type = at[g].type
      /\ \A q \in Place \ {g} : at'[q] = at[q]
      /\ at' \in [Place -> Worker]
  BY <1>1, <1>2, <1>3 DEF Worker
<1>5. Shape' /\ Fresh' /\ GlobalWaits' /\ GlobalAlone'
  BY <1>1, <1>2, <1>4 DEF Inv, Shape, Fresh, GlobalWaits, GlobalAlone, In, Place
<1>6. \A q \in Place : Batched(q)'
  BY <1>2, <1>4 DEF Inv, Batched, Working, In
<1>7. (\A k \in attempted : Reached(k))'
  <2>1. \A k \in attempted : k.region \in Place
    BY DEF Inv, Shape, Key
  <2>2. QED  BY <1>2, <1>4, <2>1 DEF Inv, Reached, In
<1>8. Answered'
  <2>1. \A d \in listed \cap confirmed : d.region \in Place
    BY DEF Inv, Shape, Key
  <2>2. \A d \in listed \cap confirmed : Behind(d)' => Behind(d)
    BY <1>2, <1>4, <2>1 DEF Behind, Working, In
  <2>3. QED  BY <1>2, <2>2 DEF Inv, Answered
<1>9. QED  BY <1>5, <1>6, <1>7, <1>8 DEF Inv

\* The next type: what the region has behind it grows by a type without a
\* confirmed identifier, or not at all.
LEMMA NextTypeInv ==
  ASSUME Inv, NEW r \in Place, NextType(r)
  PROVE  Inv'
<1> DEFINE t   == at[r].type
           ids == Chosen(t, r)
           w   == IF ids = {} THEN [at[r] EXCEPT !.type = t + 1]
                              ELSE [at[r] EXCEPT !.place = "batches", !.left = ids]
<1>1. /\ Put(r, w) /\ at[r].place = "next" /\ t <= Types
      /\ UNCHANGED <<account, confirmed, listed, phase, attempted, reports>>
  BY DEF NextType, MoreTypes, In
<1>2. at \in [Place -> Worker] /\ at[r] \in Worker /\ t \in Type /\ ids \in SUBSET Id
  BY <1>1, BoundAssumption DEF Inv, Shape, Worker, Type, Chosen
<1> HIDE DEF ids
<1>3. w \in Worker
  <2>1. t + 1 \in 1 .. Types + 1
    BY <1>1, <1>2, BoundAssumption DEF Type
  <2>2. [at[r] EXCEPT !.type = t + 1] \in Worker
    BY <1>2, <2>1 DEF Worker
  <2>3. [at[r] EXCEPT !.place = "batches", !.left = ids] \in Worker
    BY <1>2 DEF Worker
  <2>4. QED  BY <2>2, <2>3
<1>4. /\ w.place = IF ids = {} THEN "next" ELSE "batches"
      /\ w.type = IF ids = {} THEN t + 1 ELSE t
      /\ ids # {} => w.left = ids
  BY <1>1, <1>2 DEF Worker
<1> HIDE DEF w
<1>5. /\ at' \in [Place -> Worker]
      /\ at'[r] = w /\ \A q \in Place \ {r} : at'[q] = at[q]
      /\ Fresh' /\ GlobalWaits' /\ GlobalAlone'
  <2>1. w.place # "waiting" /\ ~In(r, "waiting") /\ ~In(r, "returned")
    BY <1>1, <1>4 DEF In
  <2>2. QED  BY <1>1, <1>3, <2>1, MoveOrder
<1>6. Shape'
  BY <1>1, <1>5 DEF Inv, Shape
<1>7. ASSUME NEW q \in Place
      PROVE  Batched(q)'
  <2>1. CASE q = r
    <3>1. ids # {} => \A i \in ids : KeyOf(t, r, i) \in listed \cap confirmed
      BY DEF ids, Chosen
    <3>2. QED  BY <1>1, <1>2, <1>4, <1>5, <2>1, <3>1 DEF Batched, Working, In
  <2>2. CASE q # r
    BY <1>1, <1>5, <2>2 DEF Inv, Batched, Working, In
  <2>3. QED  BY <2>1, <2>2
<1>8. (\A k \in attempted : Reached(k))'
  <2>1. \A k \in attempted : k.region \in Place /\ k.type \in Nat
    BY DEF Inv, Shape, Key, Type
  <2>2. t \in Nat
    BY <1>2 DEF Type
  <2>3. QED  BY <1>1, <1>4, <1>5, <2>1, <2>2 DEF Inv, Reached, In
<1>9. Answered'
  <2>1. \A d \in listed \cap confirmed : d \in Key
    BY DEF Inv, Shape
  <2>2. ASSUME NEW d \in listed \cap confirmed, Behind(d)'
        PROVE  Behind(d)
    <3>1. d.region \in Place /\ d.type \in Nat /\ d.id \in Id /\ t \in Nat
      BY <1>2, <2>1 DEF Key, Type
    <3>2. CASE d.region # r
      BY <1>1, <1>5, <2>2, <3>1, <3>2 DEF Behind, Working, In
    <3>3. CASE d.region = r /\ d.type = t
      <4>1. d.id \in ids
        BY <2>1, <3>1, <3>3, KeyParts DEF ids, Chosen
      <4>2. QED
        BY <1>4, <1>5, <2>2, <3>1, <3>3, <4>1 DEF Behind, Working, In
    <3>4. CASE d.region = r /\ d.type # t
      BY <1>4, <1>5, <2>2, <3>1, <3>4 DEF Behind, Working, In
    <3>5. QED  BY <3>2, <3>3, <3>4
  <2>3. QED  BY <1>1, <2>2 DEF Inv, Answered
<1>10. QED  BY <1>5, <1>6, <1>7, <1>8, <1>9 DEF Inv

\* The next batch: it leaves what is behind the region as it was.
LEMMA StartBatchInv ==
  ASSUME Inv, NEW r \in Place, StartBatch(r)
  PROVE  Inv'
<1> DEFINE t == at[r].type
<1>1. at \in [Place -> Worker] /\ at[r] \in Worker /\ at[r].place = "batches"
  BY DEF Inv, Shape, StartBatch, In
<1>2. t \in Type /\ \A i \in at[r].left : KeyOf(t, r, i) \in listed \cap confirmed
  BY <1>1 DEF Inv, Batched, Working, In
<1>3. PICK b \in SUBSET at[r].left :
        /\ attempted' = attempted \cup {KeyOf(t, r, i) : i \in b}
        /\ Put(r, [at[r] EXCEPT !.place = "nuking", !.left = at[r].left \ b, !.batch = b])
        /\ UNCHANGED <<account, confirmed, listed, phase, reports>>
  BY DEF StartBatch
<1> DEFINE w == [at[r] EXCEPT !.place = "nuking", !.left = at[r].left \ b, !.batch = b]
           new == {KeyOf(t, r, i) : i \in b}
<1>4. /\ w \in Worker /\ w.place = "nuking" /\ w.type = t
      /\ w.left = at[r].left \ b /\ w.batch = b
  BY <1>1 DEF Worker
<1>5. Put(r, w)
  BY <1>3
<1>6. \A k \in new : k \in listed \cap confirmed /\ k.type = t /\ k.region = r
  <2>1. at[r].left \subseteq Id
    BY <1>1 DEF Worker
  <2>2. QED  BY <1>2, <2>1, KeyFacts
<1>7. attempted' = attempted \cup new
  BY <1>3
<1> HIDE DEF w, new
<1>8. /\ at' \in [Place -> Worker]
      /\ at'[r] = w /\ \A q \in Place \ {r} : at'[q] = at[q]
      /\ Fresh' /\ GlobalWaits' /\ GlobalAlone'
  <2>1. w.place # "waiting" /\ ~In(r, "waiting") /\ ~In(r, "returned")
    BY <1>1, <1>4 DEF In
  <2>2. QED  BY <1>3, <1>4, <1>5, <2>1, MoveOrder
<1>9. Shape'
  BY <1>3, <1>6, <1>7, <1>8 DEF Inv, Shape
<1>10. ASSUME NEW q \in Place
       PROVE  Batched(q)'
  <2>1. CASE q = r
    BY <1>2, <1>3, <1>4, <1>8, <2>1 DEF Batched, Working, In
  <2>2. CASE q # r
    BY <1>3, <1>8, <2>2 DEF Inv, Batched, Working, In
  <2>3. QED  BY <2>1, <2>2
<1>11. ASSUME NEW k \in attempted'
       PROVE  Reached(k)'
  <2>1. CASE k \in new
    BY <1>2, <1>3, <1>4, <1>6, <1>8, <2>1 DEF Reached, In, Type
  <2>2. CASE k \in attempted
    <3>1. k.region \in Place /\ Reached(k)
      BY <2>2 DEF Inv, Shape, Key
    <3>2. QED  BY <1>3, <1>4, <1>8, <3>1 DEF Reached, In
  <2>3. QED  BY <1>7, <2>1, <2>2
<1>12. Answered'
  <2>1. ASSUME NEW d \in listed \cap confirmed, Behind(d)'
        PROVE  Behind(d)
    <3>1. d.region \in Place
      BY DEF Inv, Shape, Key
    <3>2. CASE d.region = r
      BY <1>1, <1>4, <1>8, <2>1, <3>2 DEF Behind, Working, In
    <3>3. CASE d.region # r
      BY <1>8, <2>1, <3>1, <3>3 DEF Behind, Working, In
    <3>4. QED  BY <3>2, <3>3
  <2>2. QED  BY <1>3, <2>1 DEF Inv, Answered
<1>13. QED  BY <1>8, <1>9, <1>10, <1>11, <1>12 DEF Inv

\* Whatever Nuke answers, every identifier of the batch is reported.
LEMMA NukeReturnsInv ==
  ASSUME Inv, NEW r \in Place, NukeReturns(r)
  PROVE  Inv'
<1> DEFINE t == at[r].type
           batch == at[r].batch
           K(ids) == {KeyOf(t, r, i) : i \in ids}
           w == AfterBatch(at[r])
<1>1. at \in [Place -> Worker] /\ at[r] \in Worker /\ at[r].place = "nuking"
  BY DEF Inv, Shape, NukeReturns, In
<1>2. /\ t \in Type /\ batch \in SUBSET Id /\ at[r].left \in SUBSET Id
      /\ \A i \in at[r].left : KeyOf(t, r, i) \in listed \cap confirmed
  BY <1>1 DEF Inv, Batched, Working, In, Worker
<1>3. /\ Put(r, w)
      /\ UNCHANGED <<confirmed, listed, phase, attempted>>
      /\ account' \in SUBSET Key
  BY DEF NukeReturns, Inv, Shape
<1>4. /\ w \in Worker
      /\ \/ w.place = "batches" /\ w.type = t /\ w.left = at[r].left
         \/ w.place = "next" /\ w.type = t + 1 /\ at[r].left = {}
  <2>1. CASE at[r].left # {}
    BY <1>1, <2>1 DEF AfterBatch, Worker
  <2>2. CASE at[r].left = {}
    <3>1. t + 1 \in 1 .. Types + 1
      BY <1>2, BoundAssumption DEF Type
    <3>2. w = [Waiting EXCEPT !.place = "next", !.type = t + 1]
      BY <2>2 DEF AfterBatch
    <3>3. QED  BY <2>2, <3>1, <3>2 DEF Waiting, Worker
  <2>3. QED  BY <2>1, <2>2
<1> HIDE DEF w
<1>5. /\ at' \in [Place -> Worker]
      /\ at'[r] = w /\ \A q \in Place \ {r} : at'[q] = at[q]
      /\ Fresh' /\ GlobalWaits' /\ GlobalAlone'
  <2>1. w.place # "waiting" /\ ~In(r, "waiting") /\ ~In(r, "returned")
    BY <1>1, <1>4 DEF In
  <2>2. QED  BY <1>3, <1>4, <2>1, MoveOrder
<1>6. /\ reports' \in [Key -> Seq(Results)]
      /\ \A k \in Key : reports[k] # <<>> \/ k \in K(batch) => reports'[k] # <<>>
  <2>1. PICK a \in Answers(batch) : \E answered \in [K(a.answered) -> {Deleted, Warned, Failed}] :
          Emit(answered, K(Unanswered(batch, a)), IF a.err = "warning" THEN Warned ELSE Failed)
    BY DEF NukeReturns
  <2>2. PICK answered \in [K(a.answered) -> {Deleted, Warned, Failed}] :
          Emit(answered, K(Unanswered(batch, a)), IF a.err = "warning" THEN Warned ELSE Failed)
    BY <2>1
  <2> DEFINE e == IF a.err = "warning" THEN Warned ELSE Failed
             A == K(a.answered)
             rest == K(Unanswered(batch, a))
  <2>3. a.answered \in SUBSET batch /\ Unanswered(batch, a) \in SUBSET batch
    BY DEF Answers, Unanswered
  <2>4. batch = a.answered \cup Unanswered(batch, a)
    BY <2>3 DEF Answers, Unanswered
  <2>5. \A ids \in SUBSET batch : K(ids) \in SUBSET Key
    BY <1>2, KeyFacts
  <2>6. A \in SUBSET Key /\ rest \in SUBSET Key
    BY <2>3, <2>5
  <2>7. K(batch) = A \cup rest
    BY <2>4
  <2>8. e \in Results /\ answered \in [A -> Results]
    BY <2>2 DEF Results
  <2>9. Emit(answered, rest, e) /\ Shape
    BY <2>2 DEF Inv
  <2> HIDE DEF A, rest, e, K
  <2>10. QED  BY <2>6, <2>7, <2>8, <2>9, EmitReports
<1>7. Shape'
  BY <1>3, <1>5, <1>6 DEF Inv, Shape
<1>8. ASSUME NEW q \in Place
      PROVE  Batched(q)'
  <2>1. CASE q = r
    BY <1>2, <1>3, <1>4, <1>5, <2>1 DEF Batched, Working, In
  <2>2. CASE q # r
    BY <1>3, <1>5, <2>2 DEF Inv, Batched, Working, In
  <2>3. QED  BY <2>1, <2>2
<1>9. (\A k \in attempted : Reached(k))'
  <2>1. \A k \in attempted : k.region \in Place /\ k.type \in Nat
    BY DEF Inv, Shape, Key, Type
  <2>2. t \in Nat
    BY <1>2 DEF Type
  <2>3. QED  BY <1>3, <1>4, <1>5, <2>1, <2>2 DEF Inv, Reached, In
<1>10. Answered'
  <2>1. \A d \in listed \cap confirmed : d \in Key
    BY DEF Inv, Shape
  <2>2. ASSUME NEW d \in listed \cap confirmed, Behind(d)'
        PROVE  reports'[d] # <<>>
    <3>1. d \in Key /\ d.region \in Place /\ d.type \in Nat /\ d.id \in Id /\ t \in Nat
      BY <1>2, <2>1 DEF Key, Type
    <3>2. Behind(d) => reports'[d] # <<>>
      BY <1>6, <3>1 DEF Inv, Answered
    <3>3. CASE d.region # r
      <4>1. Behind(d)
        BY <1>5, <2>2, <3>1, <3>3 DEF Behind, Working, In
      <4>2. QED  BY <3>2, <4>1
    <3>4. CASE d.region = r /\ d.type = t /\ d.id \in batch
      <4>1. d \in K(batch)
        BY <3>1, <3>4, KeyParts
      <4>2. QED  BY <1>6, <3>1, <4>1
    <3>5. CASE d.region = r /\ ~(d.type = t /\ d.id \in batch)
      <4>1. Behind(d)
        BY <1>1, <1>4, <1>5, <2>2, <3>1, <3>5 DEF Behind, Working, In
      <4>2. QED  BY <3>2, <4>1
    <3>6. QED  BY <3>3, <3>4, <3>5
  <2>3. QED  BY <1>3, <2>2 DEF Answered
<1>11. QED  BY <1>5, <1>7, <1>8, <1>9, <1>10 DEF Inv

LEMMA ReturnInv ==
  ASSUME Inv, NEW r \in Place, Return(r)
  PROVE  Inv'
<1> DEFINE w == [at[r] EXCEPT !.place = "returned", !.left = {}]
<1>1. at \in [Place -> Worker] /\ at[r] \in Worker /\ (In(r, "next") \/ In(r, "batches"))
  BY DEF Inv, Shape, Return
<1>2. /\ Put(r, w)
      /\ UNCHANGED <<account, confirmed, listed, phase, attempted, reports>>
  BY DEF Return
<1>3. w \in Worker /\ w.place = "returned" /\ w.type = at[r].type
  BY <1>1 DEF Worker
<1> HIDE DEF w
<1>4. /\ at' \in [Place -> Worker]
      /\ at'[r] = w /\ \A q \in Place \ {r} : at'[q] = at[q]
      /\ Fresh' /\ GlobalWaits' /\ GlobalAlone'
  <2>1. w.place # "waiting" /\ ~In(r, "waiting") /\ ~In(r, "returned")
    BY <1>1, <1>3 DEF In
  <2>2. QED  BY <1>2, <1>3, <2>1, MoveOrder
<1>5. Shape'
  BY <1>2, <1>4 DEF Inv, Shape
<1>6. \A q \in Place : Batched(q)'
  BY <1>2, <1>3, <1>4 DEF Inv, Batched, Working, In
<1>7. (\A k \in attempted : Reached(k))'
  <2>1. \A k \in attempted : k.region \in Place
    BY DEF Inv, Shape, Key
  <2>2. QED  BY <1>2, <1>3, <1>4, <2>1 DEF Inv, Reached, In
<1>8. Answered'
  <2>1. \A d \in listed \cap confirmed : d.region \in Place
    BY DEF Inv, Shape, Key
  <2>2. \A d \in listed \cap confirmed : Behind(d)' => Behind(d)
    BY <1>2, <1>3, <1>4, <2>1 DEF Behind, Working, In
  <2>3. QED  BY <1>2, <2>2 DEF Inv, Answered
<1>9. QED  BY <1>4, <1>5, <1>6, <1>7, <1>8 DEF Inv

-----------------------------------------------------------------------------
(* The invariant, and what follows from it *)

LEMMA NextInv == Inv /\ [Next]_vars => Inv'
<1> SUFFICES ASSUME Inv, [Next]_vars PROVE Inv'
  OBVIOUS
<1>1. CASE Run
  <2>1. CASE RescanFails  BY <2>1, QuietInv DEF RescanFails, Inv, Shape
  <2>2. CASE End          BY <2>2, QuietInv DEF End, Inv, Shape
  <2>3. QED
    BY <1>1, <2>1, <2>2, RescanInv, StartGlobalInv, ReportGoneInv DEF Run
<1>2. ASSUME NEW r \in Place, RegionStep(r)
      PROVE  Inv'
  BY <1>2, StartRegionInv, NextTypeInv, StartBatchInv, NukeReturnsInv, ReturnInv DEF RegionStep
<1>3. CASE Cancel
  BY <1>3, QuietInv DEF Cancel, Inv, Shape
<1>4. ASSUME NEW k \in Key, SomebodyDeletes(k)
      PROVE  Inv'
  BY <1>4, QuietInv DEF SomebodyDeletes, Inv, Shape
<1>5. CASE UNCHANGED vars
  BY <1>5, QuietInv DEF vars, Inv, Shape
<1>6. QED
  BY <1>1, <1>2, <1>3, <1>4, <1>5 DEF Next

\* What a region holds was confirmed and found, what it has attempted lies behind
\* it, and what it has left behind has its answer.
THEOREM Invariance == Spec => []Inv
<1>1. QED  BY InitInv, NextInv, PTL DEF Spec

\* nukeSelected "deletes only the identifiers in `selected`": whatever the regions,
\* types, batches and answers, nothing is passed to Nuke that was not confirmed for
\* that type and region.
THEOREM DeletesOnlyConfirmed == Spec => []OnlyConfirmed
<1>1. Inv => OnlyConfirmed
  BY DEF Inv, Reached, OnlyConfirmed
<1>2. QED  BY <1>1, Invariance, PTL

\* Nothing global is passed to Nuke before every region has returned.
THEOREM GlobalComesLast == Spec => []GlobalLast
<1>1. Inv => GlobalLast
  BY DEF Inv, Reached, GlobalAlone, GlobalLast
<1>2. QED  BY <1>1, Invariance, PTL

\* Registry order is kept: a resource is passed to Nuke after every confirmed
\* resource of its region's earlier types has been answered.
THEOREM RegistryOrderKept == Spec => []DependenciesFirst
<1>1. Inv => DependenciesFirst
  <2> SUFFICES ASSUME Inv, NEW k \in attempted, NEW d \in listed \cap confirmed,
                      d.region = k.region, d.type < k.type
               PROVE  reports[d] # <<>>
    BY DEF DependenciesFirst
  <2>1. k \in Key /\ d \in Key /\ at[k.region].type \in Nat
    BY DEF Inv, Shape, Key, Worker
  <2>2. d.type \in Nat /\ k.type \in Nat /\ k.type <= at[d.region].type
    BY <2>1 DEF Inv, Reached, Key, Type
  <2>3. Behind(d)
    BY <2>1, <2>2 DEF Behind
  <2>4. QED  BY <2>3 DEF Inv, Answered
<1>2. QED  BY <1>1, Invariance, PTL

\* Once the run's context is done, no further batch is started.
THEOREM CancelledStops == Spec => CancelStops
<1>1. [Next]_vars => (cancelled => attempted' = attempted)
  BY DEF Next, vars, Run, Rescan, RescanFails, StartGlobal, ReportGone, End, RegionStep,
         StartRegion, NextType, StartBatch, NukeReturns, Return, Cancel, SomebodyDeletes
<1>2. QED  BY <1>1, PTL DEF Spec, CancelStops

-----------------------------------------------------------------------------
(* Every confirmed resource is reported, and once *)

Final == phase \in {"end", "completed", "aborted"}

\* Nothing is reported twice, or without having been confirmed.
Once == \A k \in Key : Len(reports[k]) <= 1 /\ (k \notin confirmed => reports[k] = <<>>)

\* What a region has not been given an answer for yet.
Ahead(k) ==
  LET w == at[k.region] IN
  \/ k.type > w.type
  \/ k.type = w.type /\ (In(k.region, "waiting") \/ In(k.region, "next"))
  \/ k.type = w.type /\ Working(k.region) /\ k.id \in w.left
  \/ k.type = w.type /\ In(k.region, "nuking") /\ k.id \in w.batch

\* Until the run looks for what is gone, only what a region has seen and left
\* behind it is reported.
Owed == ~Final => \A k \in Key : Ahead(k) \/ k \notin seen => reports[k] = <<>>

SeenOK == seen \subseteq listed \cap confirmed /\ (phase = "rescan" => seen = {})

\* The batches of a region have been seen, and do not overlap.
Held(r) ==
  /\ Working(r) => \A i \in at[r].left : KeyOf(at[r].type, r, i) \in seen
  /\ In(r, "nuking") => \A i \in at[r].batch : KeyOf(at[r].type, r, i) \in seen /\ i \notin at[r].left

\* Only a cancelled run returns from a region early; at its end all have returned.
Exhausted(r) == In(r, "returned") /\ ~cancelled => at[r].type > Types
Still == Final => \A r \in Place : In(r, "waiting") \/ In(r, "returned")

Complete ==
  phase = "completed" \/ (phase = "end" /\ ~cancelled) => \A k \in confirmed : reports[k] # <<>>

\* The inductive invariant.
Told ==
  /\ Once /\ Owed /\ SeenOK
  /\ \A r \in Place : Held(r) /\ Exhausted(r)
  /\ Still /\ Complete

LEMMA EmptyLen ==
  ASSUME NEW s \in Seq(Results)
  PROVE  Len(s) \in Nat /\ (s = <<>> <=> Len(s) = 0)
OBVIOUS

LEMMA OnlyOne == \A n \in Nat : n > 0 /\ n <= 1 => n = 1
OBVIOUS

LEMMA ToldInit == Init => Told
BY BoundAssumption DEF Init, Told, Once, Owed, SeenOK, Held, Exhausted, Still, Complete, Final,
   Working, In, Waiting

-----------------------------------------------------------------------------
(* The run outside the regions, and its environment *)

LEMMA RescanTold == Inv /\ Told /\ Rescan => Told'
<1> SUFFICES ASSUME Inv, Told, Rescan PROVE Told'
  OBVIOUS
<1>1. /\ phase = "rescan" /\ phase' = "nuke" /\ seen' = {} /\ seen = {}
      /\ UNCHANGED <<confirmed, cancelled, at, reports>>
  BY DEF Rescan, Told, SeenOK
<1>2. Once' /\ SeenOK' /\ Still' /\ Complete'
  BY <1>1 DEF Told, Once, SeenOK, Still, Complete, Final
<1>3. Owed'
  BY <1>1 DEF Told, Owed, Final
<1>4. \A r \in Place : (Held(r) /\ Exhausted(r))'
  BY <1>1 DEF Told, Held, Exhausted, Working, In
<1>5. QED  BY <1>2, <1>3, <1>4 DEF Told

\* Steps that move nothing but the account and the context, or end the run early.
LEMMA QuietTold ==
  ASSUME Told, UNCHANGED <<confirmed, listed, at, seen, reports>>,
         cancelled => cancelled',
         \/ phase' = phase
         \/ Inv /\ phase = "rescan" /\ phase' = "aborted"
         \/ End
  PROVE  Told'
<1>1. Once' /\ SeenOK' /\ \A r \in Place : (Held(r) /\ Exhausted(r))'
  BY DEF Told, Once, SeenOK, Held, Exhausted, Working, In, End
<1>2. Owed'
  BY DEF Told, Owed, Final, Ahead, Working, In, End
<1>3. Still'
  <2>1. CASE Inv /\ phase = "rescan"
    BY <2>1 DEF Inv, Fresh, Still, In, Waiting
  <2>2. CASE phase' = phase \/ End
    BY <2>2 DEF Told, Still, Final, In, End
  <2>3. QED  BY <2>1, <2>2
<1>4. Complete'
  BY DEF Told, Complete, End
<1>5. QED  BY <1>1, <1>2, <1>3, <1>4 DEF Told

LEMMA ReportGoneTold == Inv /\ Told /\ ReportGone => Told'
<1> SUFFICES ASSUME Inv, Told, ReportGone PROVE Told'
  OBVIOUS
<1> DEFINE nobody == [k \in {} |-> Gone]
<1>1. Unseen \in SUBSET Key /\ nobody \in [{} -> Results] /\ Gone \in Results
  BY DEF Inv, Shape, Unseen, Results
<1>2. /\ reports' \in [Key -> Seq(Results)]
      /\ \A k \in Key : Len(reports'[k]) = Len(reports[k]) + OneIn(k, {}) + OneIn(k, Unseen)
  <2>1. Emit(nobody, Unseen, Gone)
    BY DEF ReportGone
  <2>2. Shape
    BY DEF Inv
  <2> HIDE DEF nobody
  <2>3. QED  BY <1>1, <2>1, <2>2, EmitLen
<1>3. /\ phase = "global" /\ phase' = "end" /\ In(GlobalRegion, "returned")
      /\ UNCHANGED <<confirmed, listed, cancelled, at, seen>>
  BY DEF ReportGone
<1>4. \A r \in Place : In(r, "returned")
  BY <1>3 DEF Inv, GlobalAlone, In, Place
<1>5. ASSUME NEW k \in Key
      PROVE  /\ reports[k] \in Seq(Results) /\ reports'[k] \in Seq(Results)
             /\ k \in Unseen => reports[k] = <<>> /\ Len(reports'[k]) = 1
             /\ k \notin Unseen => Len(reports'[k]) = Len(reports[k])
  <2>1. reports[k] \in Seq(Results) /\ reports'[k] \in Seq(Results)
    BY <1>2 DEF Inv, Shape
  <2>2. k \in Unseen => reports[k] = <<>>
    BY <1>3 DEF Told, Owed, Final, Unseen
  <2>3. OneIn(k, {}) = 0 /\ OneIn(k, Unseen) = IF k \in Unseen THEN 1 ELSE 0
    BY DEF OneIn
  <2>4. Len(reports'[k]) = Len(reports[k]) + OneIn(k, {}) + OneIn(k, Unseen)
    BY <1>2
  <2>5. Len(reports[k]) \in Nat /\ (reports[k] = <<>> => Len(reports[k]) = 0)
    BY <2>1, EmptyLen
  <2> HIDE DEF Unseen
  <2>6. QED  BY <2>1, <2>2, <2>3, <2>4, <2>5
<1>6. Once'
  <2> SUFFICES ASSUME NEW k \in Key
               PROVE  Len(reports'[k]) <= 1 /\ (k \notin confirmed => reports'[k] = <<>>)
    BY <1>3 DEF Once
  <2>1. Len(reports[k]) <= 1 /\ (k \notin confirmed => reports[k] = <<>>)
    BY DEF Told, Once
  <2>2. CASE k \in Unseen
    <3>1. k \in confirmed /\ Len(reports'[k]) = 1
      BY <1>5, <2>2 DEF Unseen
    <3>2. QED  BY <3>1
  <2>3. CASE k \notin Unseen
    BY <1>5, <2>1, <2>3, EmptyLen
  <2>4. QED  BY <2>2, <2>3
<1>7. Owed' /\ SeenOK' /\ Still'
  BY <1>3, <1>4 DEF Told, Owed, SeenOK, Still, Final, In
<1>8. \A r \in Place : (Held(r) /\ Exhausted(r))'
  BY <1>3 DEF Told, Held, Exhausted, Working, In
<1>9. Complete'
  <2> SUFFICES ASSUME ~cancelled, NEW k \in confirmed
               PROVE  reports'[k] # <<>>
    BY <1>3 DEF Complete
  <2>1. k \in Key
    BY DEF Inv, Shape
  <2>2. CASE k \in Unseen
    BY <1>5, <2>1, <2>2
  <2>3. CASE k \notin Unseen
    <3>1. k \in listed \cap confirmed
      BY <2>3 DEF Unseen, Told, SeenOK
    <3>2. k.region \in Place /\ k.type \in Type
      BY <2>1, KeyParts
    <3>3. at[k.region].type > Types /\ at[k.region].type \in Nat
      BY <1>4, <3>2, BoundAssumption DEF Told, Exhausted, Inv, Shape, Worker
    <3>4. Behind(k)
      BY <3>2, <3>3, BoundAssumption DEF Behind, Type
    <3>5. reports[k] # <<>>
      BY <3>1, <3>4 DEF Inv, Answered
    <3>6. QED  BY <1>5, <2>1, <2>3, <3>5
  <2>4. QED  BY <2>2, <2>3
<1>10. QED  BY <1>6, <1>7, <1>8, <1>9 DEF Told

-----------------------------------------------------------------------------
(* The regions *)

\* A region starts.
LEMMA BeginTold ==
  ASSUME Inv, Told, NEW r \in Place, Begin(r), In(r, "waiting"),
         phase \in {"nuke", "global"} \/ ~Final, ~Final', phase' # "rescan",
         UNCHANGED <<confirmed, listed, cancelled, seen, reports>>
  PROVE  Told'
<1>1. at \in [Place -> Worker] /\ at' = [at EXCEPT ![r] = [at[r] EXCEPT !.place = "next"]]
  BY DEF Begin, Put, Inv, Shape
<1>2. /\ at'[r].place = "next" /\ at'[r].type = at[r].type
      /\ \A q \in Place \ {r} : at'[q] = at[q]
  BY <1>1 DEF Worker
<1>3. Once' /\ SeenOK' /\ Still' /\ Complete'
  BY DEF Told, Once, SeenOK, Still, Complete, Final
<1>4. \A q \in Place : (Held(q) /\ Exhausted(q))'
  BY <1>2 DEF Told, Held, Exhausted, Working, In
<1>5. Owed'
  <2>1. \A k \in Key : k.region \in Place
    BY DEF Key
  <2>2. \A k \in Key : Ahead(k)' => Ahead(k)
    BY <1>2, <2>1 DEF Ahead, Working, In
  <2>3. ~Final
    BY DEF Final
  <2>4. QED  BY <2>2, <2>3 DEF Told, Owed
<1>6. QED  BY <1>3, <1>4, <1>5 DEF Told

\* The next type: what it has is seen, and nothing of it is reported yet.
LEMMA NextTypeTold ==
  ASSUME Inv, Told, NEW r \in Place, NextType(r)
  PROVE  Told'
<1> DEFINE t   == at[r].type
           ids == Chosen(t, r)
           new == {KeyOf(t, r, i) : i \in ids}
           w   == IF ids = {} THEN [at[r] EXCEPT !.type = t + 1]
                              ELSE [at[r] EXCEPT !.place = "batches", !.left = ids]
<1>1. /\ at' = [at EXCEPT ![r] = w] /\ at[r].place = "next" /\ t <= Types
      /\ seen' = seen \cup new /\ ~cancelled
      /\ UNCHANGED <<account, confirmed, listed, cancelled, phase, attempted, reports>>
  BY DEF NextType, MoreTypes, In, Put
<1>2. at \in [Place -> Worker] /\ at[r] \in Worker /\ t \in Type /\ ids \in SUBSET Id
  BY <1>1, BoundAssumption DEF Inv, Shape, Worker, Type, Chosen
<1>3. /\ new \subseteq listed \cap confirmed
      /\ \A k \in new : k \in Key /\ k.type = t /\ k.region = r /\ k.id \in ids
      /\ \A i \in ids : KeyOf(t, r, i) \in new
  BY <1>2, KeyFacts DEF Chosen
<1> HIDE DEF ids
<1>4. /\ w.place = IF ids = {} THEN "next" ELSE "batches"
      /\ w.type = IF ids = {} THEN t + 1 ELSE t
      /\ ids # {} => w.left = ids
      /\ ids = {} => new = {}
  BY <1>1, <1>2 DEF Worker
<1> HIDE DEF w, new
<1>5. at'[r] = w /\ \A q \in Place \ {r} : at'[q] = at[q]
  BY <1>1, <1>2
<1>6. ~Final /\ phase # "rescan"
  BY <1>1 DEF Told, Still, Inv, Fresh, In, Waiting
<1>7. Once' /\ SeenOK' /\ Still' /\ Complete'
  BY <1>1, <1>3, <1>6 DEF Told, Once, SeenOK, Still, Complete, Final
<1>8. ASSUME NEW q \in Place
      PROVE  (Held(q) /\ Exhausted(q))'
  <2>1. CASE q = r
    BY <1>1, <1>3, <1>4, <1>5, <2>1 DEF Held, Exhausted, Working, In
  <2>2. CASE q # r
    BY <1>1, <1>5, <2>2 DEF Told, Held, Exhausted, Working, In
  <2>3. QED  BY <2>1, <2>2
<1>9. ASSUME NEW k \in Key, Ahead(k)' \/ k \notin seen'
      PROVE  reports[k] = <<>>
  <2>1. k.region \in Place /\ k.type \in Nat /\ t \in Nat
    BY <1>2 DEF Key, Type
  <2>2. CASE k \notin seen
    BY <1>6, <2>2 DEF Told, Owed
  <2>3. CASE Ahead(k)'
    <3>1. Ahead(k)
      <4>1. CASE k.region = r
        BY <1>1, <1>4, <1>5, <2>1, <2>3, <4>1 DEF Ahead, Working, In
      <4>2. CASE k.region # r
        BY <1>5, <2>1, <2>3, <4>2 DEF Ahead, Working, In
      <4>3. QED  BY <4>1, <4>2
    <3>2. QED  BY <1>6, <3>1 DEF Told, Owed
  <2>4. QED  BY <1>1, <1>9, <2>2, <2>3
<1>10. Owed'
  BY <1>1, <1>9 DEF Owed
<1>11. QED  BY <1>7, <1>8, <1>10 DEF Told

\* The next batch: part of what was left is now in Nuke's hands.
LEMMA StartBatchTold ==
  ASSUME Inv, Told, NEW r \in Place, StartBatch(r)
  PROVE  Told'
<1> DEFINE t == at[r].type
<1>1. at \in [Place -> Worker] /\ at[r] \in Worker /\ at[r].place = "batches"
  BY DEF Inv, Shape, StartBatch, In
<1>2. PICK b \in SUBSET at[r].left :
        Put(r, [at[r] EXCEPT !.place = "nuking", !.left = at[r].left \ b, !.batch = b])
  BY DEF StartBatch
<1>3. UNCHANGED <<account, confirmed, listed, cancelled, phase, seen, reports>>
  BY DEF StartBatch
<1> DEFINE w == [at[r] EXCEPT !.place = "nuking", !.left = at[r].left \ b, !.batch = b]
<1>4. /\ w.place = "nuking" /\ w.type = t
      /\ w.left = at[r].left \ b /\ w.batch = b
  BY <1>1 DEF Worker
<1>5. at'[r] = w /\ \A q \in Place \ {r} : at'[q] = at[q]
  BY <1>1, <1>2 DEF Put
<1> HIDE DEF w
<1>6. ~Final
  BY <1>1 DEF Told, Still, In
<1>7. Once' /\ SeenOK' /\ Still' /\ Complete'
  BY <1>3, <1>6 DEF Told, Once, SeenOK, Still, Complete, Final
<1>8. ASSUME NEW q \in Place
      PROVE  (Held(q) /\ Exhausted(q))'
  <2>1. CASE q = r
    BY <1>1, <1>3, <1>4, <1>5, <2>1 DEF Told, Held, Exhausted, Working, In
  <2>2. CASE q # r
    BY <1>3, <1>5, <2>2 DEF Told, Held, Exhausted, Working, In
  <2>3. QED  BY <2>1, <2>2
<1>9. ASSUME NEW k \in Key, Ahead(k)'
      PROVE  Ahead(k)
  <2>1. k.region \in Place
    BY DEF Key
  <2>2. CASE k.region = r
    BY <1>1, <1>4, <1>5, <1>9, <2>2 DEF Ahead, Working, In
  <2>3. CASE k.region # r
    BY <1>5, <1>9, <2>1, <2>3 DEF Ahead, Working, In
  <2>4. QED  BY <2>2, <2>3
<1>10. Owed'
  BY <1>3, <1>6, <1>9 DEF Told, Owed, Final
<1>11. QED  BY <1>7, <1>8, <1>10 DEF Told

\* Whatever Nuke answers, every identifier of the batch gets its only report.
LEMMA NukeReturnsTold ==
  ASSUME Inv, Told, NEW r \in Place, NukeReturns(r)
  PROVE  Told'
<1> DEFINE t == at[r].type
           batch == at[r].batch
           K(ids) == {KeyOf(t, r, i) : i \in ids}
           w == AfterBatch(at[r])
<1>1. at \in [Place -> Worker] /\ at[r] \in Worker /\ at[r].place = "nuking"
  BY DEF Inv, Shape, NukeReturns, In
<1>2. t \in Type /\ batch \in SUBSET Id /\ at[r].left \in SUBSET Id
  BY <1>1 DEF Inv, Batched, Working, In, Worker
<1>3. /\ at' = [at EXCEPT ![r] = w]
      /\ UNCHANGED <<confirmed, listed, cancelled, phase, seen>>
  BY DEF NukeReturns, Put
<1>4. \/ w.place = "batches" /\ w.type = t /\ w.left = at[r].left
      \/ w.place = "next" /\ w.type = t + 1
  <2>1. CASE at[r].left # {}
    BY <1>1, <2>1 DEF AfterBatch, Worker
  <2>2. CASE at[r].left = {}
    BY <2>2 DEF AfterBatch, Waiting
  <2>3. QED  BY <2>1, <2>2
<1> HIDE DEF w
<1>5. at'[r] = w /\ \A q \in Place \ {r} : at'[q] = at[q]
  BY <1>1, <1>3
<1>6. ~Final
  BY <1>1 DEF Told, Still, In
<1>7. \A k \in K(batch) : /\ k \in Key /\ k \in seen /\ k \in confirmed
                          /\ k.type = t /\ k.region = r /\ k.id \in batch /\ k.id \notin at[r].left
  <2>1. \A i \in batch : KeyOf(t, r, i) \in seen /\ i \notin at[r].left
    BY <1>1 DEF Told, Held, In
  <2>2. QED  BY <1>2, <2>1, KeyFacts DEF Told, SeenOK
<1>8. \A k \in K(batch) : reports[k] = <<>>
  <2>1. \A k \in K(batch) : k \in Key /\ Ahead(k)
    BY <1>1, <1>7 DEF Ahead, In
  <2>2. QED  BY <1>6, <2>1 DEF Told, Owed
<1>9. /\ reports' \in [Key -> Seq(Results)]
      /\ \A k \in Key : Len(reports'[k]) = Len(reports[k]) + OneIn(k, K(batch))
  <2>1. PICK a \in Answers(batch) : \E answered \in [K(a.answered) -> {Deleted, Warned, Failed}] :
          Emit(answered, K(Unanswered(batch, a)), IF a.err = "warning" THEN Warned ELSE Failed)
    BY DEF NukeReturns
  <2>2. PICK answered \in [K(a.answered) -> {Deleted, Warned, Failed}] :
          Emit(answered, K(Unanswered(batch, a)), IF a.err = "warning" THEN Warned ELSE Failed)
    BY <2>1
  <2> DEFINE e == IF a.err = "warning" THEN Warned ELSE Failed
             A == K(a.answered)
             rest == K(Unanswered(batch, a))
  <2>3. /\ a.answered \in SUBSET batch /\ Unanswered(batch, a) \in SUBSET batch
        /\ a.answered \cap Unanswered(batch, a) = {}
        /\ batch = a.answered \cup Unanswered(batch, a)
    BY DEF Answers, Unanswered
  <2>4. \A ids \in SUBSET batch : K(ids) \in SUBSET Key
    BY <1>2, KeyFacts
  <2>5. A \in SUBSET Key /\ rest \in SUBSET Key
    BY <2>3, <2>4
  <2>6. K(batch) = A \cup rest
    BY <2>3
  <2>7. A \cap rest = {}
    BY <1>2, <2>3, KeyFacts
  <2>8. e \in Results /\ answered \in [A -> Results]
    BY <2>2 DEF Results
  <2>9. Emit(answered, rest, e) /\ Shape
    BY <2>2 DEF Inv
  <2> HIDE DEF A, rest, e, K
  <2>10. /\ reports' \in [Key -> Seq(Results)]
         /\ \A k \in Key : Len(reports'[k]) = Len(reports[k]) + OneIn(k, A) + OneIn(k, rest)
    BY <2>5, <2>8, <2>9, EmitLen
  <2>11. ASSUME NEW k \in Key
         PROVE  Len(reports'[k]) = Len(reports[k]) + OneIn(k, K(batch))
    <3>1. Len(reports[k]) \in Nat
      BY <2>9 DEF Shape
    <3>2. OneIn(k, A) + OneIn(k, rest) = OneIn(k, K(batch))
      BY <2>6, <2>7 DEF OneIn
    <3>3. OneIn(k, A) \in Nat /\ OneIn(k, rest) \in Nat
      BY DEF OneIn
    <3>4. Len(reports'[k]) = Len(reports[k]) + OneIn(k, A) + OneIn(k, rest)
      BY <2>10
    <3>5. QED  BY <3>1, <3>2, <3>3, <3>4
  <2>12. QED  BY <2>10, <2>11
<1>10. ASSUME NEW k \in Key
       PROVE  /\ reports[k] \in Seq(Results) /\ reports'[k] \in Seq(Results)
              /\ k \in K(batch) => Len(reports'[k]) = 1
              /\ k \notin K(batch) => Len(reports'[k]) = Len(reports[k])
  <2>1. reports[k] \in Seq(Results) /\ reports'[k] \in Seq(Results)
    BY <1>9 DEF Inv, Shape
  <2> HIDE DEF K
  <2>2. OneIn(k, K(batch)) = IF k \in K(batch) THEN 1 ELSE 0
    BY DEF OneIn
  <2>3. Len(reports'[k]) = Len(reports[k]) + OneIn(k, K(batch))
    BY <1>9
  <2>4. Len(reports[k]) \in Nat /\ (reports[k] = <<>> => Len(reports[k]) = 0)
    BY <2>1, EmptyLen
  <2>5. k \in K(batch) => reports[k] = <<>>
    BY <1>8
  <2>6. CASE k \in K(batch)
    <3>1. Len(reports[k]) = 0 /\ OneIn(k, K(batch)) = 1
      BY <2>2, <2>4, <2>5, <2>6
    <3>2. Len(reports'[k]) = 1
      BY <2>3, <3>1
    <3>3. QED  BY <2>1, <2>6, <3>2
  <2>7. CASE k \notin K(batch)
    <3>1. OneIn(k, K(batch)) = 0
      BY <2>2, <2>7
    <3>2. Len(reports'[k]) = Len(reports[k])
      BY <2>3, <2>4, <3>1
    <3>3. QED  BY <2>1, <2>7, <3>2
  <2>8. QED  BY <2>6, <2>7
<1>11. Once'
  <2> SUFFICES ASSUME NEW k \in Key
               PROVE  Len(reports'[k]) <= 1 /\ (k \notin confirmed => reports'[k] = <<>>)
    BY <1>3 DEF Once
  <2>1. Len(reports[k]) <= 1 /\ (k \notin confirmed => reports[k] = <<>>)
    BY DEF Told, Once
  <2>2. CASE k \in K(batch)
    <3>1. k \in confirmed
      BY <1>7, <2>2
    <3> HIDE DEF K
    <3>2. Len(reports'[k]) = 1
      BY <1>10, <2>2
    <3>3. QED  BY <3>1, <3>2
  <2> HIDE DEF K
  <2>3. CASE k \notin K(batch)
    BY <1>10, <2>1, <2>3, EmptyLen
  <2>4. QED  BY <2>2, <2>3
<1>12. SeenOK' /\ Still' /\ Complete'
  BY <1>3, <1>6 DEF Told, SeenOK, Still, Complete, Final
<1>13. ASSUME NEW q \in Place
       PROVE  (Held(q) /\ Exhausted(q))'
  <2>1. CASE q = r
    BY <1>1, <1>3, <1>4, <1>5, <2>1 DEF Told, Held, Exhausted, Working, In
  <2>2. CASE q # r
    BY <1>3, <1>5, <2>2 DEF Told, Held, Exhausted, Working, In
  <2>3. QED  BY <2>1, <2>2
<1>14. ASSUME NEW k \in Key, Ahead(k)' \/ k \notin seen
       PROVE  reports'[k] = <<>>
  <2>1. k.region \in Place /\ k.type \in Nat /\ t \in Nat
    BY <1>2 DEF Key, Type
  <2>2. k \notin K(batch)
    <3>1. CASE k \notin seen
      BY <1>7, <3>1
    <3>2. CASE Ahead(k)' /\ k \in K(batch)
      <4>1. k.type = t /\ k.region = r /\ k.id \notin at[r].left
        BY <1>7, <3>2
      <4>2. QED  BY <1>4, <1>5, <2>1, <3>2, <4>1 DEF Ahead, Working, In
    <3>3. QED  BY <1>14, <3>1, <3>2
  <2>3. Ahead(k)' => Ahead(k)
    <3>1. CASE k.region = r
      BY <1>1, <1>4, <1>5, <2>1, <3>1 DEF Ahead, Working, In
    <3>2. CASE k.region # r
      BY <1>5, <2>1, <3>2 DEF Ahead, Working, In
    <3>3. QED  BY <3>1, <3>2
  <2>4. reports[k] = <<>>
    BY <1>6, <1>14, <2>3 DEF Told, Owed
  <2> HIDE DEF K
  <2>5. QED  BY <1>10, <2>2, <2>4
<1>15. Owed'
  BY <1>3, <1>14 DEF Owed
<1>16. QED  BY <1>11, <1>12, <1>13, <1>15 DEF Told

LEMMA ReturnTold ==
  ASSUME Inv, Told, NEW r \in Place, Return(r)
  PROVE  Told'
<1> DEFINE w == [at[r] EXCEPT !.place = "returned", !.left = {}]
<1>1. /\ at \in [Place -> Worker] /\ at[r] \in Worker
      /\ \/ In(r, "next") /\ (cancelled \/ ~MoreTypes(r))
         \/ In(r, "batches") /\ cancelled
  <2>1. at \in [Place -> Worker] /\ at[r] \in Worker
    BY DEF Inv, Shape
  <2>2. \/ In(r, "next") /\ (cancelled \/ ~MoreTypes(r))
        \/ In(r, "batches") /\ cancelled
    BY DEF Return
  <2>3. QED  BY <2>1, <2>2
<1>2. /\ at' = [at EXCEPT ![r] = w]
      /\ UNCHANGED <<confirmed, listed, cancelled, phase, seen, reports>>
  BY DEF Return, Put
<1>3. w.place = "returned" /\ w.type = at[r].type /\ at[r].type \in Nat
  BY <1>1, BoundAssumption DEF Worker
<1> HIDE DEF w
<1>4. at'[r] = w /\ \A q \in Place \ {r} : at'[q] = at[q]
  BY <1>1, <1>2
<1>5. ~Final
  BY <1>1 DEF Told, Still, In
<1>6. Once' /\ SeenOK' /\ Still' /\ Complete'
  BY <1>2, <1>5 DEF Told, Once, SeenOK, Still, Complete, Final
<1>7. ASSUME NEW q \in Place
      PROVE  (Held(q) /\ Exhausted(q))'
  <2>1. CASE q = r
    BY <1>1, <1>2, <1>3, <1>4, <2>1, BoundAssumption DEF Held, Exhausted, Working, In, MoreTypes
  <2>2. CASE q # r
    BY <1>2, <1>4, <2>2 DEF Told, Held, Exhausted, Working, In
  <2>3. QED  BY <2>1, <2>2
<1>8. ASSUME NEW k \in Key, Ahead(k)'
      PROVE  Ahead(k)
  <2>1. k.region \in Place
    BY DEF Key
  <2>2. QED  BY <1>3, <1>4, <1>8, <2>1 DEF Ahead, Working, In
<1>9. Owed'
  BY <1>2, <1>5, <1>8 DEF Told, Owed
<1>10. QED  BY <1>6, <1>7, <1>9 DEF Told

-----------------------------------------------------------------------------
(* The theorem *)

LEMMA NextTold == Inv /\ Told /\ [Next]_vars => Told'
<1> SUFFICES ASSUME Inv, Told, [Next]_vars PROVE Told'
  OBVIOUS
<1>1. CASE Run
  <2>1. CASE RescanFails  BY <2>1, QuietTold DEF RescanFails
  <2>2. CASE End          BY <2>2, QuietTold DEF End
  <2>3. CASE StartGlobal
    BY <2>3, BeginTold DEF StartGlobal, Inv, GlobalWaits, Place, Final
  <2>4. QED
    BY <1>1, <2>1, <2>2, <2>3, RescanTold, ReportGoneTold DEF Run
<1>2. ASSUME NEW r \in Place, RegionStep(r)
      PROVE  Told'
  <2>1. CASE StartRegion(r)
    BY <2>1, BeginTold DEF StartRegion, Final
  <2>2. QED
    BY <1>2, <2>1, NextTypeTold, StartBatchTold, NukeReturnsTold, ReturnTold DEF RegionStep
<1>3. CASE Cancel
  BY <1>3, QuietTold DEF Cancel
<1>4. ASSUME NEW k \in Key, SomebodyDeletes(k)
      PROVE  Told'
  BY <1>4, QuietTold DEF SomebodyDeletes
<1>5. CASE UNCHANGED vars
  BY <1>5, QuietTold DEF vars
<1>6. QED
  BY <1>1, <1>2, <1>3, <1>4, <1>5 DEF Next

\* However Nuke splits its answers between results and a bare error, whichever
\* listers fail and whenever the run is cancelled, no resource is reported twice or
\* without having been confirmed, and a run that completes has reported them all.
THEOREM ReportsOnce == Spec => []ReportedOnce
<1>1. Inv /\ Told => ReportedOnce
  <2> SUFFICES ASSUME Inv, Told, NEW k \in Key
               PROVE  /\ Len(reports[k]) <= 1
                      /\ k \notin confirmed => reports[k] = <<>>
                      /\ phase = "completed" /\ k \in confirmed => Len(reports[k]) = 1
    BY DEF ReportedOnce
  <2>1. reports[k] \in Seq(Results)
    BY DEF Inv, Shape
  <2>2. Len(reports[k]) <= 1 /\ (k \notin confirmed => reports[k] = <<>>)
    BY DEF Told, Once
  <2>3. phase = "completed" /\ k \in confirmed => reports[k] # <<>>
    BY DEF Told, Complete
  <2>4. Len(reports[k]) \in Nat /\ (reports[k] # <<>> => Len(reports[k]) > 0)
    BY <2>1, EmptyLen
  <2>5. phase = "completed" /\ k \in confirmed => Len(reports[k]) = 1
    <3> SUFFICES ASSUME phase = "completed", k \in confirmed
                 PROVE  Len(reports[k]) = 1
      OBVIOUS
    <3>1. Len(reports[k]) > 0
      BY <2>3, <2>4
    <3>2. Len(reports[k]) \in Nat /\ Len(reports[k]) <= 1
      BY <2>2, <2>4
    <3>3. QED  BY <3>1, <3>2, OnlyOne
  <2>6. QED  BY <2>2, <2>5
<1>2. QED
  BY <1>1, Invariance, ToldInit, NextTold, PTL DEF Spec

-----------------------------------------------------------------------------
(* The counts *)

\* The resources with an outcome, and those with a given one.
Reported == {k \in Key : reports[k] # <<>>}
Of(o)    == {k \in Reported : Tally(reports[k][1]) = o}

\* Every event was counted once, under its outcome.
Counted == summary = [o \in Outcomes |-> Cardinality(Of(o))]

LEMMA KeysFinite == IsFiniteSet(Key)
<1> DEFINE P == (Type \X Place) \X Id
           f == [x \in P |-> KeyOf(x[1][1], x[1][2], x[2])]
<1>1. IsFiniteSet(Type)
  BY BoundAssumption, FS_Interval DEF Type
<1>2. IsFiniteSet(Place)
  BY FiniteAssumption, FS_AddElement DEF Place
<1>3. IsFiniteSet(P)
  <2>1. IsFiniteSet(Type \X Place)  BY <1>1, <1>2, FS_Product
  <2>2. QED  BY <2>1, FiniteAssumption, FS_Product
<1>4. f \in Surjection(P, Key)
  <2>1. ASSUME NEW k \in Key PROVE \E x \in P : f[x] = k
    <3> DEFINE x == <<<<k.type, k.region>>, k.id>>
    <3>1. x \in P  BY DEF Key
    <3>2. f[x] = k  BY <3>1 DEF Key, KeyOf
    <3>3. QED  BY <3>1, <3>2
  <2>2. \A x \in P : f[x] \in Key  BY DEF Key, KeyOf
  <2>3. f \in [P -> Key]  BY <2>2
  <2> HIDE DEF f, P
  <2>4. QED  BY <2>1, <2>3 DEF Surjection
<1> HIDE DEF f, P
<1>5. QED  BY <1>3, <1>4, FS_Surjection

LEMMA Parts ==
  /\ IsFiniteSet(Reported) /\ Reported \subseteq Key
  /\ \A o : IsFiniteSet(Of(o)) /\ Of(o) \subseteq Reported /\ Cardinality(Of(o)) \in Nat
<1>1. Reported \subseteq Key /\ \A o : Of(o) \subseteq Reported  BY DEF Reported, Of
<1>2. IsFiniteSet(Reported)  BY <1>1, KeysFinite, FS_Subset
<1>3. \A o : IsFiniteSet(Of(o))  BY <1>1, <1>2, FS_Subset
<1>4. QED  BY <1>1, <1>2, <1>3, FS_CardinalityType

LEMMA CountedInit == Init => Counted
<1> SUFFICES ASSUME Init PROVE Counted
  OBVIOUS
<1>1. Reported = {}  BY DEF Init, Reported
<1>2. \A o : Of(o) = {}  BY <1>1 DEF Of
<1>3. \A o : Cardinality(Of(o)) = 0  BY <1>2, FS_EmptySet
<1>4. QED  BY <1>3 DEF Init, Counted

\* Two sets without a common element, and three.
LEMMA Together ==
  ASSUME NEW A, NEW B, IsFiniteSet(A), IsFiniteSet(B), A \cap B = {}
  PROVE  IsFiniteSet(A \cup B) /\ Cardinality(A \cup B) = Cardinality(A) + Cardinality(B)
<1>1. Cardinality({}) = 0  BY FS_EmptySet
<1>2. Cardinality(A) \in Nat /\ Cardinality(B) \in Nat  BY FS_CardinalityType
<1>3. /\ IsFiniteSet(A \cup B)
      /\ Cardinality(A \cup B) = Cardinality(A) + Cardinality(B) - Cardinality(A \cap B)
  BY FS_Union
<1>4. Cardinality(A \cap B) = 0  BY <1>1
<1>5. \A x, y \in Nat : x + y - 0 = x + y  OBVIOUS
<1>6. Cardinality(A) + Cardinality(B) - 0 = Cardinality(A) + Cardinality(B)  BY <1>2, <1>5
<1>7. QED  BY <1>3, <1>4, <1>6

\* Outcomes of resources that had none are counted as they are reported.
LEMMA EmitCounted ==
  ASSUME Shape, Counted, NEW A \in SUBSET Key, NEW answered \in [A -> Results],
         NEW rest \in SUBSET Key, NEW e \in Results, Emit(answered, rest, e),
         A \cap rest = {}, \A k \in A \cup rest : reports[k] = <<>>
  PROVE  Counted'
<1>1. \A k \in Key : reports[k] \in Seq(Results)  BY DEF Shape
<1>2. DOMAIN answered = A  OBVIOUS
<1>3. reports' = [k \in Key |-> reports[k]
                    \o (IF k \in A THEN <<answered[k]>> ELSE <<>>)
                    \o (IF k \in rest THEN <<e>> ELSE <<>>)]
  BY <1>2 DEF Emit
<1>4. ASSUME NEW k \in Key
      PROVE  /\ k \in A => reports'[k] = <<answered[k]>>
             /\ k \in rest => reports'[k] = <<e>>
             /\ k \notin A \cup rest => reports'[k] = reports[k]
  <2>1. reports'[k] = reports[k] \o (IF k \in A THEN <<answered[k]>> ELSE <<>>)
                        \o (IF k \in rest THEN <<e>> ELSE <<>>)
    BY <1>3
  <2>2. \A s \in Seq(Results) : s \o <<>> = s  OBVIOUS
  <2>3. \A x \in Results : <<>> \o <<x>> = <<x>> /\ <<x>> \in Seq(Results) /\ <<>> \o <<>> = <<>>
    OBVIOUS
  <2>4. CASE k \in A
    <3>1. reports[k] = <<>> /\ k \notin rest /\ answered[k] \in Results  BY <2>4
    <3>2. QED  BY <2>1, <2>2, <2>3, <2>4, <3>1
  <2>5. CASE k \in rest
    <3>1. reports[k] = <<>> /\ k \notin A  BY <2>5
    <3>2. QED  BY <2>1, <2>3, <2>5, <3>1
  <2>6. CASE k \notin A \cup rest
    <3>1. reports[k] \in Seq(Results)  BY <1>1
    <3>2. QED  BY <2>1, <2>2, <2>6, <3>1
  <2>7. QED  BY <2>4, <2>5, <2>6
<1>5. Reported' = Reported \cup A \cup rest
  <2>1. \A k \in Key : k \in Reported' <=> k \in Reported \/ k \in A \/ k \in rest
    BY <1>4 DEF Reported
  <2>2. Reported' \subseteq Key  BY DEF Reported
  <2>3. Reported \subseteq Key  BY DEF Reported
  <2>4. QED  BY <2>1, <2>2, <2>3
<1>6. ASSUME NEW o \in Outcomes
      PROVE  summary'[o] = Cardinality(Of(o)')
  <2> DEFINE new == {k \in A : Tally(answered[k]) = o}
             bare == IF Tally(e) = o THEN rest ELSE {}
  <2>1. Of(o)' = (Of(o) \cup new) \cup bare
    <3>1. \A k \in Key : Tally(reports'[k][1]) =
            IF k \in A THEN Tally(answered[k]) ELSE IF k \in rest THEN Tally(e) ELSE Tally(reports[k][1])
      <4>1. \A x : <<x>>[1] = x  OBVIOUS
      <4>2. QED  BY <1>4, <4>1
    <3>2. \A k \in Key : k \in Of(o)' <=> k \in Reported' /\ Tally(reports'[k][1]) = o
      BY DEF Of, Reported
    <3>3. \A k \in Key : k \in Of(o) <=> k \in Reported /\ Tally(reports[k][1]) = o
      BY DEF Of, Reported
    <3>4. \A k \in A \cup rest : k \notin Reported  BY DEF Reported
    <3>5. \A k \in Key : k \in Of(o)' <=> k \in Of(o) \/ k \in new \/ k \in bare
      BY <1>5, <3>1, <3>2, <3>3, <3>4
    <3>6. Of(o)' \subseteq Key /\ Of(o) \subseteq Key /\ new \subseteq Key /\ bare \subseteq Key
      BY DEF Of, Reported
    <3> HIDE DEF new, bare
    <3>7. QED  BY <3>5, <3>6
  <2>2. Of(o) \cap new = {} /\ (Of(o) \cup new) \cap bare = {}
    BY DEF Of, Reported
  <2>3. IsFiniteSet(Of(o)) /\ IsFiniteSet(new) /\ IsFiniteSet(bare)
    <3>1. new \subseteq Key /\ bare \subseteq Key  OBVIOUS
    <3> HIDE DEF new, bare
    <3>2. QED  BY <3>1, Parts, KeysFinite, FS_Subset
  <2>4. summary'[o] = summary[o] + Cardinality(new) + Cardinality(bare)
    <3>1. summary'[o] = summary[o] + Cardinality(new) + (IF Tally(e) = o THEN Cardinality(rest) ELSE 0)
      BY <1>2 DEF Emit
    <3>2. Cardinality(bare) = IF Tally(e) = o THEN Cardinality(rest) ELSE 0
      BY FS_EmptySet
    <3>3. QED  BY <3>1, <3>2
  <2> HIDE DEF new, bare
  <2>5. Cardinality(Of(o) \cup new) = Cardinality(Of(o)) + Cardinality(new) /\ IsFiniteSet(Of(o) \cup new)
    BY <2>2, <2>3, Together
  <2>6. Cardinality((Of(o) \cup new) \cup bare) = Cardinality(Of(o) \cup new) + Cardinality(bare)
    BY <2>2, <2>3, <2>5, Together
  <2>7. summary[o] = Cardinality(Of(o))  BY DEF Counted
  <2>8. QED  BY <2>1, <2>4, <2>5, <2>6, <2>7
<1>7. summary' = [o \in Outcomes |-> summary'[o]]  BY DEF Emit
<1>8. QED  BY <1>6, <1>7 DEF Counted

\* Steps that report nothing leave the counts as they are.
LEMMA QuietCounted == Counted /\ UNCHANGED <<reports, summary>> => Counted'
BY DEF Counted, Of, Reported

LEMMA NukeReturnsCounted ==
  ASSUME Inv, Told, Counted, NEW r \in Place, NukeReturns(r)
  PROVE  Counted'
<1> DEFINE t == at[r].type
           batch == at[r].batch
           K(ids) == {KeyOf(t, r, i) : i \in ids}
<1>1. at \in [Place -> Worker] /\ at[r] \in Worker /\ at[r].place = "nuking"
  BY DEF Inv, Shape, NukeReturns, In
<1>2. t \in Type /\ batch \in SUBSET Id
  BY <1>1 DEF Inv, Batched, Working, In, Worker
<1>3. \A k \in K(batch) : k \in Key /\ reports[k] = <<>>
  <2>1. ~Final
    BY <1>1 DEF Told, Still, In
  <2>2. \A k \in K(batch) : k \in Key /\ k.type = t /\ k.region = r /\ k.id \in batch
    BY <1>2, KeyFacts
  <2>3. \A k \in K(batch) : k \in Key /\ Ahead(k)
    BY <1>1, <2>2 DEF Ahead, In
  <2>4. QED  BY <2>1, <2>3 DEF Told, Owed
<1>4. PICK a \in Answers(batch) : \E answered \in [K(a.answered) -> {Deleted, Warned, Failed}] :
        Emit(answered, K(Unanswered(batch, a)), IF a.err = "warning" THEN Warned ELSE Failed)
  BY DEF NukeReturns
<1>5. PICK answered \in [K(a.answered) -> {Deleted, Warned, Failed}] :
        Emit(answered, K(Unanswered(batch, a)), IF a.err = "warning" THEN Warned ELSE Failed)
  BY <1>4
<1> DEFINE e == IF a.err = "warning" THEN Warned ELSE Failed
           A == K(a.answered)
           rest == K(Unanswered(batch, a))
<1>6. /\ a.answered \in SUBSET batch /\ Unanswered(batch, a) \in SUBSET batch
      /\ a.answered \cap Unanswered(batch, a) = {}
      /\ batch = a.answered \cup Unanswered(batch, a)
  BY DEF Answers, Unanswered
<1>7. \A ids \in SUBSET batch : K(ids) \in SUBSET Key
  BY <1>2, KeyFacts
<1>8. A \in SUBSET Key /\ rest \in SUBSET Key
  BY <1>6, <1>7
<1>9. K(batch) = A \cup rest
  BY <1>6
<1>10. A \cap rest = {}
  BY <1>2, <1>6, KeyFacts
<1>11. e \in Results /\ answered \in [A -> Results]
  BY <1>5 DEF Results
<1>12. Emit(answered, rest, e) /\ Shape
  BY <1>5 DEF Inv
<1>13. \A k \in A \cup rest : reports[k] = <<>>
  BY <1>3, <1>9
<1> HIDE DEF A, rest, e, K
<1>14. QED
  BY <1>8, <1>10, <1>11, <1>12, <1>13, EmitCounted

LEMMA ReportGoneCounted ==
  ASSUME Inv, Told, Counted, ReportGone
  PROVE  Counted'
<1> DEFINE nobody == [k \in {} |-> Gone]
<1>1. Unseen \in SUBSET Key /\ nobody \in [{} -> Results] /\ Gone \in Results /\ {} \in SUBSET Key
  BY DEF Inv, Shape, Unseen, Results
<1>2. Emit(nobody, Unseen, Gone) /\ Shape /\ ~Final
  BY DEF ReportGone, Inv, Final
<1>3. \A k \in Unseen : reports[k] = <<>>
  BY <1>1, <1>2 DEF Told, Owed, Unseen
<1>4. {} \cap Unseen = {} /\ \A k \in {} \cup Unseen : reports[k] = <<>>
  BY <1>3
<1> HIDE DEF nobody
<1>5. QED  BY <1>1, <1>2, <1>4, EmitCounted

LEMMA NextCounted == Inv /\ Told /\ Counted /\ [Next]_vars => Counted'
<1> SUFFICES ASSUME Inv, Told, Counted, [Next]_vars PROVE Counted'
  OBVIOUS
<1>1. CASE Run
  BY <1>1, ReportGoneCounted, QuietCounted DEF Run, Rescan, RescanFails, StartGlobal, End
<1>2. ASSUME NEW r \in Place, RegionStep(r)
      PROVE  Counted'
  BY <1>2, NukeReturnsCounted, QuietCounted
     DEF RegionStep, StartRegion, NextType, StartBatch, Return
<1>3. CASE Cancel
  BY <1>3, QuietCounted DEF Cancel
<1>4. ASSUME NEW k \in Key, SomebodyDeletes(k)
      PROVE  Counted'
  BY <1>4, QuietCounted DEF SomebodyDeletes
<1>5. CASE UNCHANGED vars
  BY <1>5, QuietCounted DEF vars
<1>6. QED
  BY <1>1, <1>2, <1>3, <1>4, <1>5 DEF Next

-----------------------------------------------------------------------------
(* What the pages count *)

\* With one outcome at most, a row is a reported resource.
LEMMA RowsAre ==
  ASSUME Inv, Told
  PROVE  Rows = Reported \X {1} /\ \A k \in Reported : reports[k][1] \in Results
<1>1. ASSUME NEW k \in Key
      PROVE  /\ DOMAIN reports[k] = IF k \in Reported THEN {1} ELSE {}
             /\ k \in Reported => reports[k][1] \in Results
  <2>1. reports[k] \in Seq(Results) /\ Len(reports[k]) <= 1
    BY DEF Inv, Shape, Told, Once
  <2>2. Len(reports[k]) \in Nat /\ (reports[k] = <<>> <=> Len(reports[k]) = 0)
    BY <2>1, EmptyLen
  <2>3. DOMAIN reports[k] = 1 .. Len(reports[k])
    BY <2>1
  <2>4. CASE k \in Reported
    <3>1. Len(reports[k]) = 1
      <4>1. Len(reports[k]) # 0  BY <2>2, <2>4 DEF Reported
      <4>2. \A n \in Nat : n # 0 /\ n <= 1 => n = 1  OBVIOUS
      <4>3. QED  BY <2>1, <2>2, <4>1, <4>2
    <3>2. 1 .. 1 = {1}  OBVIOUS
    <3>3. DOMAIN reports[k] = {1}  BY <2>3, <3>1, <3>2
    <3>4. reports[k][1] \in Results  BY <2>1, <3>3
    <3>5. QED  BY <2>4, <3>3, <3>4
  <2>5. CASE k \notin Reported
    <3>1. reports[k] = <<>>  BY <2>5 DEF Reported
    <3>2. DOMAIN reports[k] = {}  BY <3>1
    <3>3. QED  BY <2>5, <3>2
  <2>6. QED  BY <2>4, <2>5
<1>2. Reported \subseteq Key  BY DEF Reported
<1>3. Rows \subseteq Reported \X {1}
  BY <1>1 DEF Rows
<1>4. Reported \X {1} \subseteq Rows
  BY <1>1, <1>2 DEF Rows
<1>5. QED  BY <1>1, <1>2, <1>3, <1>4

\* Choosing rows by the resource and its outcome is choosing reported resources.
LEMMA RowsCount ==
  ASSUME Inv, Told, NEW T \in SUBSET Reported
  PROVE  Cardinality(T \X {1}) = Cardinality(T)
<1>1. IsFiniteSet(T)  BY Parts, FS_Subset
<1>2. IsFiniteSet({1}) /\ Cardinality({1}) = 1  BY FS_Singleton
<1>3. Cardinality(T \X {1}) = Cardinality(T) * Cardinality({1})  BY <1>1, <1>2, FS_Product
<1>4. Cardinality(T) \in Nat  BY <1>1, FS_CardinalityType
<1>5. \A n \in Nat : n * 1 = n  OBVIOUS
<1>6. QED  BY <1>2, <1>3, <1>4, <1>5

\* The worker and the browser put an outcome into the same bucket.
LEMMA Buckets ==
  /\ \A e \in Results : ResultKind(e) = Tally(e)
  /\ \A e \in Results : e.success <=> Tally(e) \in {"deleted", "gone"}
  /\ \A e \in Results : ~e.success /\ e.warning <=> Tally(e) = "warned"
  /\ \A e \in Results : ~e.success /\ ~e.warning <=> Tally(e) = "failed"
BY DEF Results, ResultKind, Tally, Deleted, Warned, Failed, Gone, Result

LEMMA ByCounts ==
  ASSUME Inv, Told
  PROVE  \A o : By(o) = Cardinality(Of(o))
<1> SUFFICES ASSUME NEW o PROVE By(o) = Cardinality(Of(o))
  OBVIOUS
<1>1. {x \in Rows : ResultKind(Row(x)) = o} = Of(o) \X {1}
  <2>1. \A x \in Reported \X {1} : ResultKind(Row(x)) = Tally(reports[x[1]][1])
    BY RowsAre, Buckets DEF Row
  <2>2. QED  BY <2>1, RowsAre DEF Of
<1>2. QED  BY <1>1, Parts, RowsCount DEF By

LEMMA BriefCounts ==
  ASSUME Inv, Told
  PROVE  Brief = [deleted |-> By("deleted") + By("gone"), warned |-> By("warned"), failed |-> By("failed")]
<1>1. \A x \in Reported \X {1} : Row(x) = reports[x[1]][1] /\ Row(x) \in Results
  BY RowsAre DEF Row
<1>2. /\ {x \in Rows : Row(x).success} = (Of("deleted") \cup Of("gone")) \X {1}
      /\ {x \in Rows : ~Row(x).success /\ Row(x).warning} = Of("warned") \X {1}
      /\ {x \in Rows : ~Row(x).success /\ ~Row(x).warning} = Of("failed") \X {1}
  BY <1>1, RowsAre, Buckets DEF Of
<1>3. Of("deleted") \cap Of("gone") = {}  BY DEF Of
<1>4. Cardinality(Of("deleted") \cup Of("gone")) = Cardinality(Of("deleted")) + Cardinality(Of("gone"))
  BY <1>3, Parts, Together
<1>5. QED  BY <1>2, <1>4, Parts, RowsCount, ByCounts DEF Brief

\* Only what was confirmed is reported.
LEMMA ReportedConfirmed ==
  ASSUME Inv, Told
  PROVE  Reported \subseteq confirmed /\ Pending = confirmed \ Reported /\ IsFiniteSet(confirmed)
<1>1. confirmed \subseteq Key  BY DEF Inv, Shape
<1>2. IsFiniteSet(confirmed)  BY <1>1, KeysFinite, FS_Subset
<1>3. QED  BY <1>1, <1>2 DEF Told, Once, Reported, Pending

LEMMA RemainingCounts ==
  ASSUME Inv, Told
  PROVE  Remaining = Cardinality(Pending)
<1>1. Cardinality(Rows) = Cardinality(Reported)  BY RowsAre, RowsCount
<1>2. Cardinality(Pending) = Cardinality(confirmed) - Cardinality(confirmed \cap Reported)
  BY ReportedConfirmed, FS_Difference
<1>3. confirmed \cap Reported = Reported  BY ReportedConfirmed
<1>4. Cardinality(Reported) \in Nat /\ Cardinality(confirmed) \in Nat
      /\ Cardinality(Reported) <= Cardinality(confirmed)
  BY ReportedConfirmed, Parts, FS_Subset, FS_CardinalityType
<1>5. \A n, m \in Nat : m <= n => (IF n > m THEN n - m ELSE 0) = n - m  OBVIOUS
<1>6. Remaining = Cardinality(confirmed) - Cardinality(Reported)
  BY <1>1, <1>4, <1>5 DEF Remaining
<1>7. QED  BY <1>2, <1>3, <1>6

\* As many rows as confirmed resources in a region: they are the same.
LEMMA RegionsCount ==
  ASSUME Inv, Told, NEW r \in Place
  PROVE  RegionDone(r) <=> \A k \in Pending : k.region # r
<1> DEFINE told == {k \in Reported : k.region = r}
           due  == {k \in confirmed : k.region = r}
<1>1. {x \in Rows : x[1].region = r} = told \X {1}  BY RowsAre
<1>2. told \subseteq due /\ told \in SUBSET Reported /\ due \subseteq confirmed
  BY ReportedConfirmed
<1>3. (\A k \in Pending : k.region # r) <=> told = due  BY ReportedConfirmed
<1>4. RegionDone(r) <=> Cardinality(told \X {1}) >= Cardinality(due)  BY <1>1 DEF RegionDone
<1> HIDE DEF told, due
<1>5. IsFiniteSet(told) /\ IsFiniteSet(due)  BY <1>2, Parts, ReportedConfirmed, FS_Subset
<1>6. /\ Cardinality(told) <= Cardinality(due)
      /\ Cardinality(told) = Cardinality(due) => told = due
  BY <1>2, <1>5, FS_Subset
<1>7. Cardinality(told \X {1}) = Cardinality(told)  BY <1>2, RowsCount
<1>8. Cardinality(told) \in Nat /\ Cardinality(due) \in Nat  BY <1>5, FS_CardinalityType
<1>9. \A n, m \in Nat : n <= m => (n >= m <=> n = m)  OBVIOUS
<1>10. Cardinality(told) >= Cardinality(due) <=> Cardinality(told) = Cardinality(due)
  BY <1>6, <1>8, <1>9
<1>11. QED  BY <1>3, <1>4, <1>6, <1>7, <1>10

\* At every moment of the run the worker's summary, the history with and without it,
\* the list of jobs, the tiles of the clean-up page, its pending rows and its regions
\* count the same outcomes, however many resources there are and whatever Nuke answers.
THEOREM CountsAlwaysAgree == Spec => []CountsAgree
<1>1. Inv /\ Told /\ Counted => CountsAgree
  <2> SUFFICES ASSUME Inv, Told, Counted PROVE CountsAgree
    OBVIOUS
  <2>1. ASSUME NEW o \in Outcomes
        PROVE  summary[o] = By(o) /\ EntryCounts[o] = By(o)
    <3>1. summary[o] = By(o)  BY ByCounts DEF Counted
    <3>2. EntryCounts[o] \in {summary[o], By(o)}  BY DEF EntryCounts
    <3>3. QED  BY <3>1, <3>2
  <2>2. phase = "completed" => Pending = {}
    BY DEF Told, Complete, Pending
  <2>3. QED
    BY <2>1, <2>2, BriefCounts, RemainingCounts, RegionsCount DEF CountsAgree
<1>2. QED
  BY <1>1, Invariance, ToldInit, NextTold, CountedInit, NextCounted, PTL DEF Spec
=============================================================================
