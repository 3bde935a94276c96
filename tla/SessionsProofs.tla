-------------------------- MODULE SessionsProofs --------------------------
(***************************************************************************)
(* Theorems about Sessions: Delete runs its course at most once per         *)
(* session and in the right order, for any number of requests, sessions and *)
(* clock bounds.                                                            *)
(***************************************************************************)
EXTENDS Sessions, TLAPS

\* An actor past the map removal of Delete: it is the only one that will close
\* the session and call onClose.
Deleting(a) == act[a].at \in {"close", "notify"}

\* The places at which an actor has a session in its hands.
Holding(a) == act[a].at \in {"judge", "ask", "touch", "serve", "remove", "drop", "close", "notify"}

ActorsOK ==
  /\ act \in [Actor -> ActorState]
  /\ \A a \in Actor : Holding(a) => act[a].sess \in Session

\* What has been handed out, what is gone, what is closed, what is notified.
SetsOK ==
  /\ sessions \in SUBSET Session
  /\ known \in SUBSET Session
  /\ notified \in [Session -> Nat]
  /\ sessions \subseteq known
  /\ closed \subseteq known \ sessions

OneDeleter ==
  \A a \in Actor : Deleting(a) =>
    /\ act[a].sess \in known \ sessions
    /\ notified[act[a].sess] = 0
    /\ act[a].at = "notify" => act[a].sess \in closed
    /\ \A b \in Actor : Deleting(b) /\ act[b].sess = act[a].sess => b = a

NotifiedOK ==
  \A s \in Session : notified[s] > 0 => notified[s] = 1 /\ s \in closed

Inv == ActorsOK /\ now \in 0 .. MaxTime /\ SetsOK /\ OneDeleter /\ NotifiedOK

-----------------------------------------------------------------------------
LEMMA InitInv == Init => Inv
<1> SUFFICES ASSUME Init PROVE Inv  OBVIOUS
<1>1. Idling \in ActorState
  BY TimeAssumption DEF Idling, ActorState, Places
<1>2. \A a \in Actor : act[a] = Idling
  BY DEF Init
<1>3. ActorsOK
  BY <1>1, <1>2 DEF Init, ActorsOK, Holding, Idling
<1>4. OneDeleter
  BY <1>2 DEF OneDeleter, Deleting, Idling
<1>5. QED  BY <1>3, <1>4, TimeAssumption DEF Init, Inv, SetsOK, NotifiedOK

\* One actor moves to a place outside the rest of Delete, and nothing that
\* Delete is about changes.
LEMMA MoveInv ==
  ASSUME Inv, NEW a \in Actor, NEW r \in ActorState,
         act' = [act EXCEPT ![a] = r],
         r.at \notin {"close", "notify"},
         r.at \in {"judge", "ask", "touch", "serve", "remove", "drop"} => r.sess \in Session,
         UNCHANGED <<known, closed, notified>>,
         sessions' = sessions \/ sessions' \in SUBSET sessions,
         now' \in 0 .. MaxTime
  PROVE  Inv'
<1>1. act' \in [Actor -> ActorState] /\ act'[a] = r
      /\ \A b \in Actor : b # a => act'[b] = act[b]
  BY DEF Inv, ActorsOK
<1>2. ActorsOK'
  BY <1>1 DEF Inv, ActorsOK, Holding
<1>3. SetsOK'
  BY DEF Inv, SetsOK
<1>4. OneDeleter'
  BY <1>1 DEF Inv, OneDeleter, Deleting
<1>5. NotifiedOK'
  BY DEF Inv, NotifiedOK
<1>6. QED  BY <1>2, <1>3, <1>4, <1>5 DEF Inv

\* The moves of an actor that reads, decides, or goes on in a loop.
\* Where a move outside Delete can leave an actor.
Outside(r) ==
  /\ r \in ActorState
  /\ r.at \notin {"close", "notify"}
  /\ r.at \in {"judge", "ask", "touch", "serve", "remove", "drop"} => r.sess \in Session

Moves(a) == \E r \in ActorState : Outside(r) /\ Become(a, r)

LEMMA IdlingOutside == Outside(Idling) /\ Idling \in ActorState
BY TimeAssumption DEF Outside, Idling, ActorState, Places

LEMMA MoveMoves ==
  ASSUME Inv, NEW a \in Actor, NEW p \in Places \ {"close", "notify"}, Move(a, p),
         p \in {"judge", "ask", "touch", "serve", "remove", "drop"} => Holding(a)
  PROVE  Moves(a)
<1> DEFINE r == [act[a] EXCEPT !.at = p]
<1>1. act[a] \in ActorState  BY DEF Inv, ActorsOK
<1>2. r \in ActorState /\ r.at = p /\ r.sess = act[a].sess
  BY <1>1 DEF ActorState
<1>3. Outside(r)  BY <1>2 DEF Outside, Inv, ActorsOK
<1>4. Become(a, r)  BY DEF Move
<1>5. QED  BY <1>2, <1>3, <1>4 DEF Moves

LEMMA ExpiredMoves ==
  ASSUME Inv, NEW a \in Actor, Holding(a), IfExpired(a)
  PROVE  Moves(a)
<1>1. CASE a = Reaper
  <2> DEFINE r == [act[a] EXCEPT !.at = "sweep", !.stale = act[a].stale \cup {act[a].sess}]
  <2>1. act[a] \in ActorState /\ act[a].sess \in Session  BY DEF Inv, ActorsOK
  <2>2. r \in ActorState /\ r.at = "sweep"
    BY <2>1 DEF ActorState, Places
  <2>3. Outside(r)  BY <2>2 DEF Outside
  <2>4. Become(a, r)  BY <1>1 DEF IfExpired
  <2>5. QED  BY <2>2, <2>3, <2>4 DEF Moves
<1>2. CASE a # Reaper
  <2>1. Move(a, "remove") /\ "remove" \in Places \ {"close", "notify"}
    BY <1>2 DEF IfExpired, Places
  <2>2. QED  BY <2>1, MoveMoves
<1>3. QED  BY <1>1, <1>2

LEMMA LiveMoves ==
  ASSUME Inv, NEW a \in Actor, Holding(a), IfLive(a)
  PROVE  Moves(a)
BY MoveMoves DEF IfLive, Places

\* The moves of an actor that reads, decides, or goes on in a loop.
LEMMA DecideMoves ==
  ASSUME Inv, NEW a \in Actor,
         \/ Judge(a) \/ AskBusy(a)
         \/ a \in Request /\ (Renew(a) \/ Respond(a) \/ SignOut(a))
         \/ PurgeNext(a)
         \/ a = Reaper /\ (SweepNext \/ Tick)
         \/ a = Main /\ CloseAll
         \/ \E s \in Session : Lookup(a, s)
  PROVE  Moves(a)
<1>0. act[a] \in ActorState  BY DEF Inv, ActorsOK
<1>1. CASE Judge(a)
  <2>1. Holding(a)  BY <1>1 DEF Judge, At, Holding
  <2>2. IfExpired(a) \/ IfLive(a) \/ Move(a, "ask")  BY <1>1 DEF Judge
  <2>3. QED  BY <2>1, <2>2, ExpiredMoves, LiveMoves, MoveMoves DEF Places
<1>2. CASE AskBusy(a)
  <2>1. Holding(a)  BY <1>2 DEF AskBusy, At, Holding
  <2>2. IfExpired(a) \/ IfLive(a)  BY <1>2 DEF AskBusy
  <2>3. QED  BY <2>1, <2>2, ExpiredMoves, LiveMoves
<1>3. CASE Renew(a) \/ SignOut(a)
  <2>1. Holding(a)  BY <1>3 DEF Renew, SignOut, At, Holding
  <2>2. Move(a, "serve") \/ Move(a, "drop")  BY <1>3 DEF Renew, SignOut
  <2>3. QED  BY <2>1, <2>2, MoveMoves DEF Places
<1>4. CASE Respond(a)
  BY <1>4, IdlingOutside DEF Respond, Moves
<1>5. CASE PurgeNext(a)
  <2>1. CASE Become(a, Idling)
    BY <2>1, IdlingOutside DEF Moves
  <2>2. ASSUME NEW s \in act[a].stale,
               Become(a, [act[a] EXCEPT !.at = IF a = Reaper THEN "remove" ELSE "drop",
                                        !.sess = s, !.stale = act[a].stale \ {s}])
        PROVE  Moves(a)
    <3> DEFINE r == [act[a] EXCEPT !.at = IF a = Reaper THEN "remove" ELSE "drop",
                                   !.sess = s, !.stale = act[a].stale \ {s}]
    <3>1. r \in ActorState /\ r.at \in {"remove", "drop"} /\ r.sess \in Session
      BY <1>0 DEF ActorState, Places
    <3>2. Outside(r)  BY <3>1 DEF Outside
    <3>3. QED  BY <2>2, <3>1, <3>2 DEF Moves
  <2>3. QED  BY <1>5, <2>1, <2>2 DEF PurgeNext
<1>6. CASE a = Reaper /\ SweepNext
  <2>1. CASE Move(Reaper, "purge")
    <3>1. Move(a, "purge") /\ "purge" \in Places \ {"close", "notify"}
      BY <1>6, <2>1 DEF Places
    <3>2. QED  BY <3>1, MoveMoves
  <2>2. ASSUME NEW s \in act[Reaper].todo,
               Become(Reaper, [act[Reaper] EXCEPT !.at = "judge", !.sess = s,
                                                  !.todo = act[Reaper].todo \ {s}])
        PROVE  Moves(a)
    <3> DEFINE r == [act[Reaper] EXCEPT !.at = "judge", !.sess = s,
                                        !.todo = act[Reaper].todo \ {s}]
    <3>1. r \in ActorState /\ r.at = "judge" /\ r.sess \in Session
      BY <1>0, <1>6 DEF ActorState, Places
    <3>2. Outside(r)  BY <3>1 DEF Outside
    <3>3. QED  BY <1>6, <2>2, <3>1, <3>2 DEF Moves
  <2>3. QED  BY <1>6, <2>1, <2>2 DEF SweepNext
<1>7. CASE a = Reaper /\ Tick
  <2> DEFINE r == [Idling EXCEPT !.at = "sweep", !.clock = now, !.todo = sessions]
  <2>1. r \in ActorState /\ r.at = "sweep"
    BY IdlingOutside DEF ActorState, Places, Inv, SetsOK
  <2>2. Outside(r)  BY <2>1 DEF Outside
  <2>3. Become(a, r)  BY <1>7 DEF Tick
  <2>4. QED  BY <2>1, <2>2, <2>3 DEF Moves
<1>8. CASE a = Main /\ CloseAll
  <2> DEFINE r == [Idling EXCEPT !.at = "purge", !.stale = sessions]
  <2>1. r \in ActorState /\ r.at = "purge"
    BY IdlingOutside DEF ActorState, Places, Inv, SetsOK
  <2>2. Outside(r)  BY <2>1 DEF Outside
  <2>3. Become(a, r)  BY <1>8 DEF CloseAll
  <2>4. QED  BY <2>1, <2>2, <2>3 DEF Moves
<1>9. ASSUME NEW s \in Session, Lookup(a, s)
      PROVE  Moves(a)
  <2> DEFINE r == [Idling EXCEPT !.at = "judge", !.sess = s, !.clock = now]
  <2>1. r \in ActorState /\ r.at = "judge" /\ r.sess = s
    BY IdlingOutside DEF ActorState, Places, Inv
  <2>2. Outside(r)  BY <2>1 DEF Outside
  <2>3. Become(a, r)  BY <1>9 DEF Lookup
  <2>4. QED  BY <2>1, <2>2, <2>3 DEF Moves
<1>10. QED
  BY <1>1, <1>2, <1>3, <1>4, <1>5, <1>6, <1>7, <1>8, <1>9

LEMMA DecideInv ==
  ASSUME Inv, NEW a \in Actor,
         \/ Judge(a) \/ AskBusy(a)
         \/ a \in Request /\ (Renew(a) \/ Respond(a) \/ SignOut(a))
         \/ PurgeNext(a)
         \/ a = Reaper /\ (SweepNext \/ Tick)
         \/ a = Main /\ CloseAll
         \/ \E s \in Session : Lookup(a, s)
  PROVE  Inv'
<1>1. PICK r \in ActorState : Outside(r) /\ act' = [act EXCEPT ![a] = r]
  BY DecideMoves DEF Moves, Become
<1>2. UNCHANGED <<known, closed, notified, sessions, now>>
  BY DEF Judge, AskBusy, Renew, Respond, SignOut, PurgeNext, SweepNext, Tick, CloseAll, Lookup
<1>3. now' \in 0 .. MaxTime  BY <1>2 DEF Inv
<1>4. QED  BY <1>1, <1>2, <1>3, MoveInv DEF Outside

\* Delete takes the session out of the map: who finds it there becomes its only
\* deleter, because being in the map means nobody else is past this point.
LEMMA DeleteInv ==
  ASSUME Inv, NEW a \in Actor, Delete(a)
  PROVE  Inv'
<1>0. act[a] \in ActorState /\ act[a].sess \in Session /\ ~Deleting(a)
  BY DEF Delete, At, Inv, ActorsOK, Holding, Deleting
<1>1. CASE act[a].sess \in sessions
  <2> DEFINE r == [act[a] EXCEPT !.at = "close"]
  <2>1. r \in ActorState /\ r.at = "close" /\ r.sess = act[a].sess
    BY <1>0 DEF ActorState, Places
  <2>2. act' = [act EXCEPT ![a] = r]  BY <1>1 DEF Delete, Move, Become
  <2>3. /\ act' \in [Actor -> ActorState] /\ act'[a] = r
        /\ \A b \in Actor : b # a => act'[b] = act[b]
    BY <2>1, <2>2 DEF Inv, ActorsOK
  <2>4. ActorsOK'  BY <1>0, <2>1, <2>3 DEF Inv, ActorsOK, Holding
  <2>5. SetsOK'    BY DEF Delete, Inv, SetsOK
  <2>6. NotifiedOK'  BY DEF Delete, Inv, NotifiedOK
  <2>7. notified[act[a].sess] = 0 /\ act[a].sess \notin closed
    BY <1>0, <1>1 DEF Inv, SetsOK, NotifiedOK
  <2>8. \A b \in Actor : Deleting(b) => act[b].sess # act[a].sess
    BY <1>1 DEF Inv, OneDeleter
  <2>9. OneDeleter'
    <3>1. \A b \in Actor : Deleting(b)' => b = a \/ (b # a /\ Deleting(b) /\ act'[b] = act[b])
      BY <2>3 DEF Deleting
    <3>2. act'[a].at = "close" /\ act'[a].sess = act[a].sess
      BY <2>1, <2>3
    <3>3. act[a].sess \in known' \ sessions'
      BY <1>1 DEF Delete, Inv, SetsOK
    <3>4. known' = known /\ notified' = notified /\ closed' = closed /\ sessions' \subseteq sessions
      BY DEF Delete
    <3>5. ASSUME NEW b \in Actor, Deleting(b)', b # a
          PROVE  /\ act'[b].sess \in known' \ sessions'
                 /\ notified'[act'[b].sess] = 0
                 /\ act'[b].at = "notify" => act'[b].sess \in closed'
                 /\ \A d \in Actor : Deleting(d)' /\ act'[d].sess = act'[b].sess => d = b
      BY <2>8, <3>1, <3>2, <3>4, <3>5 DEF Inv, OneDeleter
    <3>6. \A d \in Actor : Deleting(d)' /\ act'[d].sess = act'[a].sess => d = a
      BY <2>8, <3>1, <3>2
    <3>7. QED
      BY <2>7, <3>2, <3>3, <3>4, <3>5, <3>6 DEF OneDeleter
  <2>10. QED  BY <2>4, <2>5, <2>6, <2>9 DEF Inv, Delete
<1>2. CASE act[a].sess \notin sessions
  <2>1. sessions' = sessions /\ UNCHANGED <<known, closed, notified, now>>
    BY <1>2 DEF Delete
  <2>2. CASE a \in Request
    <3>1. Idling \in ActorState /\ Idling.at = "idle"
      BY TimeAssumption DEF Idling, ActorState, Places
    <3>2. act' = [act EXCEPT ![a] = Idling]  BY <1>2, <2>2 DEF Delete, Return, Become
    <3>3. QED  BY <2>1, <3>1, <3>2, MoveInv DEF Inv
  <2>3. CASE a \notin Request
    <3> DEFINE r == [act[a] EXCEPT !.at = "purge"]
    <3>1. r \in ActorState /\ r.at = "purge"  BY <1>0 DEF ActorState, Places
    <3>2. act' = [act EXCEPT ![a] = r]  BY <1>2, <2>3 DEF Delete, Return, Move, Become
    <3>3. QED  BY <2>1, <3>1, <3>2, MoveInv DEF Inv
  <2>4. QED  BY <2>2, <2>3
<1>3. QED  BY <1>1, <1>2

LEMMA CloseInv ==
  ASSUME Inv, NEW a \in Actor, CloseSession(a)
  PROVE  Inv'
<1>0. act[a] \in ActorState /\ act[a].sess \in Session /\ Deleting(a)
  BY DEF CloseSession, At, Inv, ActorsOK, Holding, Deleting
<1> DEFINE r == [act[a] EXCEPT !.at = "notify"]
<1>1. r \in ActorState /\ r.at = "notify" /\ r.sess = act[a].sess
  BY <1>0 DEF ActorState, Places
<1>2. act' = [act EXCEPT ![a] = r]  BY DEF CloseSession, Move, Become
<1>3. /\ act' \in [Actor -> ActorState] /\ act'[a] = r
      /\ \A b \in Actor : b # a => act'[b] = act[b]
  BY <1>1, <1>2 DEF Inv, ActorsOK
<1>4. ActorsOK'    BY <1>0, <1>1, <1>3 DEF Inv, ActorsOK, Holding
<1>5. SetsOK'      BY <1>0 DEF CloseSession, Inv, SetsOK, OneDeleter
<1>6. NotifiedOK'  BY DEF CloseSession, Inv, NotifiedOK
<1>7. OneDeleter'
  <2>1. \A b \in Actor : Deleting(b)' <=> Deleting(b)
    BY <1>0, <1>1, <1>3 DEF Deleting
  <2>2. \A b \in Actor : act'[b].sess = act[b].sess
    BY <1>1, <1>3
  <2>3. \A b \in Actor : Deleting(b) /\ act'[b].at = "notify" => act[b].sess \in closed'
    BY <1>1, <1>3 DEF CloseSession, Inv, OneDeleter
  <2>4. QED
    BY <2>1, <2>2, <2>3 DEF CloseSession, Inv, OneDeleter
<1>8. QED  BY <1>4, <1>5, <1>6, <1>7 DEF Inv, CloseSession

LEMMA OnCloseInv ==
  ASSUME Inv, NEW a \in Actor, OnClose(a)
  PROVE  Inv'
<1>0. /\ act[a] \in ActorState /\ act[a].sess \in Session /\ Deleting(a)
      /\ notified[act[a].sess] = 0 /\ act[a].sess \in closed
  BY DEF OnClose, At, Inv, ActorsOK, Holding, Deleting, OneDeleter
<1>1. PICK r \in ActorState : act' = [act EXCEPT ![a] = r] /\ r.at \in {"idle", "purge"}
  <2>1. CASE a \in Request
    <3>1. Idling \in ActorState /\ Idling.at = "idle"
      BY TimeAssumption DEF Idling, ActorState, Places
    <3>2. QED  BY <2>1, <3>1 DEF OnClose, Return, Become
  <2>2. CASE a \notin Request
    <3> DEFINE q == [act[a] EXCEPT !.at = "purge"]
    <3>1. q \in ActorState /\ q.at = "purge"  BY <1>0 DEF ActorState, Places
    <3>2. act' = [act EXCEPT ![a] = q]  BY <2>2 DEF OnClose, Return, Move, Become
    <3>3. QED  BY <3>1, <3>2
  <2>3. QED  BY <2>1, <2>2
<1>2. /\ act' \in [Actor -> ActorState] /\ act'[a] = r
      /\ \A b \in Actor : b # a => act'[b] = act[b]
  BY <1>1 DEF Inv, ActorsOK
<1>3. /\ notified' \in [Session -> Nat] /\ notified'[act[a].sess] = 1
      /\ \A s \in Session : s # act[a].sess => notified'[s] = notified[s]
  BY <1>0 DEF OnClose, Inv, SetsOK
<1>4. ActorsOK'    BY <1>1, <1>2 DEF Inv, ActorsOK, Holding
<1>5. SetsOK'      BY <1>3 DEF OnClose, Inv, SetsOK
<1>6. NotifiedOK'  BY <1>0, <1>3 DEF OnClose, Inv, NotifiedOK
<1>7. OneDeleter'
  <2>1. \A b \in Actor : Deleting(b)' => b # a /\ Deleting(b) /\ act'[b] = act[b]
    BY <1>1, <1>2 DEF Deleting
  <2>2. \A b \in Actor : Deleting(b)' => act[b].sess \in Session /\ act[b].sess # act[a].sess
    BY <1>0, <2>1 DEF Inv, OneDeleter, ActorsOK, Holding, Deleting
  <2>3. QED
    BY <1>3, <2>1, <2>2 DEF OnClose, Inv, OneDeleter, Deleting
<1>8. QED  BY <1>4, <1>5, <1>6, <1>7 DEF Inv, OnClose

LEMMA CreateInv ==
  ASSUME Inv, NEW s \in Session, Create(s)
  PROVE  Inv'
<1>1. ActorsOK'    BY DEF Create, Inv, ActorsOK, Holding
<1>2. SetsOK'      BY DEF Create, Inv, SetsOK
<1>3. NotifiedOK'  BY DEF Create, Inv, NotifiedOK
<1>4. OneDeleter'  BY DEF Create, Inv, OneDeleter, Deleting
<1>5. QED  BY <1>1, <1>2, <1>3, <1>4 DEF Inv, Create

LEMMA QuietInv ==
  ASSUME Inv, UNCHANGED <<act, sessions, known, closed, notified>>, now' \in 0 .. MaxTime
  PROVE  Inv'
BY DEF Inv, ActorsOK, Holding, SetsOK, NotifiedOK, OneDeleter, Deleting

LEMMA NextInv == Inv /\ [Next]_vars => Inv'
<1> SUFFICES ASSUME Inv, [Next]_vars PROVE Inv'  OBVIOUS
<1>0. Reaper \in Actor /\ Main \in Actor /\ Request \subseteq Actor  BY DEF Actor
<1>1. ASSUME NEW s \in Session, Create(s) \/ StreamTouch(s)
      PROVE  Inv'
  BY <1>1, CreateInv, QuietInv DEF StreamTouch, Inv
<1>2. ASSUME NEW r \in Request, Respond(r) \/ SignOut(r) \/ \E s \in Session : Lookup(r, s)
      PROVE  Inv'
  BY <1>0, <1>2, DecideInv
<1>3. ASSUME NEW a \in Actor, Step(a)
      PROVE  Inv'
  <2>1. CASE Delete(a)        BY <2>1, DeleteInv
  <2>2. CASE CloseSession(a)  BY <2>2, CloseInv
  <2>3. CASE OnClose(a)       BY <2>3, OnCloseInv
  <2>4. ASSUME \/ Judge(a) \/ AskBusy(a) \/ PurgeNext(a)
               \/ a \in Request /\ Renew(a)
               \/ a = Reaper /\ SweepNext
        PROVE  Inv'
    BY <2>4, DecideInv
  <2>5. QED  BY <1>3, <2>1, <2>2, <2>3, <2>4 DEF Step
<1>4. CASE Tick      BY <1>0, <1>4, DecideInv
<1>5. CASE CloseAll  BY <1>0, <1>5, DecideInv
<1>6. CASE TimePasses
  BY <1>6, QuietInv, TimeAssumption DEF TimePasses, Inv
<1>7. CASE JobsChange \/ UNCHANGED vars
  BY <1>7, QuietInv DEF JobsChange, vars, svars, Inv
<1>8. QED
  BY <1>1, <1>2, <1>3, <1>4, <1>5, <1>6, <1>7 DEF Next

\* A session has one deleter at most, who has taken it out of the store and closes
\* it before it calls onClose.
THEOREM Invariance == Spec => []Inv
BY InitInv, NextInv, PTL DEF Spec

\* However many deletions of a session race, onClose is called once.
THEOREM ClosedOnce == Spec => []OnCloseOnce
<1>1. Inv => OnCloseOnce
  <2> SUFFICES ASSUME Inv, NEW s \in Session PROVE notified[s] <= 1
    BY DEF OnCloseOnce
  <2>1. notified[s] \in Nat /\ (notified[s] > 0 => notified[s] = 1)
    BY DEF Inv, SetsOK, NotifiedOK
  <2>2. QED  BY <2>1
<1>2. QED  BY <1>1, Invariance, PTL

\* When onClose has returned, the session is out of the map and its credentials
\* are zeroed.
THEOREM ClosedFirst == Spec => []ClosedBeforeNotified
<1>1. Inv => ClosedBeforeNotified
  BY DEF Inv, SetsOK, NotifiedOK, ClosedBeforeNotified
<1>2. QED  BY <1>1, Invariance, PTL
-----------------------------------------------------------------------------
(* The hard limit *)

\* A request that Get has not turned away looked at a session that exists, and,
\* once it has judged it, one within its limit.
LimitOK ==
  /\ expiresAt \in [Session -> Nat]
  /\ \A r \in Request :
       /\ act[r].at \in {"judge", "ask", "touch", "serve"} => act[r].sess \in known
       /\ act[r].at \in {"ask", "touch", "serve"} => act[r].clock <= expiresAt[act[r].sess]

\* An actor that looks no session up and judges none.
LEMMA LimitMove ==
  ASSUME LimitOK, ActorsOK, NEW a \in Actor, NEW w \in ActorState, Become(a, w),
         UNCHANGED <<known, expiresAt>>,
         \/ a \notin Request
         \/ w.at \notin {"judge", "ask", "touch", "serve"}
         \/ /\ act[a].at \in {"ask", "touch"} /\ w.at \in {"touch", "serve"}
            /\ w.sess = act[a].sess /\ w.clock = act[a].clock
  PROVE  LimitOK'
<1>1. act'[a] = w /\ \A b \in Actor : b # a => act'[b] = act[b]
  BY DEF Become, ActorsOK
<1>2. \A r \in Request : r \in Actor
  BY DEF Actor
<1>3. QED  BY <1>1, <1>2 DEF LimitOK

\* A request judges: past the limit it is turned away.
LEMMA LimitJudge ==
  ASSUME Inv, LimitOK, NEW r \in Request, Judge(r)
  PROVE  LimitOK'
<1>1. /\ r \in Actor /\ r # Reaper /\ act[r] \in ActorState /\ act[r].at = "judge"
      /\ act[r].sess \in Session
  BY ActorAssumption DEF Judge, At, Actor, Inv, ActorsOK, Holding
<1>2. act[r].clock \in Nat /\ expiresAt[act[r].sess] \in Nat /\ act[r].sess \in known
  BY <1>1, TimeAssumption DEF LimitOK, ActorState
<1>3. UNCHANGED <<known, expiresAt>>
  BY DEF Judge
<1>4. CASE act[r].sess \in closed \/ PastHardLimit(r)
  <2>1. Become(r, [act[r] EXCEPT !.at = "remove"])
    BY <1>1, <1>4 DEF Judge, IfExpired, Move
  <2>2. [act[r] EXCEPT !.at = "remove"] \in ActorState
    BY <1>1 DEF ActorState, Places
  <2>3. QED  BY <1>1, <1>3, <2>1, <2>2, LimitMove DEF ActorState, Inv
<1>5. CASE ~(act[r].sess \in closed \/ PastHardLimit(r))
  <2>1. PICK p \in {"ask", "touch"} : Become(r, [act[r] EXCEPT !.at = p])
    BY <1>1, <1>5 DEF Judge, IfLive, Move
  <2> DEFINE w == [act[r] EXCEPT !.at = p]
  <2>2. w.at = p /\ w.sess = act[r].sess /\ w.clock = act[r].clock
    BY <1>1 DEF ActorState
  <2>3. act'[r] = w /\ \A b \in Actor : b # r => act'[b] = act[b]
    BY <1>1, <2>1 DEF Become, Inv, ActorsOK
  <2>4. act[r].clock <= expiresAt[act[r].sess]
    BY <1>2, <1>5 DEF PastHardLimit
  <2>5. \A q \in Request : q \in Actor
    BY DEF Actor
  <2> HIDE DEF w
  <2>6. QED  BY <1>2, <1>3, <2>2, <2>3, <2>4, <2>5 DEF LimitOK
<1>6. QED  BY <1>4, <1>5

\* The other steps of an actor under way.
LEMMA LimitStep ==
  ASSUME Inv, LimitOK, NEW a \in Actor, Step(a)
  PROVE  LimitOK'
<1>1. act[a] \in ActorState /\ ActorsOK /\ Reaper \notin Request /\ Idling \in ActorState
  BY ActorAssumption, TimeAssumption DEF Inv, ActorsOK, Idling, ActorState, Places
<1>2. UNCHANGED <<known, expiresAt>>
  BY DEF Step, Judge, AskBusy, Delete, CloseSession, OnClose, PurgeNext, Renew, SweepNext
<1>3. CASE Judge(a) /\ a \in Request
  BY <1>3, LimitJudge
<1>4. CASE a \notin Request
  <2>1. \A b \in Actor : b # a => act'[b] = act[b]
    BY <1>1 DEF Step, Judge, AskBusy, Delete, CloseSession, OnClose, PurgeNext, Renew, SweepNext,
                IfExpired, IfLive, Move, Return, Become, ActorsOK
  <2>2. \A r \in Request : r \in Actor /\ r # a
    BY <1>4 DEF Actor
  <2>3. QED  BY <1>2, <2>1, <2>2 DEF LimitOK
<1>5. CASE a \in Request /\ (Renew(a) \/ (AskBusy(a) /\ act[a].sess \in inflight))
  <2>1. PICK p \in {"touch", "serve"} : Become(a, [act[a] EXCEPT !.at = p])
    BY <1>1, <1>5 DEF Renew, AskBusy, IfLive, Move
  <2> DEFINE w == [act[a] EXCEPT !.at = p]
  <2>2. w \in ActorState /\ w.at = p /\ w.sess = act[a].sess /\ w.clock = act[a].clock
    BY <1>1 DEF ActorState, Places
  <2>3. act[a].at \in {"ask", "touch"}
    BY <1>5 DEF Renew, AskBusy, At
  <2>4. Become(a, w)
    BY <2>1
  <2> HIDE DEF w
  <2>5. QED  BY <1>1, <1>2, <2>2, <2>3, <2>4, LimitMove
<1>6. CASE /\ a \in Request
           /\ \/ (AskBusy(a) /\ act[a].sess \notin inflight)
              \/ Delete(a) \/ CloseSession(a) \/ OnClose(a) \/ PurgeNext(a)
  <2>1. PICK w \in ActorState : w.at \notin {"judge", "ask", "touch", "serve"} /\ Become(a, w)
    <3>1. \A p \in Places : [act[a] EXCEPT !.at = p] \in ActorState /\ [act[a] EXCEPT !.at = p].at = p
      BY <1>1 DEF ActorState
    <3>2. CASE AskBusy(a) /\ act[a].sess \notin inflight
      BY <1>1, <1>6, <3>1, <3>2 DEF AskBusy, IfExpired, Move, Places
    <3>3. CASE Delete(a)
      BY <1>1, <1>6, <3>1, <3>3 DEF Delete, Return, Move, Places, Idling
    <3>4. CASE CloseSession(a)
      BY <3>1, <3>4 DEF CloseSession, Move, Places
    <3>5. CASE OnClose(a)
      BY <1>1, <1>6, <3>5 DEF OnClose, Return, Idling
    <3>6. CASE PurgeNext(a)
      <4>1. ASSUME NEW s \in act[a].stale
            PROVE  LET w == [act[a] EXCEPT !.at = "drop", !.sess = s, !.stale = act[a].stale \ {s}]
                   IN  w \in ActorState /\ w.at = "drop"
        BY <1>1 DEF ActorState, Places
      <4>2. QED  BY <1>1, <1>6, <3>6, <4>1 DEF PurgeNext, Idling
    <3>7. QED  BY <1>6, <3>2, <3>3, <3>4, <3>5, <3>6
  <2>2. QED  BY <1>1, <1>2, <2>1, LimitMove
<1>7. CASE a \in Request
  <2>1. \/ Judge(a) \/ Renew(a) \/ AskBusy(a)
        \/ Delete(a) \/ CloseSession(a) \/ OnClose(a) \/ PurgeNext(a)
    BY <1>1, <1>7 DEF Step
  <2>2. CASE AskBusy(a)
    <3>1. CASE act[a].sess \in inflight
      BY <1>5, <1>7, <2>2, <3>1
    <3>2. CASE act[a].sess \notin inflight
      BY <1>6, <1>7, <2>2, <3>2
    <3>3. QED  BY <3>1, <3>2
  <2>3. CASE Judge(a)   BY <1>3, <1>7, <2>3
  <2>4. CASE Renew(a)   BY <1>5, <1>7, <2>4
  <2>5. CASE Delete(a) \/ CloseSession(a) \/ OnClose(a) \/ PurgeNext(a)
    BY <1>6, <1>7, <2>5
  <2>6. QED  BY <2>1, <2>2, <2>3, <2>4, <2>5
<1>8. QED  BY <1>4, <1>7

LEMMA LimitNext == Inv /\ LimitOK /\ [Next]_vars => LimitOK'
<1> SUFFICES ASSUME Inv, LimitOK, [Next]_vars PROVE LimitOK'  OBVIOUS
<1>1. /\ ActorsOK /\ Reaper \in Actor \ Request /\ Main \in Actor \ Request /\ Request \subseteq Actor
      /\ Idling \in ActorState
  BY ActorAssumption, TimeAssumption DEF Inv, Actor, Idling, ActorState, Places
<1>2. ASSUME NEW s \in Session, Create(s) \/ StreamTouch(s)
      PROVE  LimitOK'
  <2>1. CASE Create(s)
    <3>1. now + MaxTTL \in Nat
      BY TimeAssumption DEF Inv
    <3>2. expiresAt' = [expiresAt EXCEPT ![s] = now + MaxTTL] /\ s \notin known
          /\ known' = known \cup {s} /\ act' = act
      BY <2>1 DEF Create
    <3>3. \A q \in known : expiresAt'[q] = expiresAt[q]
      BY <3>2 DEF LimitOK
    <3>4. expiresAt' \in [Session -> Nat]
      BY <3>1, <3>2 DEF LimitOK
    <3>5. QED  BY <3>2, <3>3, <3>4 DEF LimitOK
  <2>2. CASE StreamTouch(s)
    BY <2>2 DEF StreamTouch, LimitOK
  <2>3. QED  BY <1>2, <2>1, <2>2
<1>3. ASSUME NEW r \in Request, NEW s \in Session, Lookup(r, s)
      PROVE  LimitOK'
  <2> DEFINE w == [Idling EXCEPT !.at = "judge", !.sess = s, !.clock = now]
  <2>1. w.at = "judge" /\ w.sess = s
    BY DEF Idling
  <2>2. Become(r, w) /\ s \in known /\ UNCHANGED <<known, expiresAt>>
    BY <1>3 DEF Lookup, Inv, SetsOK
  <2> HIDE DEF w
  <2>3. act'[r] = w /\ \A b \in Actor : b # r => act'[b] = act[b]
    BY <1>1, <2>2 DEF Become, ActorsOK
  <2>4. QED  BY <1>1, <2>1, <2>2, <2>3 DEF LimitOK
<1>4. ASSUME NEW r \in Request, Respond(r) \/ SignOut(r)
      PROVE  LimitOK'
  <2>1. [act[r] EXCEPT !.at = "drop"] \in ActorState /\ [act[r] EXCEPT !.at = "drop"].at = "drop"
    BY <1>1 DEF ActorsOK, ActorState, Places
  <2>2. Become(r, Idling) \/ Become(r, [act[r] EXCEPT !.at = "drop"])
    BY <1>4 DEF Respond, SignOut, Move
  <2>3. UNCHANGED <<known, expiresAt>> /\ Idling.at = "idle" /\ r \in Actor
    BY <1>1, <1>4 DEF Respond, SignOut, Idling
  <2>4. QED  BY <1>1, <2>1, <2>2, <2>3, LimitMove
<1>5. ASSUME NEW a \in Actor, Step(a)
      PROVE  LimitOK'
  BY <1>5, LimitStep
<1>6. CASE Tick \/ CloseAll
  <2>1. \A r \in Request : act'[r] = act[r]
    BY <1>1, <1>6 DEF Tick, CloseAll, Become, ActorsOK
  <2>2. QED  BY <1>6, <2>1 DEF Tick, CloseAll, LimitOK
<1>7. CASE TimePasses \/ JobsChange \/ UNCHANGED vars
  BY <1>7 DEF TimePasses, JobsChange, vars, svars, LimitOK
<1>8. QED
  BY <1>2, <1>3, <1>4, <1>5, <1>6, <1>7 DEF Next

\* SetBusy's "the hard maxTTL still applies": whatever renews a session and however
\* busy it is, no request is served that looked it up past its hard limit.
THEOREM LimitHolds == Spec => []HardLimitHolds
<1>1. Init => LimitOK
  BY DEF Init, LimitOK, Idling, Actor
<1>2. LimitOK => HardLimitHolds
  BY DEF LimitOK, HardLimitHolds
<1>3. QED
  BY <1>1, <1>2, Invariance, LimitNext, PTL DEF Spec
=============================================================================
