----------------------------- MODULE WizardProofs ----------------------------
(***************************************************************************)
(* Two theorems about Wizard, for any catalog, history and set of regions:  *)
(* a request for a scan is found faulty for its hours, for types that the   *)
(* catalog has lost, for too many regions of one account or record or for   *)
(* too many types, and for nothing else; and "scan again" of a record that  *)
(* the user leaves alone is that scan.                                      *)
(***************************************************************************)
EXTENDS Wizard, TLAPS, FiniteSetTheorems

\* Types of the catalog only, or those of a history record, untouched.
Known(T) == T \subseteq Catalog \/ \E p \in Past : T = p.types

Request == [at : {"none", "sent", "started", "invalid", "busy", "gone"},
            from : {"outside", "services", "job"}, spec : Choice]

\* What the pages write, what storage keeps and what the queries bring.
ChoicesOK ==
  /\ wiz \in Choice /\ stored \in Choice /\ text \in Nat
  /\ Known(wiz.types) /\ Known(stored.types)
  /\ page = "services" /\ status = "authed" => wiz.regions # {}

QueriesOK == enabled \subseteq Region /\ catalog \in {{}, Catalog}

\* A job's types passed the server's check.
JobOK == job \in Choice /\ job.types \subseteq Catalog

RequestOK ==
  /\ request \in Request
  /\ request.at # "none" =>
       /\ Known(request.spec.types) /\ request.spec.types # {} /\ request.spec.regions # {}
  /\ request.at = "started" => Valid(request.spec)
  /\ request.at = "invalid" => ~Valid(request.spec)

Inv == ChoicesOK /\ QueriesOK /\ JobOK /\ RequestOK

-----------------------------------------------------------------------------
(* Choices *)

LEMMA EmptyOK == Empty \in Choice /\ Known(Empty.types) /\ Empty.types = {} /\ Empty.regions = {}
BY DEF Empty, Choice, Known

LEMMA HoursOK ==
  ASSUME NEW h, h \in (1 .. 24 * 365) \cup {Off} PROVE h \in Nat \cup {Off}
OBVIOUS

\* A record of the history, as a whole and field by field.
LEMMA PastWhole ==
  ASSUME NEW p \in Past
  PROVE  p = [regions |-> p.regions, types |-> p.types, hours |-> p.hours]
BY Zenon, PastAssumption

LEMMA PastFields ==
  ASSUME NEW p \in Past
  PROVE  /\ p.regions \subseteq Region /\ p.types # {} /\ p.regions # {}
         /\ p.hours \in (1 .. 24 * 365) \cup {Off}
BY Zenon, PastAssumption

LEMMA PastOK ==
  ASSUME NEW p \in Past PROVE p \in Choice /\ Known(p.types) /\ p.types # {} /\ p.regions # {}
<1>1. p = [regions |-> p.regions, types |-> p.types, hours |-> p.hours]  BY Zenon, PastWhole
<1>2. p.regions \in SUBSET Region /\ p.hours \in Nat \cup {Off}
  <2>1. p.regions \subseteq Region  BY PastFields
  <2>2. p.hours \in (1 .. 24 * 365) \cup {Off}  BY PastFields
  <2>3. p.hours \in Nat \cup {Off}  BY <2>2, HoursOK
  <2>4. QED  BY <2>1, <2>3
<1>3. p.types \in SUBSET (Catalog \cup UNION {q.types : q \in Past})  OBVIOUS
<1>4. p \in Choice  BY <1>1, <1>2, <1>3 DEF Choice
<1>5. QED  BY <1>4, PastFields DEF Known

LEMMA FilterOK ==
  ASSUME NEW on, NEW v \in Nat PROVE Filter(on, v) \in Nat \cup {Off}
<1>1. Round(v) \in Nat  BY DEF Round
<1>2. QED  BY <1>1 DEF Filter

\* Types of the catalog replace whatever there was.
LEMMA WithTypes ==
  ASSUME NEW w \in Choice, NEW T \in SUBSET Catalog
  PROVE  /\ [w EXCEPT !.types = T] \in Choice /\ Known([w EXCEPT !.types = T].types)
         /\ [w EXCEPT !.types = T].regions = w.regions
         /\ [w EXCEPT !.types = T].types = T
BY DEF Choice, Known

LEMMA DefaultsOK ==
  ASSUME NEW w \in Choice, Known(w.types), NEW known \in {{}, Catalog}
  PROVE  LET d == [w EXCEPT !.types = Defaults(@, known)] IN
         d \in Choice /\ Known(d.types) /\ d.regions = w.regions
<1>1. CASE known # {} /\ w.types = {}
  <2>1. [w EXCEPT !.types = Defaults(@, known)] = [w EXCEPT !.types = DefaultType]
    BY <1>1 DEF Defaults
  <2>2. QED  BY <2>1, WithTypes, CatalogAssumption
<1>2. CASE ~(known # {} /\ w.types = {})
  <2>1. [w EXCEPT !.types = Defaults(@, known)] = [w EXCEPT !.types = w.types]
    BY <1>2 DEF Defaults
  <2>2. [w EXCEPT !.types = w.types] = w  BY DEF Choice
  <2>3. QED  BY <2>1, <2>2
<1>3. QED  BY <1>1, <1>2

LEMMA WithHours ==
  ASSUME NEW w \in Choice, NEW h \in Nat \cup {Off}
  PROVE  /\ [w EXCEPT !.hours = h] \in Choice
         /\ [w EXCEPT !.hours = h].types = w.types /\ [w EXCEPT !.hours = h].regions = w.regions
BY DEF Choice

LEMMA CarriedOK == Inv => Carried \in Choice /\ Known(Carried.types)
BY DEF Carried, Loaded, Inv, ChoicesOK

LEMMA InitOK == Init => Inv
BY EmptyOK DEF Init, Inv, ChoicesOK, QueriesOK, JobOK, RequestOK, Request, NoRequest

\* The services page opens, and its effects write.
LEMMA ServicesOpensOK ==
  ASSUME Inv, NEW w \in Choice, Known(w.types), ServicesOpens(w)
  PROVE  wiz' \in Choice /\ Known(wiz'.types) /\ wiz'.regions = w.regions /\ stored' = wiz' /\ text' \in Nat
<1> DEFINE on == w.hours # Off
           v  == IF w.hours = Off THEN 240 ELSE 10 * w.hours
           d  == [w EXCEPT !.types = Defaults(@, catalog)]
<1>1. w.hours \in Nat \cup {Off}  BY DEF Choice
<1>2. v \in Nat  BY <1>1
<1>3. text' \in Nat  BY <1>2 DEF ServicesOpens, NoInput
<1>4. d \in Choice /\ Known(d.types) /\ d.regions = w.regions
  BY DefaultsOK DEF Inv, QueriesOK
<1>5. Filter(on, v) \in Nat \cup {Off}  BY <1>2, FilterOK
<1>6. [w EXCEPT !.types = Defaults(@, catalog), !.hours = Filter(on, v)]
        = [d EXCEPT !.hours = Filter(on, v)]
  OBVIOUS
<1>7. wiz' = [d EXCEPT !.hours = Filter(on, v)] /\ stored' = wiz'
  BY <1>6 DEF ServicesOpens, Sets
<1> HIDE DEF d, v, on
<1>8. QED  BY <1>3, <1>4, <1>5, <1>7, WithHours

\* Whatever page opens, the choices stay sound, and the services page shows
\* some regions.
LEMMA OpensOK ==
  ASSUME Inv, NEW p, NEW st, NEW w \in Choice, Known(w.types), Opens(p, w, st)
  PROVE  ChoicesOK'
<1>1. status' = st
      /\ page' = CASE p \in Inside /\ st # "authed"        -> "outside"
                   [] p = "services" /\ w.regions = {}     -> "regions"
                   [] OTHER                                -> p
  BY DEF Opens
<1>2. page' = "services" /\ status' = "authed" => p = "services" /\ w.regions # {}
  BY <1>1 DEF Inside
<1>3. CASE p = "services" /\ st = "authed"
  <2>1. ServicesOpens(w)  BY <1>3 DEF Opens
  <2>2. QED  BY <1>2, <2>1, ServicesOpensOK DEF ChoicesOK
<1>4. CASE p \in {"regions", "job"} /\ st = "authed"
  <2>1. wiz' = w /\ stored' = w /\ text' = 240  BY <1>4 DEF Opens, Sets, NoInput
  <2>2. QED  BY <1>2, <1>4, <2>1 DEF ChoicesOK
<1>5. CASE ~(p \in {"services", "regions", "job"} /\ st = "authed")
  <2>1. wiz' = Empty /\ stored' = stored /\ text' = 240  BY <1>5 DEF Opens, NoInput
  <2>2. QED  BY <1>1, <1>2, <1>5, <2>1, EmptyOK DEF ChoicesOK, Inv
<1>6. QED  BY <1>3, <1>4, <1>5

-----------------------------------------------------------------------------
(* The pages *)

\* A page opens; nothing else but the queries' answers and a job goes.
LEMMA OpeningStep ==
  ASSUME Inv, NEW p, NEW st, NEW w \in Choice, Known(w.types), Opens(p, w, st),
         enabled' \in {enabled, {}}, catalog' \in {catalog, {}}, JobOK', RequestOK'
  PROVE  Inv'
<1>1. ChoicesOK'  BY OpensOK
<1>2. QueriesOK'  BY DEF Inv, QueriesOK
<1>3. QED  BY <1>1, <1>2 DEF Inv

LEMMA SameRequest == ASSUME Inv, UNCHANGED request PROVE RequestOK'
BY DEF Inv, RequestOK, Known, Valid

LEMMA NoRequestStep == ASSUME request' = NoRequest PROVE RequestOK'
BY EmptyOK DEF RequestOK, Request, NoRequest

LEMMA SameJob == ASSUME Inv, job' = job \/ job' = Empty PROVE JobOK'
BY EmptyOK DEF Inv, JobOK, Empty

\* A choice is made on the page that is open.
LEMMA ChoosesStep ==
  ASSUME Inv, NEW w \in Choice, Known(w.types), Chooses(w), text' \in Nat,
         page = "services" => w.regions = wiz.regions
  PROVE  Inv'
<1>1. wiz' = w /\ stored' = w /\ UNCHANGED <<status, page, enabled, catalog, job, request>>
  BY DEF Chooses, Sets
<1>2. ChoicesOK'  BY <1>1 DEF Inv, ChoicesOK
<1>3. QueriesOK' /\ JobOK' /\ RequestOK'
  BY <1>1, SameRequest, SameJob DEF Inv, QueriesOK
<1>4. QED  BY <1>2, <1>3 DEF Inv

LEMMA WithRegions ==
  ASSUME NEW w \in Choice, NEW R \in SUBSET Region
  PROVE  /\ [w EXCEPT !.regions = R] \in Choice
         /\ [w EXCEPT !.regions = R].types = w.types /\ [w EXCEPT !.regions = R].regions = R
BY DEF Choice

LEMMA RegionChoices ==
  ASSUME Inv, (\E r \in Region : Toggle(r)) \/ AllOrNone PROVE Inv'
<1>1. PICK R \in SUBSET Region : Chooses([wiz EXCEPT !.regions = R])
  BY DEF Toggle, AllOrNone, Inv, QueriesOK
<1>2. page = "regions" /\ text' = text  BY DEF Toggle, AllOrNone
<1>3. wiz \in Choice /\ Known(wiz.types) /\ text \in Nat  BY DEF Inv, ChoicesOK
<1>4. QED  BY <1>1, <1>2, <1>3, WithRegions, ChoosesStep

LEMMA TypeChoices ==
  ASSUME Inv, Presets \/ \E S \in SUBSET Catalog : ToggleTypes(S) PROVE Inv'
<1>1. PICK T \in SUBSET Catalog : Chooses([wiz EXCEPT !.types = T])
  <2>1. CASE Presets
    <3>1. \A S \in {{}} \cup (IF catalog = {} THEN {} ELSE {DefaultType, catalog}) : S \in SUBSET Catalog
      BY CatalogAssumption DEF Inv, QueriesOK
    <3>2. QED  BY <2>1, <3>1 DEF Presets
  <2>2. ASSUME NEW S \in SUBSET Catalog, ToggleTypes(S)
        PROVE  \E T \in SUBSET Catalog : Chooses([wiz EXCEPT !.types = T])
    <3>1. catalog = Catalog  BY <2>2 DEF ToggleTypes, Inv, QueriesOK
    <3>2. Picked(wiz.types \cup S) \in SUBSET Catalog /\ Picked(wiz.types \ S) \in SUBSET Catalog
      BY <3>1 DEF Picked
    <3>3. QED  BY <2>2, <3>2 DEF ToggleTypes
  <2>3. QED  BY <2>1, <2>2
<1>2. text' = text  BY DEF Presets, ToggleTypes
<1>3. wiz \in Choice /\ text \in Nat  BY DEF Inv, ChoicesOK
<1>4. QED  BY <1>1, <1>2, <1>3, WithTypes, ChoosesStep

LEMMA FilterChoices ==
  ASSUME Inv, NEW on \in BOOLEAN, NEW v \in Text \cup {text}, ChooseFilter(on, v) PROVE Inv'
<1>1. wiz \in Choice /\ Known(wiz.types) /\ v \in Nat
  BY CatalogAssumption DEF Inv, ChoicesOK
<1>2. Filter(on, v) \in Nat \cup {Off}  BY <1>1, FilterOK
<1>3. Chooses([wiz EXCEPT !.hours = Filter(on, v)]) /\ text' = v  BY DEF ChooseFilter
<1>4. QED  BY <1>1, <1>2, <1>3, WithHours, ChoosesStep

LEMMA QueryStep == ASSUME Inv, RegionsArrive \/ CatalogArrives PROVE Inv'
<1>1. CASE RegionsArrive
  <2>1. enabled' \in SUBSET Region  BY <1>1, CatalogAssumption DEF RegionsArrive
  <2>2. UNCHANGED <<status, page, wiz, stored, catalog, text, job, request>>
    BY <1>1 DEF RegionsArrive
  <2>3. QED
    BY <2>1, <2>2, SameRequest, SameJob DEF Inv, ChoicesOK, QueriesOK
<1>2. CASE CatalogArrives
  <2> DEFINE d == [wiz EXCEPT !.types = Defaults(@, Catalog)]
  <2>1. d \in Choice /\ Known(d.types) /\ d.regions = wiz.regions
    BY DefaultsOK DEF Inv, ChoicesOK
  <2>2. wiz' = d /\ stored' = d /\ catalog' = Catalog
        /\ UNCHANGED <<status, page, enabled, text, job, request>>
    BY <1>2 DEF CatalogArrives, Sets
  <2> HIDE DEF d
  <2>3. QED
    BY <2>1, <2>2, SameRequest, SameJob DEF Inv, ChoicesOK, QueriesOK
<1>3. QED  BY <1>1, <1>2

-----------------------------------------------------------------------------
(* Requests *)

\* What is sent names regions and types.
LEMMA SendsOK ==
  ASSUME NEW from \in {"outside", "services", "job"}, NEW s \in Choice, Sends(from, s),
         Known(s.types), s.types # {}, s.regions # {}
  PROVE  RequestOK'
<1>1. request' = [at |-> "sent", from |-> from, spec |-> s]  BY DEF Sends
<1>2. QED  BY <1>1 DEF RequestOK, Request, Known

LEMMA StartStep == ASSUME Inv, Start PROVE Inv'
<1>1. wiz \in Choice /\ Known(wiz.types) /\ wiz.types # {} /\ wiz.regions # {}
  BY DEF Start, Mounted, Inv, ChoicesOK
<1>2. Sends("services", wiz) /\ UNCHANGED <<status, page, wiz, stored, enabled, catalog, text, job>>
  BY DEF Start
<1>3. QED  BY <1>1, <1>2, SendsOK, SameJob DEF Inv, ChoicesOK, QueriesOK

LEMMA ScanAgainStep == ASSUME Inv, ScanAgain PROVE Inv'
<1>1. PICK p \in Past : stored' = p /\ (IF status = "authed" THEN Sends("outside", p) ELSE UNCHANGED request)
  BY DEF ScanAgain
<1>2. RequestOK'  BY <1>1, PastOK, SendsOK, SameRequest
<1>3. UNCHANGED <<status, page, wiz, enabled, catalog, text, job>>  BY DEF ScanAgain
<1>4. QED  BY <1>1, <1>2, <1>3, PastOK, SameJob DEF Inv, ChoicesOK, QueriesOK

LEMMA ScanCleanedAgainStep == ASSUME Inv, ScanCleanedAgain PROVE Inv'
<1>1. PICK R \in (SUBSET job.regions) \ {{}}, T \in (SUBSET job.types) \ {{}} :
        /\ Sets([wiz EXCEPT !.regions = R, !.types = T])
        /\ Sends("job", [regions |-> R, types |-> T, hours |-> job.hours])
  BY DEF ScanCleanedAgain
<1>2. R \in SUBSET Region /\ T \in SUBSET Catalog /\ job.hours \in Nat \cup {Off}
  BY DEF Inv, JobOK, Choice
<1> DEFINE s == [regions |-> R, types |-> T, hours |-> job.hours]
           w == [wiz EXCEPT !.regions = R, !.types = T]
<1>3. s \in Choice /\ Known(s.types) /\ s.types # {} /\ s.regions # {}
  BY <1>2 DEF Choice, Known
<1>4. w \in Choice /\ Known(w.types) /\ w.regions # {}
  BY <1>2 DEF Choice, Known, Inv, ChoicesOK
<1>5. wiz' = w /\ stored' = w /\ UNCHANGED <<status, page, enabled, catalog, text, job>>
  BY <1>1 DEF ScanCleanedAgain, Sets
<1>6. RequestOK'  BY <1>1, <1>3, SendsOK
<1> HIDE DEF w
<1>7. QED  BY <1>4, <1>5, <1>6, SameJob DEF Inv, ChoicesOK, QueriesOK

LEMMA ServeStep == ASSUME Inv, ServeScan PROVE Inv'
<1>1. PICK a \in {IF Valid(request.spec) THEN "started" ELSE "invalid", "busy", "gone"} :
        request' = [request EXCEPT !.at = a]
  BY DEF ServeScan
<1>2. request \in Request /\ request.at = "sent"  BY DEF Inv, RequestOK, ServeScan
<1>3. request' \in Request /\ request'.at = a /\ request'.spec = request.spec
  BY <1>1, <1>2 DEF Request
<1>4. RequestOK'  BY <1>1, <1>2, <1>3 DEF Inv, RequestOK, Known, Valid
<1>5. UNCHANGED <<status, page, wiz, stored, enabled, catalog, text, job>>  BY DEF ServeScan
<1>6. QED  BY <1>4, <1>5, SameJob DEF Inv, ChoicesOK, QueriesOK

\* A started scan passed the check, and had a region of its own.
LEMMA AnsweredStep == ASSUME Inv, Answered PROVE Inv'
<1>1. RequestOK'  BY NoRequestStep DEF Answered
<1>2. UNCHANGED catalog  BY DEF Answered
<1>3. CASE request.at = "started"
  <2>1. Opens("job", Carried, status) /\ UNCHANGED enabled
        /\ job' = IF status = "authed" THEN WithRegion(request.spec) ELSE Empty
    BY <1>3 DEF Answered
  <2>2. WithRegion(request.spec) = request.spec
    BY <1>3 DEF WithRegion, Inv, RequestOK
  <2>3. request.spec \in Choice /\ request.spec.types \subseteq Catalog
    BY <1>3 DEF Inv, RequestOK, Request, Valid
  <2>4. JobOK'  BY <2>1, <2>2, <2>3, EmptyOK DEF JobOK, Empty
  <2>5. QED  BY <1>1, <1>2, <2>1, <2>4, CarriedOK, OpeningStep
<1>4. CASE request.at = "gone"
  <2>1. Opens(page, Carried, "anonymous") /\ enabled' = {} /\ job' = Empty
    BY <1>4 DEF Answered
  <2>2. QED  BY <1>1, <1>2, <2>1, CarriedOK, OpeningStep, SameJob
<1>5. CASE request.at \notin {"started", "gone"}
  <2>1. UNCHANGED <<status, page, wiz, stored, text, enabled, job>>  BY <1>5 DEF Answered
  <2>2. QED  BY <1>1, <1>2, <2>1, SameJob DEF Inv, ChoicesOK, QueriesOK
<1>6. QED  BY <1>3, <1>4, <1>5

LEMMA OpeningSteps ==
  ASSUME Inv, (\E p \in {"regions", "services", "outside"} : Visit(p)) \/ Onward \/ Reload \/ Expire \/ SignIn
  PROVE  Inv'
<1> Carried \in Choice /\ Known(Carried.types)  BY CarriedOK
<1> wiz \in Choice /\ Known(wiz.types) /\ Loaded \in Choice /\ Known(Loaded.types)
  BY DEF Inv, ChoicesOK, Loaded
<1>1. ASSUME NEW p \in {"regions", "services", "outside"}, Visit(p) PROVE Inv'
  BY <1>1, OpeningStep, SameRequest, SameJob DEF Visit
<1>2. CASE Onward  BY <1>2, OpeningStep, SameRequest, SameJob DEF Onward
<1>3. CASE Reload  BY <1>3, OpeningStep, NoRequestStep, SameJob DEF Reload
<1>4. CASE Expire  BY <1>4, OpeningStep, SameRequest, SameJob DEF Expire
<1>5. CASE SignIn  BY <1>5, OpeningStep, SameRequest, SameJob DEF SignIn
<1>6. QED  BY <1>1, <1>2, <1>3, <1>4, <1>5

LEMMA InvStep == Inv /\ [Next]_vars => Inv'
<1> SUFFICES ASSUME Inv, [Next]_vars PROVE Inv'  OBVIOUS
<1>1. CASE (\E p \in {"regions", "services", "outside"} : Visit(p)) \/ Onward \/ Reload \/ Expire \/ SignIn
  BY <1>1, OpeningSteps
<1>2. CASE (\E r \in Region : Toggle(r)) \/ AllOrNone  BY <1>2, RegionChoices
<1>3. CASE Presets \/ \E S \in SUBSET Catalog : ToggleTypes(S)  BY <1>3, TypeChoices
<1>4. CASE \E on \in BOOLEAN, v \in Text \cup {text} : ChooseFilter(on, v)  BY <1>4, FilterChoices
<1>5. CASE RegionsArrive \/ CatalogArrives  BY <1>5, QueryStep
<1>6. CASE Start  BY <1>6, StartStep
<1>7. CASE ScanAgain  BY <1>7, ScanAgainStep
<1>8. CASE ScanCleanedAgain  BY <1>8, ScanCleanedAgainStep
<1>9. CASE ServeScan  BY <1>9, ServeStep
<1>10. CASE Answered  BY <1>10, AnsweredStep
<1>11. CASE SignOut
  <2>1. ChoicesOK'  BY <1>11, EmptyOK DEF SignOut, ChoicesOK, NoInput
  <2>2. QueriesOK'  BY <1>11 DEF SignOut, Inv, QueriesOK
  <2>3. JobOK' /\ RequestOK'  BY <1>11, SameJob, SameRequest DEF SignOut
  <2>4. QED  BY <2>1, <2>2, <2>3 DEF Inv
<1>12. CASE UNCHANGED vars
  BY <1>12, SameJob, SameRequest DEF vars, Inv, ChoicesOK, QueriesOK
<1>13. QED
  BY <1>1, <1>2, <1>3, <1>4, <1>5, <1>6, <1>7, <1>8, <1>9, <1>10, <1>11, <1>12 DEF Next

-----------------------------------------------------------------------------
(* Regions *)

\* No regions, or some that one account has enabled or one record had.
Offered(R) == R = {} \/ OfOneAccount(R)

OfferedOK ==
  /\ Offered(wiz.regions) /\ Offered(stored.regions)
  /\ Offered(job.regions) /\ Offered(request.spec.regions)
  /\ enabled \in Enabled \cup {{}}

LEMMA FewerOffered == ASSUME NEW R, Offered(R), NEW S \in SUBSET R PROVE Offered(S)
BY DEF Offered, OfOneAccount

LEMMA EnabledOffered == ASSUME NEW E \in Enabled \cup {{}}, NEW S \in SUBSET E PROVE Offered(S)
BY DEF Offered, OfOneAccount

LEMMA PastOffered == ASSUME NEW p \in Past PROVE Offered(p.regions)
BY DEF Offered, OfOneAccount

LEMMA EmptyOffered == Offered(Empty.regions) /\ Offered(NoRequest.spec.regions)
BY DEF Offered, Empty, NoRequest

\* A page opens with offered regions.
LEMMA OpensOffered ==
  ASSUME Inv, OfferedOK, NEW p, NEW st, NEW w \in Choice, Known(w.types), Offered(w.regions),
         Opens(p, w, st)
  PROVE  Offered(wiz'.regions) /\ Offered(stored'.regions)
<1>1. CASE p = "services" /\ st = "authed"
  <2>1. ServicesOpens(w)  BY <1>1 DEF Opens
  <2>2. wiz'.regions = w.regions /\ stored' = wiz'  BY <2>1, ServicesOpensOK
  <2>3. QED  BY <2>2
<1>2. CASE p \in {"regions", "job"} /\ st = "authed"
  <2>1. wiz' = w /\ stored' = w  BY <1>2 DEF Opens, Sets
  <2>2. QED  BY <2>1
<1>3. CASE ~(p \in {"services", "regions", "job"} /\ st = "authed")
  <2>1. wiz' = Empty /\ stored' = stored  BY <1>3 DEF Opens
  <2>2. QED  BY <2>1, EmptyOffered DEF OfferedOK
<1>4. QED  BY <1>1, <1>2, <1>3

LEMMA OpeningOffered ==
  ASSUME Inv, OfferedOK,
         (\E p \in {"regions", "services", "outside"} : Visit(p)) \/ Onward \/ Reload \/ Expire \/ SignIn
  PROVE  OfferedOK'
<1>0. /\ Carried \in Choice /\ Known(Carried.types) /\ Offered(Carried.regions)
      /\ wiz \in Choice /\ Known(wiz.types) /\ Offered(wiz.regions)
      /\ Loaded \in Choice /\ Known(Loaded.types) /\ Offered(Loaded.regions)
  BY DEF Inv, ChoicesOK, OfferedOK, Carried, Loaded
<1>1. /\ job' \in {job, Empty} /\ request' \in {request, NoRequest}
      /\ enabled' \in {enabled, {}}
  BY DEF Visit, Onward, Reload, Expire, SignIn
<1>2. \E p, st : \E w \in {Carried, wiz, Loaded} : Opens(p, w, st)
  BY DEF Visit, Onward, Reload, Expire, SignIn
<1>3. Offered(wiz'.regions) /\ Offered(stored'.regions)
  BY <1>0, <1>2, OpensOffered
<1>4. QED  BY <1>1, <1>3, EmptyOffered DEF OfferedOK

\* The chips and the map's markers keep to what the account has enabled.
LEMMA ChoicesOffered ==
  ASSUME Inv, OfferedOK, (\E r \in Region : Toggle(r)) \/ AllOrNone
  PROVE  OfferedOK'
<1>1. PICK R \in SUBSET enabled : Chooses([wiz EXCEPT !.regions = R])
  BY DEF Toggle, AllOrNone
<1>2. R \in SUBSET Region /\ wiz \in Choice  BY DEF Inv, QueriesOK, ChoicesOK
<1>3. [wiz EXCEPT !.regions = R].regions = R  BY <1>2, WithRegions
<1>4. Offered(R)  BY EnabledOffered DEF OfferedOK
<1>5. QED  BY <1>1, <1>3, <1>4 DEF Chooses, Sets, OfferedOK

\* Types and hours are chosen apart from the regions.
LEMMA SameRegions ==
  ASSUME Inv, OfferedOK,
         \/ Presets \/ (\E S \in SUBSET Catalog : ToggleTypes(S)) \/ CatalogArrives
         \/ \E on \in BOOLEAN, v \in Text \cup {text} : ChooseFilter(on, v)
  PROVE  OfferedOK'
<1>1. wiz \in Choice  BY DEF Inv, ChoicesOK
<1>2. /\ \A T : [wiz EXCEPT !.types = T].regions = wiz.regions
      /\ \A h : [wiz EXCEPT !.hours = h].regions = wiz.regions
  BY <1>1 DEF Choice
<1>3. CASE Presets
  BY <1>2, <1>3 DEF Presets, Chooses, Sets, OfferedOK
<1>4. CASE \E S \in SUBSET Catalog : ToggleTypes(S)
  BY <1>2, <1>4 DEF ToggleTypes, Chooses, Sets, OfferedOK
<1>5. CASE CatalogArrives
  BY <1>2, <1>5 DEF CatalogArrives, Sets, OfferedOK
<1>6. CASE \E on \in BOOLEAN, v \in Text \cup {text} : ChooseFilter(on, v)
  BY <1>2, <1>6 DEF ChooseFilter, Chooses, Sets, OfferedOK
<1>7. QED  BY <1>3, <1>4, <1>5, <1>6

LEMMA ScansOffered ==
  ASSUME Inv, OfferedOK, Start \/ ScanAgain \/ ScanCleanedAgain \/ ServeScan
  PROVE  OfferedOK'
<1>1. CASE Start
  BY <1>1 DEF Start, Sends, OfferedOK
<1>2. CASE ScanAgain
  <2>1. PICK p \in Past : stored' = p /\ (IF status = "authed" THEN Sends("outside", p) ELSE UNCHANGED request)
    BY <1>2 DEF ScanAgain
  <2>2. UNCHANGED <<wiz, enabled, job>>  BY <1>2 DEF ScanAgain
  <2>3. QED  BY <2>1, <2>2, PastOffered DEF Sends, OfferedOK
<1>3. CASE ScanCleanedAgain
  <2>1. PICK R \in (SUBSET job.regions) \ {{}}, T \in (SUBSET job.types) \ {{}} :
          /\ Sets([wiz EXCEPT !.regions = R, !.types = T])
          /\ Sends("job", [regions |-> R, types |-> T, hours |-> job.hours])
    BY <1>3 DEF ScanCleanedAgain
  <2>2. Offered(R)  BY <2>1, FewerOffered DEF OfferedOK
  <2>3. wiz'.regions = R /\ stored'.regions = R
    BY <2>1 DEF Sets, Inv, ChoicesOK, Choice
  <2>4. request'.spec.regions = R /\ UNCHANGED <<enabled, job>>
    BY <1>3, <2>1 DEF Sends, ScanCleanedAgain
  <2>5. QED  BY <2>2, <2>3, <2>4 DEF OfferedOK
<1>4. CASE ServeScan
  <2>1. request'.spec = request.spec /\ UNCHANGED <<wiz, stored, enabled, job>>
    BY <1>4 DEF ServeScan, Inv, RequestOK, Request
  <2>2. QED  BY <2>1 DEF OfferedOK
<1>5. QED  BY <1>1, <1>2, <1>3, <1>4

\* The job that is shown has the regions of the request.
LEMMA AnsweredOffered == ASSUME Inv, OfferedOK, Answered PROVE OfferedOK'
<1>0. /\ Carried \in Choice /\ Known(Carried.types) /\ Offered(Carried.regions)
      /\ request' = NoRequest
  BY DEF Inv, ChoicesOK, OfferedOK, Carried, Loaded, Answered
<1>1. CASE request.at = "started"
  <2>1. Opens("job", Carried, status) /\ UNCHANGED enabled
        /\ job' = IF status = "authed" THEN WithRegion(request.spec) ELSE Empty
    BY <1>1 DEF Answered
  <2>2. WithRegion(request.spec) = request.spec
    BY <1>1 DEF WithRegion, Inv, RequestOK
  <2>3. Offered(job'.regions)  BY <2>1, <2>2, EmptyOffered DEF OfferedOK
  <2>4. QED  BY <1>0, <2>1, <2>3, OpensOffered, EmptyOffered DEF OfferedOK
<1>2. CASE request.at = "gone"
  <2>1. Opens(page, Carried, "anonymous") /\ enabled' = {} /\ job' = Empty
    BY <1>2 DEF Answered
  <2>2. QED  BY <1>0, <2>1, OpensOffered, EmptyOffered DEF OfferedOK
<1>3. CASE request.at \notin {"started", "gone"}
  <2>1. UNCHANGED <<wiz, stored, enabled, job>>  BY <1>3 DEF Answered
  <2>2. QED  BY <1>0, <2>1, EmptyOffered DEF OfferedOK
<1>4. QED  BY <1>1, <1>2, <1>3

LEMMA OfferedStep == Inv /\ OfferedOK /\ [Next]_vars => OfferedOK'
<1> SUFFICES ASSUME Inv, OfferedOK, [Next]_vars PROVE OfferedOK'  OBVIOUS
<1>1. CASE (\E p \in {"regions", "services", "outside"} : Visit(p)) \/ Onward \/ Reload \/ Expire \/ SignIn
  BY <1>1, OpeningOffered
<1>2. CASE (\E r \in Region : Toggle(r)) \/ AllOrNone  BY <1>2, ChoicesOffered
<1>3. CASE \/ Presets \/ (\E S \in SUBSET Catalog : ToggleTypes(S)) \/ CatalogArrives
           \/ \E on \in BOOLEAN, v \in Text \cup {text} : ChooseFilter(on, v)
  BY <1>3, SameRegions
<1>4. CASE Start \/ ScanAgain \/ ScanCleanedAgain \/ ServeScan  BY <1>4, ScansOffered
<1>5. CASE Answered  BY <1>5, AnsweredOffered
<1>6. CASE RegionsArrive  BY <1>6 DEF RegionsArrive, OfferedOK
<1>7. CASE SignOut  BY <1>7, EmptyOffered DEF SignOut, OfferedOK
<1>8. CASE UNCHANGED vars  BY <1>8 DEF vars, OfferedOK
<1>9. QED  BY <1>1, <1>2, <1>3, <1>4, <1>5, <1>6, <1>7, <1>8 DEF Next

\* The server finds fault with a scan for its hours, for types that only an
\* untouched history record has, for more regions of one account or record than
\* it takes, or for more types than it takes (RefusedForReason,
\* services.tsx:155-157, regions.tsx:51-57, handlers.go:188-230).
THEOREM OnlyTheseReasons == Spec => []RefusedForReason
<1>1. Init => OfferedOK  BY EmptyOffered DEF Init, OfferedOK
<1>2. Inv /\ OfferedOK => RefusedForReason
  <2> DEFINE s    == request.spec
             Held == s.hours = Off \/ s.hours \in 1 .. 24 * 365
             Lost == \E p \in Past : s.types = p.types /\ ~(p.types \subseteq Catalog)
             Wide == OfOneAccount(s.regions) /\ Cardinality(s.regions) > MaxRegions
             Full == s.types \subseteq Catalog /\ Cardinality(s.types) > MaxTypes
  <2>1. ASSUME Inv, OfferedOK, request.at = "invalid" PROVE ~Held \/ Lost \/ Wide \/ Full
    <3>1. ~Valid(s) /\ s.types # {} /\ s.regions # {} /\ Known(s.types) /\ s.regions \subseteq Region
      BY <2>1 DEF Inv, RequestOK, Request, Choice
    <3>2. OfOneAccount(s.regions)  BY <2>1, <3>1 DEF OfferedOK, Offered
    <3>3. Cardinality(s.regions) \in Nat
      BY <3>1, FS_Subset, FS_CardinalityType, LimitAssumption
    <3>4. s.types \subseteq Catalog => Cardinality(s.types) \in Nat
      BY FS_Subset, FS_CardinalityType, LimitAssumption
    <3>5. \/ ~Held \/ ~(s.types \subseteq Catalog)
          \/ ~(Cardinality(s.regions) <= MaxRegions) \/ ~(Cardinality(s.types) <= MaxTypes)
      BY <3>1 DEF Valid
    <3>6. ~(s.types \subseteq Catalog) => Lost  BY <3>1 DEF Known
    <3>7. ~(Cardinality(s.regions) <= MaxRegions) => Wide
      BY <3>2, <3>3, LimitAssumption
    <3>8. s.types \subseteq Catalog /\ ~(Cardinality(s.types) <= MaxTypes) => Full
      BY <3>4, LimitAssumption
    <3> HIDE DEF Held, Lost, Wide, Full
    <3>9. QED  BY <3>5, <3>6, <3>7, <3>8
  <2>2. QED  BY <2>1, Zenon DEF RefusedForReason
<1>3. QED  BY <1>1, <1>2, InitOK, InvStep, OfferedStep, PTL DEF Spec

-----------------------------------------------------------------------------
(* Scan again *)

\* What "scan again" preset is a record's scan; until the user changes it,
\* storage holds it, and so does the provider while there is one.
IntactOK ==
  intact # Empty => intact \in Past /\ stored = intact /\ (Mounted => wiz = intact)

\* The effects of the services page leave a record's scan alone: whole hours come
\* back from the input as they were.
LEMMA ServicesOpensSame ==
  ASSUME NEW p \in Past, ServicesOpens(p) PROVE wiz' = p /\ stored' = p
<1> DEFINE on == p.hours # Off
           v  == IF p.hours = Off THEN 240 ELSE 10 * p.hours
<1>1. Defaults(p.types, catalog) = p.types  BY PastFields DEF Defaults
<1>2. Filter(on, v) = p.hours
  <2>1. CASE p.hours = Off  BY <2>1 DEF Filter
  <2>2. CASE p.hours # Off
    <3>1. p.hours \in 1 .. 24 * 365  BY <2>2, PastFields
    <3>2. PICK h \in 1 .. 24 * 365 : h = p.hours  BY <3>1
    <3>3. Round(10 * h) = h /\ 10 * h > 0  BY DEF Round
    <3>4. QED  BY <2>2, <3>2, <3>3 DEF Filter
  <2>3. QED  BY <2>1, <2>2
<1>3. wiz' = [p EXCEPT !.types = Defaults(@, catalog), !.hours = Filter(on, v)] /\ stored' = wiz'
  BY DEF ServicesOpens, Sets
<1>4. [p EXCEPT !.types = Defaults(@, catalog), !.hours = Filter(on, v)]
        = [p EXCEPT !.types = p.types, !.hours = p.hours]
  BY <1>1, <1>2
<1>5. [p EXCEPT !.types = p.types, !.hours = p.hours] = p
  <2>1. p = [regions |-> p.regions, types |-> p.types, hours |-> p.hours]  BY Zenon, PastWhole
  <2>2. [p EXCEPT !.types = p.types] = p  BY <2>1
  <2>3. [p EXCEPT !.hours = p.hours] = p  BY <2>1
  <2>4. QED  BY <2>2, <2>3
<1>6. QED  BY <1>3, <1>4, <1>5

\* So does every page that opens with it.
LEMMA OpensSame ==
  ASSUME NEW w, NEW p, NEW st, Opens(p, w, st), stored = intact, UNCHANGED intact,
         intact \in Past, st = "authed" /\ p \in Inside => w = intact
  PROVE  IntactOK'
<1>1. status' = st /\ (st # "authed" \/ p \notin Inside => ~Mounted')
  BY DEF Opens, Mounted, Inside
<1>2. CASE p = "services" /\ st = "authed"
  <2>1. ServicesOpens(intact)  BY <1>2 DEF Opens, Inside
  <2>2. QED  BY <2>1, ServicesOpensSame DEF IntactOK
<1>3. CASE p \in {"regions", "job"} /\ st = "authed"
  <2>1. wiz' = intact /\ stored' = intact  BY <1>3 DEF Opens, Sets, Inside
  <2>2. QED  BY <2>1 DEF IntactOK
<1>4. CASE ~(p \in {"services", "regions", "job"} /\ st = "authed")
  <2>1. stored' = stored  BY <1>4 DEF Opens
  <2>2. ~Mounted'  BY <1>1, <1>4 DEF Inside
  <2>3. QED  BY <2>1, <2>2 DEF IntactOK
<1>5. QED  BY <1>2, <1>3, <1>4

LEMMA IntactGone == ASSUME intact' = Empty PROVE IntactOK'
BY DEF IntactOK

LEMMA IntactKept ==
  ASSUME IntactOK, UNCHANGED <<status, page, wiz, stored, intact>> PROVE IntactOK'
BY DEF IntactOK, Mounted

\* The steps that open a page.
LEMMA IntactOpens ==
  ASSUME IntactOK,
         (\E p \in {"regions", "services", "outside"} : Visit(p)) \/ Onward \/ Reload \/ Expire \/ SignIn
  PROVE  IntactOK'
<1>1. UNCHANGED intact  BY DEF Visit, Onward, Reload, Expire, SignIn
<1>2. CASE intact = Empty  BY <1>1, <1>2, IntactGone
<1>3. CASE intact # Empty
  <2>1. intact \in Past /\ stored = intact /\ Carried = intact /\ Loaded = intact
    BY <1>3 DEF IntactOK, Carried, Loaded
  <2>2. ASSUME NEW p \in {"regions", "services", "outside"}, Visit(p) PROVE IntactOK'
    BY <1>1, <2>1, <2>2, OpensSame DEF Visit
  <2>3. CASE Onward
    <3>1. wiz = intact /\ Opens("services", wiz, status)  BY <1>3, <2>3 DEF Onward, IntactOK
    <3>2. QED  BY <1>1, <2>1, <3>1, OpensSame
  <2>4. CASE Reload  BY <1>1, <2>1, <2>4, OpensSame DEF Reload
  <2>5. CASE Expire  BY <1>1, <2>1, <2>5, OpensSame DEF Expire
  <2>6. CASE SignIn  BY <1>1, <2>1, <2>6, OpensSame DEF SignIn
  <2>7. QED  BY <2>2, <2>3, <2>4, <2>5, <2>6
<1>4. QED  BY <1>2, <1>3

LEMMA IntactAnswered == ASSUME IntactOK, Answered PROVE IntactOK'
<1>1. UNCHANGED intact  BY DEF Answered
<1>2. CASE intact = Empty  BY <1>1, <1>2, IntactGone
<1>3. CASE intact # Empty
  <2>1. intact \in Past /\ stored = intact /\ Carried = intact
    BY <1>3 DEF IntactOK, Carried, Loaded
  <2>2. CASE request.at = "started"
    <3>1. Opens("job", Carried, status)  BY <2>2 DEF Answered
    <3>2. QED  BY <1>1, <2>1, <3>1, OpensSame
  <2>3. CASE request.at = "gone"
    <3>1. Opens(page, Carried, "anonymous")  BY <2>3 DEF Answered
    <3>2. QED  BY <1>1, <2>1, <3>1, OpensSame
  <2>4. CASE request.at \notin {"started", "gone"}
    <3>1. UNCHANGED <<status, page, wiz, stored>>  BY <2>4 DEF Answered
    <3>2. QED  BY <1>1, <3>1, IntactKept
  <2>5. QED  BY <2>2, <2>3, <2>4
<1>4. QED  BY <1>2, <1>3

\* The catalog's answer fills in the default types only when none is selected.
LEMMA IntactCatalog == ASSUME IntactOK, CatalogArrives PROVE IntactOK'
<1>1. UNCHANGED <<status, page, intact>> /\ Mounted
  BY DEF CatalogArrives
<1>2. CASE intact = Empty  BY <1>1, <1>2, IntactGone
<1>3. CASE intact # Empty
  <2>1. wiz = intact /\ intact \in Past  BY <1>1, <1>3 DEF IntactOK
  <2>2. Defaults(intact.types, Catalog) = intact.types  BY <2>1, PastFields DEF Defaults
  <2>3. [intact EXCEPT !.types = intact.types] = intact
    <3>1. intact = [regions |-> intact.regions, types |-> intact.types, hours |-> intact.hours]
      BY <2>1, Zenon, PastWhole
    <3>2. QED  BY <3>1
  <2>4. wiz' = intact /\ stored' = intact
    BY <2>1, <2>2, <2>3 DEF CatalogArrives, Sets
  <2>5. QED  BY <1>1, <2>1, <2>4 DEF IntactOK
<1>4. QED  BY <1>2, <1>3

LEMMA IntactStep == IntactOK /\ [Next]_vars => IntactOK'
<1> SUFFICES ASSUME IntactOK, [Next]_vars PROVE IntactOK'  OBVIOUS
<1>1. CASE (\E p \in {"regions", "services", "outside"} : Visit(p)) \/ Onward \/ Reload \/ Expire \/ SignIn
  BY <1>1, IntactOpens
<1>2. CASE (\E r \in Region : Toggle(r)) \/ AllOrNone \/ Presets
           \/ (\E S \in SUBSET Catalog : ToggleTypes(S))
           \/ (\E on \in BOOLEAN, v \in Text \cup {text} : ChooseFilter(on, v))
  BY <1>2, IntactGone DEF Toggle, AllOrNone, Presets, ToggleTypes, ChooseFilter, Chooses
<1>3. CASE ScanAgain
  <2>1. PICK p \in Past : stored' = p /\ intact' = p  BY <1>3 DEF ScanAgain
  <2>2. ~Mounted'  BY <1>3 DEF ScanAgain, Mounted, Inside
  <2>3. QED  BY <2>1, <2>2 DEF IntactOK
<1>4. CASE ScanCleanedAgain \/ SignOut
  BY <1>4, IntactGone DEF ScanCleanedAgain, SignOut
<1>5. CASE RegionsArrive \/ Start \/ ServeScan
  BY <1>5, IntactKept DEF RegionsArrive, Start, ServeScan
<1>6. CASE CatalogArrives  BY <1>6, IntactCatalog
<1>7. CASE Answered  BY <1>7, IntactAnswered
<1>8. CASE UNCHANGED vars  BY <1>8, IntactKept DEF vars
<1>9. QED  BY <1>1, <1>2, <1>3, <1>4, <1>5, <1>6, <1>7, <1>8 DEF Next

\* What the services page starts while nobody changed the choices is the scan
\* that "scan again" preset (ScanAgainIsTheSame, history-detail.tsx:57-62,
\* services.tsx:130-153, wizard.tsx:19-32).
THEOREM SameScanAgain == Spec => ScanAgainIsTheSame
<1>1. Init => IntactOK  BY DEF Init, IntactOK
<1>2. IntactOK /\ [Next]_vars => [Start /\ intact # Empty => request'.spec = intact]_vars
  <2>1. ASSUME IntactOK, Start, intact # Empty PROVE request'.spec = intact
    <3>1. wiz = intact  BY <2>1 DEF Start, IntactOK
    <3>2. request' = [at |-> "sent", from |-> "services", spec |-> wiz]
      BY <2>1 DEF Start, Sends
    <3>3. QED  BY <3>1, <3>2
  <2>2. QED  BY <2>1
<1>3. QED  BY <1>1, <1>2, IntactStep, PTL DEF Spec, ScanAgainIsTheSame
=============================================================================
