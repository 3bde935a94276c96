------------------------------- MODULE Wizard -------------------------------
(***************************************************************************)
(* The choices of a scan: the wizard's state and its copy in               *)
(* sessionStorage (lib/wizard.tsx), the two pages that edit it             *)
(* (routes/wizard/regions.tsx, services.tsx), "scan again" of a history     *)
(* record and of a clean-up, and the handler that takes the request         *)
(* (handleCreateScan).                                                      *)
(*                                                                         *)
(* The provider lives under the wizard layout only: it is mounted with what *)
(* storage holds, and saves every change. Storage outlives expired         *)
(* sessions, reloads and visits to the other pages. Effects of a page run   *)
(* with the render that calls for them, before the user can do anything     *)
(* else.                                                                   *)
(***************************************************************************)
EXTENDS Naturals, FiniteSets

CONSTANTS
  Region,         \* region codes, all of a form the server takes
  Enabled,        \* what an account may have enabled: a set of sets of them
  Regional,       \* the types of the catalog that live in a region
  GlobalType,     \*   and the others
  DefaultType,    \* those of the services selected by default
  Past,           \* the scans the history holds: [regions, types, hours]
  Text,           \* what the filter's input may hold, in tenths of an hour
  MaxRegions, MaxTypes,  \* how many the server takes at once: 40 and 200
  Off             \* no filter

Catalog == Regional \cup GlobalType

ASSUME CatalogAssumption ==
  /\ Enabled \subseteq SUBSET Region
  /\ DefaultType \subseteq Catalog /\ DefaultType # {}
  /\ Text \subseteq Nat /\ Off \notin Nat

ASSUME LimitAssumption ==
  /\ IsFiniteSet(Region) /\ IsFiniteSet(Catalog)
  /\ MaxRegions \in Nat \ {0} /\ MaxTypes \in Nat \ {0}

\* The server lists a scan with its regions, of which it needs one.
ASSUME PastAssumption ==
  \A p \in Past : /\ p = [regions |-> p.regions, types |-> p.types, hours |-> p.hours]
                  /\ p.regions \subseteq Region /\ p.regions # {} /\ p.types # {}
                  /\ p.hours \in (1 .. 24 * 365) \cup {Off}

VARIABLES
  status,    \* SessionProvider: "authed" or "anonymous"
  page,      \* "regions", "services", "job" (scan, review, clean), or "outside"
  wiz,       \* the wizard's state, while the provider is mounted
  stored,    \* its copy in sessionStorage
  enabled,   \* the ["regions"] query's answer; {} while there is none
  catalog,   \* the ["catalog"] query's answer; {} while there is none
  filterOn, text,   \* services.tsx's checkbox and input
  job,       \* the spec of the job that the job page shows
  request,   \* the createScan request under way
  intact     \* history: what "scan again" preset, while nothing changed it

vars == <<status, page, wiz, stored, enabled, catalog, filterOn, text, job, request, intact>>

Empty     == [regions |-> {}, types |-> {}, hours |-> Off]
NoRequest == [at |-> "none", from |-> "outside", spec |-> Empty]
Inside    == {"regions", "services", "job"}
Mounted   == status = "authed" /\ page \in Inside

(* ------------------------------- the provider ------------------------------ *)

\* setRegions, setResourceTypes, setOlderThanHours, and the effect that saves.
Sets(w) == wiz' = w /\ stored' = w

\* Bug: the provider starts empty, and storage with it.
LoadedEmpty == Empty

\* load, in the provider's first render.
Loaded == stored

(* ----------------------------- the services page --------------------------- *)

Round(v) == (v + 5) \div 10

\* The filter's effect: what is not a positive number is no filter.
Filter(on, v) == IF on /\ v > 0 THEN Round(v) ELSE Off

\* Bug: the default set is put in place whatever is selected.
DefaultsAlways(types, known) == IF known # {} THEN DefaultType ELSE types

\* The default set's effect: nothing is selected when the catalog is there.
Defaults(types, known) == IF known # {} /\ types = {} THEN DefaultType ELSE types

NoInput == filterOn' = FALSE /\ text' = 240

\* Bug: the checkbox starts unchecked, whatever the wizard holds.
ServicesOpensOff(w) ==
  /\ NoInput
  /\ Sets([w EXCEPT !.types = Defaults(@, catalog), !.hours = Off])

\* The checkbox and the input start from the wizard's hours, and the effects of
\* the first render write them back.
ServicesOpens(w) ==
  LET on == w.hours # Off
      v  == IF w.hours = Off THEN 240 ELSE 10 * w.hours
  IN /\ IF w.regions = {} THEN NoInput ELSE filterOn' = on /\ text' = v
     /\ Sets([w EXCEPT !.types = Defaults(@, catalog), !.hours = Filter(on, v)])

\* A page opens. Without a session the layout shows none of its pages and goes to
\* the form; without regions the services page, once its effects have run, goes
\* back to the first one.
Opens(p, w, st) ==
  /\ status' = st
  /\ page' = CASE p \in Inside /\ st # "authed"        -> "outside"
               [] p = "services" /\ w.regions = {}     -> "regions"
               [] OTHER                                -> p
  /\ CASE p = "services" /\ st = "authed" -> ServicesOpens(w)
       [] p \in {"regions", "job"} /\ st = "authed" -> Sets(w) /\ NoInput
       [] OTHER -> wiz' = Empty /\ UNCHANGED stored /\ NoInput

\* The state the next page starts from: the provider's, or a new provider's.
Carried == IF Mounted THEN wiz ELSE Loaded

Visit(p) ==
  /\ p # page /\ Opens(p, Carried, status)
  /\ job' = Empty
  /\ UNCHANGED <<enabled, catalog, request, intact>>

Onward ==  \* regions.tsx's button
  /\ Mounted /\ page = "regions" /\ wiz.regions # {}
  /\ Opens("services", wiz, status)
  /\ UNCHANGED <<enabled, catalog, job, request, intact>>

\* A reload mounts everything anew; the queries' cache goes.
Reload ==
  /\ enabled' = {} /\ catalog' = {} /\ request' = NoRequest
  /\ Opens(page, Loaded, status)
  /\ UNCHANGED <<job, intact>>

(* ------------------------------ the regions page --------------------------- *)

\* What the account has enabled; the map's markers and the chips can be toggled
\* only then.
RegionsArrive ==
  /\ Mounted /\ page = "regions" /\ enabled = {}
  /\ enabled' \in Enabled
  /\ UNCHANGED <<status, page, wiz, stored, catalog, filterOn, text, job, request, intact>>

Chooses(w) ==
  /\ Sets(w) /\ intact' = Empty
  /\ UNCHANGED <<status, page, enabled, catalog, job, request>>

Toggle(r) ==
  /\ Mounted /\ page = "regions" /\ r \in enabled
  /\ LET next == IF r \in wiz.regions THEN wiz.regions \ {r} ELSE wiz.regions \cup {r}
     IN Chooses([wiz EXCEPT !.regions = enabled \cap next])
  /\ UNCHANGED <<filterOn, text>>

AllOrNone ==
  /\ Mounted /\ page = "regions"
  /\ \/ enabled # {} /\ Chooses([wiz EXCEPT !.regions = enabled])
     \/ Chooses([wiz EXCEPT !.regions = {}])
  /\ UNCHANGED <<filterOn, text>>

(* --------------------------- more of the services page --------------------- *)

CatalogArrives ==
  /\ Mounted /\ page = "services" /\ catalog = {}
  /\ catalog' = Catalog
  /\ Sets([wiz EXCEPT !.types = Defaults(@, Catalog)])
  /\ UNCHANGED <<status, page, enabled, filterOn, text, job, request, intact>>

\* Bug: what the catalog does not know stays selected.
PickedKeeping(S) == S

\* setSel: of the catalog's types only. Types that the catalog does not have
\* stay selected until the first change.
Picked(S) == S \cap catalog

\* A card's box or one of its chips.
ToggleTypes(S) ==
  /\ Mounted /\ page = "services" /\ S \subseteq catalog /\ S # {}
  /\ \/ Chooses([wiz EXCEPT !.types = Picked(@ \cup S)])
     \/ Chooses([wiz EXCEPT !.types = Picked(@ \ S)])
  /\ UNCHANGED <<filterOn, text>>

\* The common set, everything, and clear.
Presets ==
  /\ Mounted /\ page = "services"
  /\ \E S \in {{}} \cup (IF catalog = {} THEN {} ELSE {DefaultType, catalog}) :
       Chooses([wiz EXCEPT !.types = S])
  /\ UNCHANGED <<filterOn, text>>

\* The input can be edited while the box is checked.
ChooseFilter(on, v) ==
  /\ Mounted /\ page = "services" /\ catalog # {}
  /\ v # text => filterOn /\ on
  /\ filterOn' = on /\ text' = v
  /\ Chooses([wiz EXCEPT !.hours = Filter(on, v)])

\* One request at a time; each of the three pages that send one has its own.
Sends(from, spec) ==
  /\ request.at = "none"
  /\ request' = [at |-> "sent", from |-> from, spec |-> spec]

Start ==
  /\ Mounted /\ page = "services" /\ wiz.types # {}
  /\ Sends("services", wiz)
  /\ UNCHANGED <<status, page, wiz, stored, enabled, catalog, filterOn, text, job, intact>>

(* -------------------------------- scan again ------------------------------- *)

\* history-detail.tsx: the wizard is preset; signed out, the form is next.
ScanAgain ==
  /\ page = "outside"
  /\ \E p \in Past :
       /\ stored' = p /\ intact' = p
       /\ IF status = "authed" THEN Sends("outside", p) ELSE UNCHANGED request
  /\ UNCHANGED <<status, page, wiz, enabled, catalog, filterOn, text, job>>

\* clean.tsx: a clean-up's spec is the scan's, narrowed; its hours go with the
\* request, the wizard keeps its own.
ScanCleanedAgain ==
  /\ Mounted /\ page = "job"
  /\ \E R \in (SUBSET job.regions) \ {{}}, T \in (SUBSET job.types) \ {{}} :
       /\ Sets([wiz EXCEPT !.regions = R, !.types = T])
       /\ Sends("job", [regions |-> R, types |-> T, hours |-> job.hours])
  /\ intact' = Empty
  /\ UNCHANGED <<status, page, enabled, catalog, filterOn, text, job>>

(* -------------------------------- the server ------------------------------- *)

\* validateScanInputs, and the bounds of the filter.
Valid(s) ==
  /\ s.types # {} /\ s.types \subseteq Catalog
  /\ s.types \cap Regional # {} => s.regions # {}
  /\ Cardinality(s.regions) <= MaxRegions /\ Cardinality(s.types) <= MaxTypes
  /\ s.hours = Off \/ s.hours \in 1 .. 24 * 365

\* With global types only, the engine still needs a region.
WithRegion(s) == IF s.regions = {} THEN [s EXCEPT !.regions = {CHOOSE r \in Region : TRUE}] ELSE s

\* "busy" is a job or rate limit, or a request that was lost.
ServeScan ==
  /\ request.at = "sent"
  /\ \E a \in {IF Valid(request.spec) THEN "started" ELSE "invalid", "busy", "gone"} :
       request' = [request EXCEPT !.at = a]
  /\ UNCHANGED <<status, page, wiz, stored, enabled, catalog, filterOn, text, job, intact>>

\* The mutation's callbacks run wherever the user is by now.
Answered ==
  /\ request.at \in {"started", "invalid", "busy", "gone"}
  /\ CASE request.at = "started" ->
            /\ Opens("job", Carried, status)
            /\ job' = IF status = "authed" THEN WithRegion(request.spec) ELSE Empty
            /\ UNCHANGED enabled
       [] request.at = "gone" ->
            /\ Opens(page, Carried, "anonymous") /\ enabled' = {}
            /\ job' = Empty
       [] OTHER -> UNCHANGED <<status, page, wiz, stored, filterOn, text, enabled, job>>
  /\ request' = NoRequest
  /\ UNCHANGED <<catalog, intact>>

(* -------------------------------- the session ------------------------------ *)

\* expire, after any 401 (WebSession): the choices stay in storage.
Expire ==
  /\ status = "authed" /\ enabled' = {}
  /\ Opens(page, Carried, "anonymous") /\ job' = Empty
  /\ UNCHANGED <<catalog, request, intact>>

\* logout drops them. Its answer may come when the session was found gone already.
SignOut ==
  /\ status' = "anonymous" /\ page' = "outside"
  /\ wiz' = Empty /\ stored' = Empty /\ NoInput
  /\ enabled' = {} /\ job' = Empty /\ intact' = Empty
  /\ UNCHANGED <<catalog, request>>

\* login goes on to the first page.
SignIn ==
  /\ status = "anonymous" /\ page = "outside" /\ enabled' = {}
  /\ Opens("regions", Loaded, "authed")
  /\ UNCHANGED <<catalog, job, request, intact>>

-----------------------------------------------------------------------------
Init ==
  /\ status = "anonymous" /\ page = "outside"
  /\ wiz = Empty /\ stored = Empty
  /\ enabled = {} /\ catalog = {}
  /\ filterOn = FALSE /\ text = 240
  /\ job = Empty /\ request = NoRequest /\ intact = Empty

Next ==
  \/ \E p \in {"regions", "services", "outside"} : Visit(p)
  \/ Onward \/ Reload \/ RegionsArrive \/ AllOrNone \/ CatalogArrives
  \/ \E r \in Region : Toggle(r)
  \/ Presets \/ \E S \in SUBSET Catalog : ToggleTypes(S)
  \/ \E on \in BOOLEAN, v \in Text \cup {text} : ChooseFilter(on, v)
  \/ Start \/ ScanAgain \/ ScanCleanedAgain \/ ServeScan \/ Answered
  \/ Expire \/ SignOut \/ SignIn

Spec == Init /\ [][Next]_vars
-----------------------------------------------------------------------------
Choice == [regions : SUBSET Region,
           types   : SUBSET (Catalog \cup UNION {p.types : p \in Past}),
           hours   : Nat \cup {Off}]

TypeOK ==
  /\ status \in {"authed", "anonymous"}
  /\ page \in Inside \cup {"outside"}
  /\ wiz \in Choice /\ stored \in Choice /\ job \in Choice /\ intact \in Choice
  /\ enabled \subseteq Region /\ catalog \in {{}, Catalog}
  /\ filterOn \in BOOLEAN /\ text \in Nat
  /\ request.at \in {"none", "sent", "started", "invalid", "busy", "gone"}
  /\ request.spec \in Choice

\* "Scan again" of a history record is that scan again: unless the user changes
\* something, what is started on the services page is what was scanned then,
\* whatever happened since: an expired session, reloads, other pages, the queries' answers
\* and the effects that fill in defaults (history-detail.tsx:57-62,
\* services.tsx:130-153, wizard.tsx:19-32).
ScanAgainIsTheSame ==
  [][Start /\ intact # Empty => request'.spec = intact]_vars

\* All the regions are enabled in one account, or those of one history record:
\* no choice mixes the regions of two accounts.
OfOneAccount(R) == \E S \in Enabled \cup {p.regions : p \in Past} : R \subseteq S

\* The server finds a fault with a scan for four reasons only: its hours; types the
\* catalog no longer has, all as some history record had them; more regions than it
\* takes, all of one account or one record; or more of the catalog's types than it
\* takes (services.tsx:155-157, regions.tsx:51-57, handlers.go:188-230). So an
\* account and a catalog within the limits never meet them.
RefusedForReason ==
  request.at = "invalid" =>
    LET s == request.spec
    IN \/ ~(s.hours = Off \/ s.hours \in 1 .. 24 * 365)
       \/ \E p \in Past : s.types = p.types /\ ~(p.types \subseteq Catalog)
       \/ OfOneAccount(s.regions) /\ Cardinality(s.regions) > MaxRegions
       \/ s.types \subseteq Catalog /\ Cardinality(s.types) > MaxTypes
=============================================================================
