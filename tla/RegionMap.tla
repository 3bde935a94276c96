------------------------------ MODULE RegionMap -----------------------------
(***************************************************************************)
(* The map of the wizard's regions page and the theme it is painted in: the *)
(* stored choice and the `dark` class of every tab (lib/use-dark.ts and the *)
(* script of root.tsx), the life of a MapLibre map under React              *)
(* (components/ui/map.tsx: Map, MapGeoJSON, MapMarker) and the page that     *)
(* shows it (routes/wizard/regions.tsx).                                    *)
(*                                                                         *)
(* React state is set at one time and rendered at another: `want` is what   *)
(* was set, `seen` what was rendered last, and the effects of a render run  *)
(* children first and see that render's values. What the user does is       *)
(* rendered at once; all else may be overtaken by events of the map.        *)
(***************************************************************************)
EXTENDS Naturals

CONSTANTS
  Tab, Here,      \* the browser's tabs, and the one that shows the page
  StyleOf,        \* the base style of the light (FALSE) and the dark map
  NoStyle,
  Region,         \* the regions that have a marker
  MaxChanges      \* bound on changes of theme

ASSUME MapAssumption ==
  /\ Here \in Tab /\ MaxChanges \in Nat
  /\ NoStyle \notin {StyleOf[b] : b \in BOOLEAN}

VARIABLES
  private,   \* whether localStorage refuses to work
  choice,    \* the stored theme
  os,        \* whether the system prefers dark
  dark,      \* the `dark` class, in each tab
  due,       \* whether a storage or a media event waits for the tab
  changes,
  page,      \* "out", "error" (the query failed: no map), or "map"
  want, seen,
  handler,   \* callbacksRef of the markers: what their onClick closes over
  current,   \* currentStyleRef
  style,     \* MapLibre's: the style, and whether it is loaded
  full,      \*   whether "load" was emitted
  layers     \*   "none", or the theme the world is painted in

theme == <<private, choice, os, dark, due, changes>>
lib   == <<current, style, full, layers>>
vars  == <<theme, page, want, seen, handler, lib>>

Theme == {"light", "dark", "system"}
Name(b) == IF b THEN "dark" ELSE "light"

\* The states of the page and of the map that effects depend on: dark
\* (useIsDark), inst (mapInstance), loaded, styled (isLoaded, isStyleLoaded),
\* pending (pendingStyle), enabled (the query), sel (the wizard's regions).
UI == [dark : BOOLEAN, inst : BOOLEAN, loaded : BOOLEAN, styled : BOOLEAN,
       pending : {StyleOf[b] : b \in BOOLEAN} \cup {NoStyle},
       enabled : SUBSET Region, sel : SUBSET Region]

(* --------------------------------- the theme ------------------------------- *)

Resolve(c) == c = "dark" \/ (c = "system" /\ os)

\* setTheme, from the menu or the settings. The browser tells the other tabs of
\* a stored value that changed.
SetTheme(t, c) ==
  /\ changes < MaxChanges /\ changes' = changes + 1
  /\ dark' = [dark EXCEPT ![t] = Resolve(c)]
  /\ choice' = IF private THEN choice ELSE c
  /\ due' = [u \in Tab |-> due[u] \/ (u # t /\ choice' # choice)]
  /\ UNCHANGED <<private, os, page, want, seen, handler, lib>>

\* The system's preference changes. Without storage the script gave up before it
\* listened.
SystemChanges ==
  /\ changes < MaxChanges /\ changes' = changes + 1
  /\ os' = ~os
  /\ due' = [u \in Tab |-> due[u] \/ ~private]
  /\ UNCHANGED <<private, choice, dark, page, want, seen, handler, lib>>

\* Bug: only a choice of "system" is looked at again.
HearSystemOnly(t) ==
  /\ due[t] /\ due' = [due EXCEPT ![t] = FALSE]
  /\ dark' = [dark EXCEPT ![t] = IF choice = "system" THEN os ELSE @]
  /\ UNCHANGED <<private, choice, os, changes, page, want, seen, handler, lib>>

\* The script's listener.
Hear(t) ==
  /\ due[t] /\ due' = [due EXCEPT ![t] = FALSE]
  /\ dark' = [dark EXCEPT ![t] = Resolve(choice)]
  /\ UNCHANGED <<private, choice, os, changes, page, want, seen, handler, lib>>

\* useIsDark's observer.
Observe ==
  /\ page # "out" /\ want.dark # dark[Here]
  /\ want' = [want EXCEPT !.dark = dark[Here]]
  /\ UNCHANGED <<theme, page, seen, handler, lib>>

(* ---------------------------------- the map -------------------------------- *)

Gate(u) == u.inst /\ u.loaded /\ u.styled

\* Bug: the world is painted when it is added, and never again.
WorldPaintedOnce ==
  CASE ~Gate(want)                 -> "none"
    [] Gate(want) /\ ~Gate(seen)   -> Name(want.dark)
    [] OTHER                       -> layers

\* MapGeoJSON's effects: source and layers come with the gate, painted as this
\* render says, and go with it; a new paint is put on layers that are there.
\* Without its source the effect does nothing.
World ==
  CASE ~Gate(want)                                 -> "none"
    [] Gate(want) /\ ~Gate(seen)                   -> Name(want.dark)
    [] Gate(want) /\ Gate(seen) /\ layers # "none" -> Name(want.dark)
    [] OTHER                                       -> layers

\* Map's two effects: the first closes the gate for a new style, the second, a
\* render later, swaps it in and with it removes what the old one had.
StyleChanges == /\ want.inst /\ (~seen.inst \/ want.dark # seen.dark)
                /\ StyleOf[want.dark] # current
StyleSwaps   == /\ want.inst /\ want.pending # NoStyle
                /\ ~seen.inst \/ want.pending # seen.pending

\* Bug: the callbacks stay those of the first render.
RendersOnce(w) ==
  /\ seen' = w
  /\ handler' = IF w.inst /\ ~seen.inst THEN [enabled |-> w.enabled, sel |-> w.sel] ELSE handler

\* A render, and its effects: the children's, then the map's in their order.
\* Rendering the markers renews their callbacks.
Renders(w) ==
  /\ seen' = w
  /\ handler' = [enabled |-> w.enabled, sel |-> w.sel]

Render ==
  /\ page = "map" /\ want # seen
  /\ Renders(want)
  /\ want' = [want EXCEPT !.styled  = @ /\ ~StyleChanges,
                          !.pending = CASE StyleSwaps   -> NoStyle
                                        [] ~StyleSwaps /\ StyleChanges -> StyleOf[want.dark]
                                        [] OTHER        -> @]
  /\ current' = IF StyleChanges THEN StyleOf[want.dark] ELSE current
  /\ IF StyleSwaps
       THEN style' = [name |-> want.pending, loaded |-> FALSE] /\ layers' = "none"
       ELSE UNCHANGED style /\ layers' = World
  /\ UNCHANGED <<theme, page, full>>

\* The events "style.load" and "load".
StyleLoads ==
  /\ page = "map" /\ ~style.loaded
  /\ style' = [style EXCEPT !.loaded = TRUE]
  /\ want' = [want EXCEPT !.styled = TRUE]
  /\ UNCHANGED <<theme, page, seen, handler, current, full, layers>>

MapLoads ==
  /\ page = "map" /\ style.loaded /\ ~full
  /\ full' = TRUE
  /\ want' = [want EXCEPT !.loaded = TRUE]
  /\ UNCHANGED <<theme, page, seen, handler, current, style, layers>>

(* ---------------------------------- the page ------------------------------- *)

\* Map's first effect makes the map, in the style of the render; the children
\* come with the next render, when mapInstance is set.
Mounts(u) ==
  /\ page' = "map"
  /\ seen' = u /\ want' = [u EXCEPT !.inst = TRUE]
  /\ handler' = [enabled |-> {}, sel |-> {}]
  /\ current' = StyleOf[u.dark]
  /\ style' = [name |-> StyleOf[u.dark], loaded |-> FALSE]
  /\ full' = FALSE /\ layers' = "none"

\* The cleanups: the map is removed before its children clean up, whose calls on
\* it fail and are caught; the map's state is dropped.
Removed(p) ==
  /\ page' = p
  /\ want' = [want EXCEPT !.inst = FALSE, !.loaded = FALSE, !.styled = FALSE, !.pending = NoStyle]
  /\ seen' = want'
  /\ handler' = [enabled |-> {}, sel |-> {}]
  /\ current' = NoStyle /\ style' = [name |-> NoStyle, loaded |-> FALSE]
  /\ full' = FALSE /\ layers' = "none"

\* The page opens with the regions of the wizard, and of the query if cached.
Open ==
  /\ page = "out"
  /\ \E E \in {{}, Region} :
       Mounts([want EXCEPT !.dark = dark[Here], !.enabled = E])
  /\ UNCHANGED theme

Leave == page # "out" /\ Removed("out") /\ UNCHANGED theme

QueryAnswers ==
  /\ page # "out" /\ want.enabled = {}
  /\ \/ /\ \E E \in (SUBSET Region) \ {{}} :
             IF page = "map" THEN want' = [want EXCEPT !.enabled = E] /\ UNCHANGED <<page, seen, handler, lib>>
             ELSE Mounts([want EXCEPT !.enabled = E])
     \/ page = "map" /\ Removed("error")
  /\ UNCHANGED theme

\* What is selected is rendered before anything else happens.
Selects(S) ==
  /\ page # "out"
  /\ want' = [want EXCEPT !.sel = S] /\ Renders([seen EXCEPT !.sel = S])
  /\ UNCHANGED <<theme, page, lib>>

\* A click on a marker runs its callback: toggle, of the render it comes from.
Click(r) ==
  /\ page = "map" /\ seen.inst /\ r \in handler.enabled
  /\ LET next == IF r \in handler.sel THEN handler.sel \ {r} ELSE handler.sel \cup {r}
     IN Selects(handler.enabled \cap next)

\* The two buttons.
AllOrNone == Selects(seen.enabled) \/ Selects({})

-----------------------------------------------------------------------------
Init ==
  /\ private \in BOOLEAN /\ os \in BOOLEAN
  /\ choice \in IF private THEN {"light"} ELSE Theme
  /\ dark = [t \in Tab |-> Resolve(choice)]
  /\ due = [t \in Tab |-> FALSE] /\ changes = 0
  /\ page = "out"
  /\ \E S \in SUBSET Region :
       want = [dark |-> dark[Here], inst |-> FALSE, loaded |-> FALSE, styled |-> FALSE,
               pending |-> NoStyle, enabled |-> {}, sel |-> S]
  /\ seen = want /\ handler = [enabled |-> {}, sel |-> {}]
  /\ current = NoStyle /\ style = [name |-> NoStyle, loaded |-> FALSE]
  /\ full = FALSE /\ layers = "none"

Next ==
  \/ \E t \in Tab, c \in Theme : SetTheme(t, c)
  \/ SystemChanges \/ Observe \/ Render \/ StyleLoads \/ MapLoads
  \/ \E t \in Tab : Hear(t)
  \/ Open \/ Leave \/ QueryAnswers \/ AllOrNone
  \/ \E r \in Region : Click(r)

\* React renders what was set, observers and listeners run, and MapLibre loads
\* what it was given. What the user does and how the query ends gets no fairness.
Fairness ==
  /\ WF_vars(Render) /\ WF_vars(Observe) /\ WF_vars(StyleLoads) /\ WF_vars(MapLoads)
  /\ \A t \in Tab : WF_vars(Hear(t))

Spec == Init /\ [][Next]_vars /\ Fairness

-----------------------------------------------------------------------------
TypeOK ==
  /\ private \in BOOLEAN /\ os \in BOOLEAN /\ choice \in Theme
  /\ dark \in [Tab -> BOOLEAN] /\ due \in [Tab -> BOOLEAN]
  /\ changes \in 0 .. MaxChanges
  /\ page \in {"out", "error", "map"}
  /\ want \in UI /\ seen \in UI
  /\ handler \in [enabled : SUBSET Region, sel : SUBSET Region]
  /\ current \in {StyleOf[b] : b \in BOOLEAN} \cup {NoStyle}
  /\ full \in BOOLEAN /\ layers \in {"none", "light", "dark"}

\* Tabs that have heard of every change show the stored theme, also when several
\* tabs change it at the same time (use-dark.ts:17-45, root.tsx:18).
TabsAgree == \A t \in Tab : ~private /\ ~due[t] => dark[t] = Resolve(choice)

\* A map that stays is painted, and repainted: the world comes to be shown in the
\* tab's theme, whatever the theme did while the map was loading
\* (map.tsx:291-424 and 1840-1925).
MapGetsPainted ==
  (page = "map") ~> (page # "map" \/ layers = Name(dark[Here]))

\* A click on a marker shown as enabled flips that region and no other one that
\* can be scanned, whenever the marker was made (map.tsx:476-510,
\* regions.tsx:51-57).
ClickTogglesOne ==
  [][\A r \in Region :
       Click(r) => /\ (r \in want'.sel) <=> (r \notin want.sel)
                   /\ \A s \in seen.enabled \ {r} : (s \in want'.sel) <=> (s \in want.sel)]_vars
=============================================================================
