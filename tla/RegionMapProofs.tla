--------------------------- MODULE RegionMapProofs --------------------------
(***************************************************************************)
(* Theorems about RegionMap: tabs that have heard of every change agree on  *)
(* the theme, and a click on a marker flips that region alone, for any set  *)
(* of tabs, regions and styles and any number of changes.                   *)
(***************************************************************************)
EXTENDS RegionMap, TLAPS

ThemeOK ==
  /\ private \in BOOLEAN /\ os \in BOOLEAN /\ choice \in Theme
  /\ dark \in [Tab -> BOOLEAN] /\ due \in [Tab -> BOOLEAN]

ThemeInv == ThemeOK /\ TabsAgree

-----------------------------------------------------------------------------
(* The theme *)

\* What is shown by a tab is the choice or the system's preference, never
\* anything else.
LEMMA ResolveBoolean ==
  ASSUME os \in BOOLEAN, NEW c PROVE Resolve(c) \in BOOLEAN
BY DEF Resolve

LEMMA ThemeInit == Init => ThemeInv
<1> SUFFICES ASSUME Init PROVE ThemeInv  OBVIOUS
<1>1. choice \in Theme  BY DEF Init, Theme
<1>2. Resolve(choice) \in BOOLEAN  BY ResolveBoolean DEF Init
<1>3. dark \in [Tab -> BOOLEAN] /\ \A t \in Tab : dark[t] = Resolve(choice)
  BY <1>2 DEF Init
<1>4. QED  BY <1>1, <1>3 DEF Init, ThemeInv, ThemeOK, TabsAgree

\* A tab sets the theme: it shows it at once, and the others will hear of it
\* if the stored value is another one now.
LEMMA SetThemeStep ==
  ASSUME ThemeInv, NEW t \in Tab, NEW c \in Theme, SetTheme(t, c)
  PROVE  ThemeInv'
<1>1. private' = private /\ os' = os /\ choice' \in Theme
  BY DEF SetTheme, ThemeInv, ThemeOK
<1>2. Resolve(c) \in BOOLEAN  BY ResolveBoolean DEF ThemeInv, ThemeOK
<1>3. dark' \in [Tab -> BOOLEAN] /\ due' \in [Tab -> BOOLEAN]
  BY <1>2 DEF SetTheme, ThemeInv, ThemeOK
<1>4. ASSUME NEW u \in Tab, ~private, ~due'[u]
      PROVE  dark'[u] = Resolve(choice)'
  <2>1. choice' = c  BY <1>4 DEF SetTheme
  <2>2. Resolve(choice)' = Resolve(c)  BY <1>1, <2>1 DEF Resolve
  <2>3. CASE u = t
    BY <2>2, <2>3 DEF SetTheme, ThemeInv, ThemeOK
  <2>4. CASE u # t
    <3>1. ~due[u] /\ choice' = choice
      BY <1>4, <2>4 DEF SetTheme, ThemeInv, ThemeOK
    <3>2. dark'[u] = dark[u]
      BY <2>4 DEF SetTheme, ThemeInv, ThemeOK
    <3>3. dark[u] = Resolve(choice)
      BY <1>4, <3>1 DEF ThemeInv, TabsAgree
    <3>4. QED  BY <2>1, <2>2, <3>1, <3>2, <3>3
  <2>5. QED  BY <2>3, <2>4
<1>5. QED  BY <1>1, <1>3, <1>4 DEF ThemeInv, ThemeOK, TabsAgree

\* The system's preference changes: every tab will hear of it.
LEMMA SystemStep ==
  ASSUME ThemeInv, SystemChanges PROVE ThemeInv'
<1>1. due' \in [Tab -> BOOLEAN] /\ \A t \in Tab : ~private => due'[t]
  BY DEF SystemChanges, ThemeInv, ThemeOK
<1>2. QED  BY <1>1 DEF SystemChanges, ThemeInv, ThemeOK, TabsAgree

LEMMA HearStep ==
  ASSUME ThemeInv, NEW t \in Tab, Hear(t) PROVE ThemeInv'
<1>1. Resolve(choice) \in BOOLEAN  BY ResolveBoolean DEF ThemeInv, ThemeOK
<1>2. dark' = [dark EXCEPT ![t] = Resolve(choice)] /\ due' = [due EXCEPT ![t] = FALSE]
  BY DEF Hear
<1>3. Resolve(choice)' = Resolve(choice)  BY DEF Hear, Resolve
<1>4. \A u \in Tab : ~private /\ ~due'[u] => dark'[u] = Resolve(choice)
  BY <1>2 DEF ThemeInv, ThemeOK, TabsAgree
<1>5. QED  BY <1>1, <1>2, <1>3, <1>4 DEF Hear, ThemeInv, ThemeOK, TabsAgree

LEMMA ThemeStep == ThemeInv /\ [Next]_vars => ThemeInv'
<1> SUFFICES ASSUME ThemeInv, [Next]_vars PROVE ThemeInv'  OBVIOUS
<1>1. ASSUME UNCHANGED theme PROVE ThemeInv'
  BY <1>1 DEF theme, ThemeInv, ThemeOK, TabsAgree, Resolve
<1>2. ASSUME NEW t \in Tab, NEW c \in Theme, SetTheme(t, c) PROVE ThemeInv'
  BY <1>2, SetThemeStep
<1>3. CASE SystemChanges  BY <1>3, SystemStep
<1>4. ASSUME NEW t \in Tab, Hear(t) PROVE ThemeInv'  BY <1>4, HearStep
<1>5. CASE Observe \/ Render \/ StyleLoads \/ MapLoads
  BY <1>1, <1>5 DEF Observe, Render, StyleLoads, MapLoads
<1>6. CASE Open \/ Leave \/ QueryAnswers
  BY <1>1, <1>6 DEF Open, Leave, QueryAnswers
<1>7. ASSUME NEW S, Selects(S) PROVE ThemeInv'  BY <1>1, <1>7 DEF Selects
<1>8. CASE AllOrNone  BY <1>7, <1>8 DEF AllOrNone
<1>9. ASSUME NEW r \in Region, Click(r) PROVE ThemeInv'  BY <1>7, <1>9 DEF Click
<1>10. CASE UNCHANGED vars  BY <1>1, <1>10 DEF vars
<1>11. QED  BY <1>2, <1>3, <1>4, <1>5, <1>6, <1>8, <1>9, <1>10 DEF Next

\* Tabs that have heard of every change show the stored theme (TabsAgree), also
\* when several tabs change it at the same time (use-dark.ts:17-45, root.tsx:18).
THEOREM ThemesAgree == Spec => []TabsAgree
<1>1. ThemeInv => TabsAgree  BY DEF ThemeInv
<1>2. QED  BY <1>1, ThemeInit, ThemeStep, PTL DEF Spec

-----------------------------------------------------------------------------
(* The markers *)

\* What was set and what is rendered may differ, but never in the selection,
\* and the callbacks of markers that are there are those of the last render.
MarkerInv ==
  /\ want \in UI /\ seen \in UI
  /\ want.sel = seen.sel
  /\ seen.inst => handler.enabled = seen.enabled /\ handler.sel = seen.sel
  /\ page # "map" => ~want.inst

\* UI is a set of records: a value of it is known by its fields.
LEMMA WithSelection ==
  ASSUME NEW u \in UI, NEW S \in SUBSET Region
  PROVE  /\ [u EXCEPT !.sel = S] \in UI
         /\ [u EXCEPT !.sel = S].sel = S
         /\ [u EXCEPT !.sel = S].inst = u.inst
         /\ [u EXCEPT !.sel = S].enabled = u.enabled
BY DEF UI

LEMMA MarkerInit == Init => MarkerInv
<1> SUFFICES ASSUME Init PROVE MarkerInv  OBVIOUS
<1>1. dark[Here] \in BOOLEAN
  BY ThemeInit, MapAssumption DEF ThemeInv, ThemeOK
<1>2. PICK S \in SUBSET Region :
        want = [dark |-> dark[Here], inst |-> FALSE, loaded |-> FALSE, styled |-> FALSE,
                pending |-> NoStyle, enabled |-> {}, sel |-> S]
  BY DEF Init
<1>3. want \in UI  BY <1>1, <1>2 DEF UI
<1>4. QED  BY <1>2, <1>3 DEF Init, MarkerInv

LEMMA SelectsStep ==
  ASSUME MarkerInv, NEW S \in SUBSET Region, Selects(S)
  PROVE  MarkerInv'
<1>1. want' = [want EXCEPT !.sel = S] /\ seen' = [seen EXCEPT !.sel = S]
      /\ handler' = [enabled |-> seen'.enabled, sel |-> seen'.sel] /\ page' = page
  BY DEF Selects, Renders
<1>2. QED  BY <1>1, WithSelection DEF MarkerInv

LEMMA RenderStep ==
  ASSUME MarkerInv, Render PROVE MarkerInv'
<1>1. seen' = want /\ handler' = [enabled |-> want.enabled, sel |-> want.sel] /\ page' = page
  BY DEF Render, Renders
<1>2. PICK st, pe : want' = [want EXCEPT !.styled = st, !.pending = pe]
                    /\ st = (want.styled /\ ~StyleChanges)
                    /\ pe = CASE StyleSwaps   -> NoStyle
                              [] ~StyleSwaps /\ StyleChanges -> StyleOf[want.dark]
                              [] OTHER        -> want.pending
  BY DEF Render
<1>3. st \in BOOLEAN  BY <1>2 DEF MarkerInv, UI
<1>4. pe \in {StyleOf[b] : b \in BOOLEAN} \cup {NoStyle}
  BY <1>2 DEF MarkerInv, UI
<1>5. want' \in UI /\ want'.sel = want.sel /\ want'.inst = want.inst
  BY <1>2, <1>3, <1>4 DEF MarkerInv, UI
<1>6. QED  BY <1>1, <1>5 DEF MarkerInv, Render

\* The map is made, or removed.
LEMMA MountsStep ==
  ASSUME MarkerInv, NEW u \in UI, Mounts(u), u.sel = want.sel, ~u.inst
  PROVE  MarkerInv'
<1>1. seen' = u /\ want' = [u EXCEPT !.inst = TRUE] /\ page' = "map"  BY DEF Mounts
<1>2. want' \in UI /\ want'.sel = u.sel  BY <1>1 DEF UI
<1>3. QED  BY <1>1, <1>2 DEF MarkerInv

LEMMA RemovedStep ==
  ASSUME MarkerInv, NEW p, Removed(p) PROVE MarkerInv'
<1>1. seen' = want'
      /\ want' = [want EXCEPT !.inst = FALSE, !.loaded = FALSE, !.styled = FALSE, !.pending = NoStyle]
  BY DEF Removed
<1>2. want' \in UI /\ ~want'.inst  BY <1>1 DEF MarkerInv, UI
<1>3. QED  BY <1>1, <1>2 DEF MarkerInv

LEMMA OpenStep ==
  ASSUME MarkerInv, ThemeOK, Open PROVE MarkerInv'
<1>1. PICK E \in {{}, Region} : Mounts([want EXCEPT !.dark = dark[Here], !.enabled = E])
  BY DEF Open
<1> DEFINE u == [want EXCEPT !.dark = dark[Here], !.enabled = E]
<1>2. dark[Here] \in BOOLEAN  BY MapAssumption DEF ThemeOK
<1>3. ~want.inst  BY DEF Open, MarkerInv
<1>4. E \in SUBSET Region  OBVIOUS
<1>5. u \in UI /\ u.sel = want.sel /\ u.inst = want.inst
  BY <1>2, <1>4 DEF MarkerInv, UI
<1>6. QED  BY <1>1, <1>3, <1>5, MountsStep

LEMMA QueryStep ==
  ASSUME MarkerInv, QueryAnswers PROVE MarkerInv'
<1>1. CASE page = "map" /\ Removed("error")  BY <1>1, RemovedStep
<1>2. ASSUME NEW E \in SUBSET Region,
             page = "map" /\ want' = [want EXCEPT !.enabled = E] /\ UNCHANGED <<page, seen, handler, lib>>
      PROVE  MarkerInv'
  <2>1. want' \in UI /\ want'.sel = want.sel  BY <1>2 DEF MarkerInv, UI
  <2>2. QED  BY <1>2, <2>1 DEF MarkerInv
<1>3. ASSUME NEW E \in SUBSET Region, page # "map", Mounts([want EXCEPT !.enabled = E])
      PROVE  MarkerInv'
  <2> DEFINE u == [want EXCEPT !.enabled = E]
  <2>1. u \in UI /\ u.sel = want.sel /\ u.inst = want.inst  BY DEF MarkerInv, UI
  <2>2. ~want.inst  BY <1>3 DEF MarkerInv
  <2>3. QED  BY <1>3, <2>1, <2>2, MountsStep
<1>4. QED  BY <1>1, <1>2, <1>3 DEF QueryAnswers

\* A click selects regions that the query named.
LEMMA ClickSelects ==
  ASSUME MarkerInv, NEW r \in Region, Click(r)
  PROVE  /\ seen.inst
         /\ \E S \in SUBSET Region :
              /\ Selects(S)
              /\ (r \in S) <=> (r \notin want.sel)
              /\ \A s \in seen.enabled \ {r} : (s \in S) <=> (s \in want.sel)
<1>1. page = "map" /\ seen.inst /\ r \in handler.enabled
  BY DEF Click
<1> DEFINE next == IF r \in handler.sel THEN handler.sel \ {r} ELSE handler.sel \cup {r}
           S    == handler.enabled \cap next
<1>2. Selects(S)  BY DEF Click
<1>3. handler.enabled = seen.enabled /\ handler.sel = want.sel /\ seen.enabled \in SUBSET Region
  BY <1>1 DEF MarkerInv, UI
<1>4. S \in SUBSET Region  BY <1>3
<1>5. (r \in S) <=> (r \notin want.sel)  BY <1>1, <1>3
<1>6. \A s \in seen.enabled \ {r} : (s \in S) <=> (s \in want.sel)  BY <1>3
<1>7. QED  BY <1>1, <1>2, <1>4, <1>5, <1>6

LEMMA MarkerStep == MarkerInv /\ ThemeOK /\ [Next]_vars => MarkerInv'
<1> SUFFICES ASSUME MarkerInv, ThemeOK, [Next]_vars PROVE MarkerInv'  OBVIOUS
<1>1. ASSUME UNCHANGED <<page, want, seen, handler>> PROVE MarkerInv'
  BY <1>1 DEF MarkerInv
<1>2. ASSUME NEW t \in Tab, NEW c \in Theme, SetTheme(t, c) PROVE MarkerInv'
  BY <1>1, <1>2 DEF SetTheme
<1>3. CASE SystemChanges  BY <1>1, <1>3 DEF SystemChanges
<1>4. ASSUME NEW t \in Tab, Hear(t) PROVE MarkerInv'  BY <1>1, <1>4 DEF Hear
<1>5. CASE Observe
  <2>1. dark[Here] \in BOOLEAN  BY MapAssumption DEF ThemeOK
  <2>2. want' = [want EXCEPT !.dark = dark[Here]] /\ UNCHANGED <<page, seen, handler>>
    BY <1>5 DEF Observe
  <2>3. want' \in UI /\ want'.sel = want.sel /\ want'.inst = want.inst
    BY <2>1, <2>2 DEF MarkerInv, UI
  <2>4. QED  BY <2>2, <2>3 DEF MarkerInv
<1>6. CASE Render  BY <1>6, RenderStep
<1>7. CASE StyleLoads \/ MapLoads
  <2>1. UNCHANGED <<page, seen, handler>>  BY <1>7 DEF StyleLoads, MapLoads
  <2>2. want' \in UI /\ want'.sel = want.sel /\ want'.inst = want.inst
    BY <1>7 DEF StyleLoads, MapLoads, MarkerInv, UI
  <2>3. QED  BY <2>1, <2>2 DEF MarkerInv
<1>8. CASE Open  BY <1>8, OpenStep
<1>9. CASE Leave  BY <1>9, RemovedStep DEF Leave
<1>10. CASE QueryAnswers  BY <1>10, QueryStep
<1>11. CASE AllOrNone
  BY <1>11, SelectsStep DEF AllOrNone, MarkerInv, UI
<1>12. ASSUME NEW r \in Region, Click(r) PROVE MarkerInv'
  BY <1>12, ClickSelects, SelectsStep
<1>13. CASE UNCHANGED vars  BY <1>1, <1>13 DEF vars
<1>14. QED
  BY <1>2, <1>3, <1>4, <1>5, <1>6, <1>7, <1>8, <1>9, <1>10, <1>11, <1>12, <1>13 DEF Next

\* A click on a marker shown as enabled flips that region and no other one that
\* can be scanned, whenever the marker was made (map.tsx:476-510).
THEOREM ClickFlipsOne == Spec => ClickTogglesOne
<1>1. ASSUME MarkerInv, NEW r \in Region, Click(r)
      PROVE  /\ (r \in want'.sel) <=> (r \notin want.sel)
             /\ \A s \in seen.enabled \ {r} : (s \in want'.sel) <=> (s \in want.sel)
  <2>1. PICK S \in SUBSET Region :
              /\ Selects(S)
              /\ (r \in S) <=> (r \notin want.sel)
              /\ \A s \in seen.enabled \ {r} : (s \in S) <=> (s \in want.sel)
    BY <1>1, ClickSelects
  <2>2. want'.sel = S  BY <1>1, <2>1, WithSelection DEF Selects, MarkerInv
  <2>3. QED  BY <2>1, <2>2
<1>2. MarkerInv => [\A r \in Region :
         Click(r) => /\ (r \in want'.sel) <=> (r \notin want.sel)
                     /\ \A s \in seen.enabled \ {r} : (s \in want'.sel) <=> (s \in want.sel)]_vars
  BY <1>1
<1>3. ThemeInv => ThemeOK  BY DEF ThemeInv
<1>4. QED
  BY <1>2, <1>3, ThemeInit, ThemeStep, MarkerInit, MarkerStep, PTL DEF Spec, ClickTogglesOne
=============================================================================
