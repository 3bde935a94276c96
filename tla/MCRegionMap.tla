----------------------------- MODULE MCRegionMap ----------------------------
EXTENDS RegionMap

CONSTANT blank

\* The page asks for the blank base map, which has one style for both themes.
MCStyleOf == [b \in BOOLEAN |-> blank]
=============================================================================
