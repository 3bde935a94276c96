----------------------------- MODULE MCNukeRun -----------------------------
(***************************************************************************)
(* Instances of NukeRun for TLC. The specification leaves the account and    *)
(* the confirmed selection open; MCSpec starts from a few selections that    *)
(* between them have what matters: the same identifier in several places,    *)
(* only some of them confirmed; more identifiers of a type than fit into a   *)
(* batch, followed by another type; and a confirmed one that does not exist. *)
(***************************************************************************)
EXTENDS NukeRun, TLC

CONSTANTS ra, rb, i1, i2, i3

\* Confirmed in one region and globally; the same identifier elsewhere is not.
SameIdEverywhere == {KeyOf(1, ra, i1), KeyOf(1, GlobalRegion, i1)}

\* Two batches of the first type, then one of the second.
TwoTypes == {KeyOf(1, ra, i1), KeyOf(1, ra, i2), KeyOf(1, ra, i3), KeyOf(2, ra, i1)}

\* One identifier per region, and one that is gone already.
BothRegions == {KeyOf(1, ra, i1), KeyOf(1, rb, i1), KeyOf(2, rb, i2)}

MCInit ==
  /\ confirmed \in {SameIdEverywhere, TwoTypes, BothRegions}
  /\ account = IF confirmed = TwoTypes THEN TwoTypes ELSE {KeyOf(1, r, i1) : r \in Place}
  /\ Init

MCSpec == MCInit /\ [][Next]_vars /\ Fairness
=============================================================================
