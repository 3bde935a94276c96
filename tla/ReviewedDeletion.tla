-------------------------- MODULE ReviewedDeletion --------------------------
(***************************************************************************)
(* What the product promises of deletion (README.md and docs/security.md:   *)
(* scan, review, confirm, delete): a resource is deleted only after a       *)
(* finished scan found it deletable and the user, seeing it marked for      *)
(* deletion, confirmed it.                                                  *)
(***************************************************************************)
CONSTANT Resource

VARIABLES deletable, confirmed, deleted

Init == deletable = {} /\ confirmed = {} /\ deleted = {}

Scan == /\ \E S \in SUBSET Resource : deletable' = deletable \cup S
        /\ UNCHANGED <<confirmed, deleted>>

Confirm == /\ \E S \in SUBSET deletable : confirmed' = confirmed \cup S
           /\ UNCHANGED <<deletable, deleted>>

Delete == /\ \E S \in SUBSET confirmed : deleted' = deleted \cup S
          /\ UNCHANGED <<deletable, confirmed>>

Spec == Init /\ [][Scan \/ Confirm \/ Delete]_<<deletable, confirmed, deleted>>
=============================================================================
