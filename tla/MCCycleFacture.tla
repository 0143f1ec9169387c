--------------------------- MODULE MCCycleFacture ---------------------------
(* Instances of CycleFacture for TLC: which session calls which endpoints. *)
EXTENDS CycleFacture, TLC

CONSTANTS s1, s2

\* Two sessions that validate, one of which also creates the drafts.
DroitsCourse == (s1 :> {"valider"}) @@ (s2 :> {"creer", "valider"})

\* Every endpoint, and a session whose validation or deletion may go stale.
DroitsCycle == (s1 :> Operations) @@ (s2 :> {"valider", "supprimer"})

\* Validation against deletion and edition.
DroitsEdition == (s1 :> {"creer", "valider"}) @@ (s2 :> {"modifier", "supprimer"})

\* One session alone, validation and credit notes.
DroitsAvoir == (s1 :> {"creer", "valider", "avoir"}) @@ (s2 :> {})

=============================================================================
