------------------------------ MODULE MCComptes ------------------------------
(* Instances of Comptes for TLC. *)
EXTENDS Comptes, TLC

CONSTANTS s1, s2, racine, a, b

\* Administrators of the platform against each other.
DroitsAdmins ==
    (s1 :> {"promouvoir", "revoquer", "supprimer", "modifier"})
    @@ (s2 :> {"revoquer", "desactiver", "activer", "supprimer"})

\* The platform deletes while the team works.
DroitsTeam ==
    (s1 :> {"supprimer", "supprimer_entreprise"})
    @@ (s2 :> {"creer", "modifier", "retirer", "produire"})

\* Links, changes of password, and the life of the account.
DroitsLiens ==
    (s1 :> {"demander", "appliquer", "changer_mdp"})
    @@ (s2 :> {"demander", "appliquer", "supprimer"})

\* Links while the team changes the password, or who is active.
DroitsLiensTeam ==
    (s1 :> {"demander", "appliquer"})
    @@ (s2 :> {"appliquer", "modifier"})

\* Each column, and a member that is deactivated as it loses its rights.
ModificationsTC == {{"admin"}, {"membre", "inactif"}, {"actif"}, {"inactif"}, {"mdp"}}

ProfilsTous == {DroitsAdmins, DroitsTeam, DroitsLiens, DroitsLiensTeam}
=============================================================================
