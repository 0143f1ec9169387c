---------------------------- MODULE MCAbonnements ----------------------------
(* Instances of Abonnements for TLC. *)
EXTENDS Abonnements, TLC

CONSTANTS s1, s2, gratuit, pro, u1, u2

\* Months of two, one and two days, and a clock that sees the last day of the
\* first, the second, and the first day of the third: a month paid on the first
\* of these days is cut to the second, an extension to the third, and both end
\* within the clock.
MoisCourts == <<2, 1, 2>>
Veille == [mois |-> 0, jour |-> 2]
Surlendemain == [mois |-> 2, jour |-> 1]

\* The seeded limits of the two smallest plans.
Limites == (gratuit :> 1) @@ (pro :> 2)

\* The decisions of the platform, among changes of plan, extensions and
\* expirations.
DroitsAcces ==
    (s1 :> {"changer", "reactiver"})
    @@ (s2 :> {"consulter", "prolonger", "suspendre", "resilier"})

\* Additions of members, among the same changes, extensions and expirations.
DroitsQuota ==
    (s1 :> {"changer", "ajouter"}) @@ (s2 :> {"consulter", "prolonger", "ajouter"})

ProfilsAccesQuota == {DroitsAcces, DroitsQuota}
ProfilsAcces == {DroitsAcces}

\* Bound of the run abonnements: it stops where two decisions on the access have
\* crossed, which the run service explores, and where the free plan is renamed
\* among requests that have crossed.
SansCourse == "acces" \notin courses /\ (repli \/ courses = {})
=============================================================================
