----------------------------- MODULE Abonnements -----------------------------
(***************************************************************************)
(* The subscriptions of one company (src/abonnements), its suspension and  *)
(* termination by the platform (src/administration), and the quota of      *)
(* active users of its plan (src/utilisateurs).                            *)
(*                                                                         *)
(* Nothing runs when a paid plan ends: the requests that read the          *)
(* subscription close it and fall back on the free plan (Reconcilier).     *)
(* A request reads one snapshot and commits later (see CycleFacture).      *)
(*                                                                         *)
(* Left out: prices, creation and other editions of a plan, billing, other *)
(* companies.                                                              *)
(***************************************************************************)
EXTENDS Calendrier, FiniteSets, FiniteSetsExt

CONSTANTS
    MaxSous,       \* bound: ids of table entreprise_abonnement
    Plans,         \* rows of table abonnement at the start
    Gratuit,       \* the plan "GRATUITE": no price, no end
    Limite,        \* Limite[p]: nombre_max_utilisateurs of plan p
    Utilisateurs,  \* the people who are, or may become, members of the company
    Fondateur,     \* the user who created the company
    Sessions,      \* concurrent HTTP requests
    Profils,       \* bound: who calls what, an assignment of operations to sessions
    PremierJour,   \* bound: the days the clock goes through
    DernierJour,
    MaxProlongations, \* bound: extensions of one subscription
    Aucun          \* SQL NULL

Operations == {"consulter", "changer", "prolonger", "ajouter",
               "suspendre", "reactiver", "resilier"}

\* The endpoints of a company go through the tenant gate; those of the platform,
\* and /abonnements/me, do not. A change or an extension comes from either.
Voies(op) ==
    IF op = "ajouter" THEN {"tenant"}
    ELSE IF op \in {"changer", "prolonger"} THEN {"tenant", "plateforme"}
    ELSE {"plateforme"}

ASSUME HypPlans == Gratuit \in Plans /\ Aucun \notin Plans \cup Utilisateurs
ASSUME HypLimite == Limite \in [Plans -> Nat]
ASSUME HypProfils == Profils \subseteq [Sessions -> SUBSET Operations]
ASSUME HypBornes ==
    /\ MaxSous \in Nat \ {0} /\ MaxProlongations \in Nat
    /\ PremierJour \in [mois : Nat, jour : Nat]
    /\ EstDate(PremierJour) /\ EstDate(DernierJour) /\ AuPlus(PremierJour, DernierJour)
ASSUME HypFondateur == Fondateur \in Utilisateurs

Ids == 1..MaxSous

VARIABLES
    sous,     \* table entreprise_abonnement: the rows of the company
    service,  \* Entreprise.est_actif
    comptes,  \* per person: "hors", "actif" or "inactif" member
    offre,    \* table abonnement: the plans that exist
    repli,    \* the free plan bears the label the fall-back looks for
    jour,     \* date.today()
    droits,   \* the profile of this behaviour
    etape,    \* per session: "libre", "lue", "reconciliee" or "relue"
    demande,  \* per session: the request being served
    lu,       \* per session: what it read in its snapshot
    vus,      \* history, per session: the writes committed since it read
    courses,  \* history: operations that committed on a stale reading
    prolongations  \* history, per subscription: extensions answered 200

base == <<sous, service, comptes, offre>>
requete == <<etape, demande, lu>>
historique == <<vus, courses, prolongations>>
cadre == <<repli, jour, droits>>
vars == <<base, cadre, requete, historique>>

-----------------------------------------------------------------------------
(* Rows *)

Absente == [statut |-> "absente", plan |-> Aucun, debut |-> PremierJour, fin |-> Aucun]

\* The days of the clock, and those on which what is paid may end.
Jours == {d \in Dates(PremierJour.mois..DernierJour.mois) :
             AuPlus(PremierJour, d) /\ AuPlus(d, DernierJour)}
Echeances == Dates(PremierJour.mois..(DernierJour.mois + MaxProlongations + 1))

\* fin = Aucun: the subscription has no end.
Lignes == [statut : {"absente", "actif", "expire", "suspendu", "annule"},
           plan : Plans \cup {Aucun}, debut : Jours, fin : Echeances \cup {Aucun}]

\* SQLAlchemy emits a column only if its value differs from the one it loaded.
Ecrire(charge, voulu, courant) == IF voulu = charge THEN courant ELSE voulu

Presentes(b) == {f \in Ids : b[f].statut # "absente"}
Actives(b) == {f \in Ids : b[f].statut = "actif"}

\* The most recent active subscription: by date_debut, then by id.
SouscriptionActive(b) ==
    CHOOSE f \in Actives(b) : \A g \in Actives(b) :
        Avant(b[g].debut, b[f].debut) \/ (b[g].debut = b[f].debut /\ g <= f)

\* The subscription the administration acts on: the one with the largest id.
SouscriptionCourante(b) == Max(Presentes(b))

\* date_fin < date.today(): the last day is still covered.
Echue(ligne, j) == ligne.fin # Aucun /\ Avant(ligne.fin, j)

\* A reader has to close the active subscription.
ReconcilierDue(b, j) == Actives(b) # {} /\ Echue(b[SouscriptionActive(b)], j)

Actifs(c) == {u \in Utilisateurs : c[u] = "actif"}

\* The row a new subscription gets, and the one it is inserted at.
Nouvelle(plan, j) ==
    [statut |-> "actif", plan |-> plan, debut |-> j,
     fin |-> IF plan = Gratuit THEN Aucun ELSE UnMoisApres(j)]
Suivante(b) == Cardinality(Presentes(b)) + 1

-----------------------------------------------------------------------------
(* Requests *)

Demandes == [op : Operations \cup {"aucune"}, voie : {"tenant", "plateforme"},
             plan : Plans \cup {Aucun}, membre : Utilisateurs \cup {Aucun}]
SansDemande == [op |-> "aucune", voie |-> "tenant", plan |-> Aucun, membre |-> Aucun]

Recevables ==
    {d \in Demandes : /\ d.op \in Operations
                      /\ d.voie \in Voies(d.op)
                      /\ (d.op = "changer") = (d.plan # Aucun)
                      /\ (d.op = "ajouter") = (d.membre # Aucun)}

\* The handler's snapshot, and the day it calls today.
Lectures == [sous : [Ids -> Lignes], service : BOOLEAN, offre : SUBSET Plans,
             comptes : [Utilisateurs -> {"hors", "actif", "inactif"}], jour : Jours]
SansLecture == [sous |-> [f \in Ids |-> Absente], service |-> TRUE, offre |-> {},
                comptes |-> [u \in Utilisateurs |-> "hors"], jour |-> PremierJour]
Instantane == [sous |-> sous, service |-> service, offre |-> offre,
               comptes |-> comptes, jour |-> jour]

\* What the request keeps of it once its guards passed: the free plan if it can
\* fall back on it (without it, resoudre_plan_gratuit ends the request with a
\* 500: Abandonner), the access if it changes it, the member it activates.
Retenu(d) ==
    [Instantane EXCEPT
        !.service = IF d.op \in {"suspendre", "reactiver", "resilier"} THEN @ ELSE TRUE,
        !.offre = IF repli /\ d.op # "changer" THEN @ \cap {Gratuit} ELSE {},
        !.comptes = [u \in Utilisateurs |-> IF u = d.membre THEN @[u] ELSE "hors"]]

\* Mutant of Complet: one user too many is accepted.
CompletApres(l, plan) == Cardinality(Actifs(l.comptes)) > Limite[plan]

\* The plan whose limit applies to l, and the limit.
PlanActif(l) == l.sous[SouscriptionActive(l.sous)].plan
Complet(l, plan) == Cardinality(Actifs(l.comptes)) >= Limite[plan]

\* change_plan: unknown plan, already on it, or too many users for it.
RefusChanger(l, plan) ==
    \/ plan \notin l.offre
    \/ \E f \in Actives(l.sous) : l.sous[f].plan = plan
    \/ Cardinality(Actifs(l.comptes)) > Limite[plan]

\* prolonger_abonnement: nothing active, or without an end.
RefusProlonger(l) ==
    \/ Actives(l.sous) = {}
    \/ l.sous[SouscriptionActive(l.sous)].fin = Aucun

\* ensure_can_add_active_user, when nothing has to be reconciled first; the
\* absence of an active plan is tolerated.
RefusAjouter(l) == Actives(l.sous) # {} /\ Complet(l, PlanActif(l))

RefusResilier(l) == l.sous[SouscriptionCourante(l.sous)].statut = "annule"

\* The request ends in its guards, or has nothing to write. A due
\* reconciliation comes before the guards of the last three.
Refus(l, d) ==
    \/ d.voie = "tenant" /\ ~l.service
    \/ d.op = "changer" /\ RefusChanger(l, d.plan)
    \/ d.op = "resilier" /\ RefusResilier(l)
    \/ d.op = "ajouter" /\ l.comptes[d.membre] = "actif"
    \/ /\ ~ReconcilierDue(l.sous, l.jour)
       /\ \/ d.op = "consulter"
          \/ d.op = "prolonger" /\ RefusProlonger(l)
          \/ d.op = "ajouter" /\ RefusAjouter(l)

Recevoir(s, d) ==
    /\ etape[s] = "libre"
    /\ d.op \in droits[s]
    /\ ~Refus(Instantane, d)
    /\ etape' = [etape EXCEPT ![s] = "lue"]
    /\ demande' = [demande EXCEPT ![s] = d]
    /\ lu' = [lu EXCEPT ![s] = Retenu(d)]
    /\ UNCHANGED <<base, cadre, historique>>

EnCours(s, op) == etape[s] = "lue" /\ demande[s].op = op

Clore(s) ==
    /\ etape' = [etape EXCEPT ![s] = "libre"]
    /\ demande' = [demande EXCEPT ![s] = SansDemande]
    /\ lu' = [lu EXCEPT ![s] = SansLecture]

\* The kinds of writes the history tells apart: "acces" is a suspension, a
\* termination or a reactivation.
Marques == {"acces", "prolongation", "souscription", "effectif"}

\* What the other requests miss from now on.
Signaler(s, marque) ==
    vus' = [t \in Sessions |-> IF t = s \/ etape[t] = "libre" THEN {}
                              ELSE vus[t] \cup {marque}]

\* What a commit adds to `courses', when other writes came after its reading:
\* two decisions on the access cross, two extensions cross, a reactivation or
\* any other request misses a write.
Perimee(op, v) ==
    LET manque == ~(v \subseteq {"effectif"}) IN
    {c \in {"acces", "prolonger", "reactiver", "autre"} :
        \/ c = "acces" /\ op \in {"suspendre", "resilier", "reactiver"} /\ "acces" \in v
        \/ c = "prolonger" /\ op = "prolonger" /\ "prolongation" \in v
        \/ c = "reactiver" /\ op = "reactiver" /\ manque
        \/ c = "autre" /\ manque}

Committer(s, marque) ==
    /\ Signaler(s, marque)
    /\ courses' = courses \cup Perimee(demande[s].op, vus[s])

\* Deadlock victim, lost connection, process stop: the transaction leaves no trace.
Abandonner(s) ==
    /\ etape[s] # "libre"
    /\ Clore(s)
    /\ vus' = [vus EXCEPT ![s] = {}]
    /\ UNCHANGED <<base, cadre, courses, prolongations>>

-----------------------------------------------------------------------------
(* Endpoints *)

\* The row f, closed by change_plan or by a reconciliation: the columns are
\* written over what the row is now.
Fermee(l, f, fin) ==
    [sous[f] EXCEPT !.statut = Ecrire(l.sous[f].statut, "expire", @),
                    !.fin = Ecrire(l.sous[f].fin, fin, @)]

\* INSERT of a subscription; the foreign key refuses a plan that is gone.
Souscrire(table, plan, j) ==
    /\ plan \in offre
    /\ Suivante(sous) \in Ids
    /\ sous' = [table EXCEPT ![Suivante(sous)] = Nouvelle(plan, j)]

\* reconcile_expired_subscription: the paid plan is closed and the free one
\* opened in one transaction. A reader or an extension stops there; an addition
\* goes on to its guard.
Reconcilier(s) ==
    LET l == lu[s]
        f == SouscriptionActive(l.sous) IN
    /\ etape[s] = "lue"
    /\ demande[s].op \in {"consulter", "prolonger", "ajouter"}
    /\ ReconcilierDue(l.sous, l.jour)
    /\ Gratuit \in l.offre
    /\ Souscrire([sous EXCEPT ![f] = Fermee(l, f, l.sous[f].fin)], Gratuit, l.jour)
    /\ Committer(s, "souscription")
    /\ IF demande[s].op = "ajouter"
       THEN /\ etape' = [etape EXCEPT ![s] = "reconciliee"]
            /\ lu' = [lu EXCEPT ![s].sous = SansLecture.sous]
            /\ UNCHANGED demande
       ELSE Clore(s)
    /\ UNCHANGED <<service, comptes, offre, cadre, prolongations>>

\* The guard of the addition goes on in a new transaction, with the free plan it
\* has just subscribed: it counts the users again, it does not read the
\* subscription again.  A refusal (409) ends the request.
Relire(s) ==
    /\ etape[s] = "reconciliee"
    /\ IF Complet(Instantane, Gratuit)
       THEN /\ Clore(s)
            /\ vus' = [vus EXCEPT ![s] = {}]
       ELSE /\ etape' = [etape EXCEPT ![s] = "relue"]
            /\ lu' = [lu EXCEPT ![s].jour = jour]
            /\ vus' = [vus EXCEPT ![s] = @ \ {"effectif"}]
            /\ UNCHANGED demande
    /\ UNCHANGED <<base, cadre, courses, prolongations>>

\* create_team_member or update_team_member: the member becomes active. A
\* member created or deleted meanwhile makes the commit fail.
Ajouter(s) ==
    LET u == demande[s].membre IN
    /\ demande[s].op = "ajouter"
    /\ \/ etape[s] = "lue" /\ ~ReconcilierDue(lu[s].sous, lu[s].jour)
       \/ etape[s] = "relue"
    /\ \/ lu[s].comptes[u] = "hors" /\ comptes[u] = "hors"
       \/ lu[s].comptes[u] = "inactif" /\ comptes[u] # "hors"
    /\ comptes' = [comptes EXCEPT ![u] = "actif"]
    /\ Committer(s, "effectif")
    /\ Clore(s)
    /\ UNCHANGED <<sous, service, offre, cadre, prolongations>>

\* Mutant of FermerActives: the old subscription stays open.
NeRienFermer(l) == sous

\* Mutant of FermerActives: the whole history is closed again.
FermerToutes(l) ==
    [f \in Ids |-> IF f \in Presentes(l.sous) THEN Fermee(l, f, l.jour) ELSE sous[f]]

\* change_plan closes the subscriptions it read as active.
FermerActives(l) ==
    [f \in Ids |-> IF f \in Actives(l.sous) THEN Fermee(l, f, l.jour) ELSE sous[f]]

Changer(s) ==
    /\ EnCours(s, "changer")
    /\ Souscrire(FermerActives(lu[s]), demande[s].plan, lu[s].jour)
    /\ Committer(s, "souscription")
    /\ Clore(s)
    /\ UNCHANGED <<service, comptes, offre, cadre, prolongations>>

\* Mutant of Prolongee: from today.
ProlongeeDeCeJour(l, f) == UnMoisApres(l.jour)

\* date_fin is put off by a month from the end that was read.
Prolongee(l, f) == UnMoisApres(l.sous[f].fin)

Prolonger(s) ==
    LET l == lu[s]
        f == SouscriptionActive(l.sous) IN
    /\ EnCours(s, "prolonger")
    /\ ~ReconcilierDue(l.sous, l.jour)
    /\ prolongations[f] < MaxProlongations
    /\ sous' = [sous EXCEPT ![f].fin = Prolongee(l, f)]
    /\ prolongations' = [prolongations EXCEPT ![f] = @ + 1]
    /\ Committer(s, "prolongation")
    /\ Clore(s)
    /\ UNCHANGED <<service, comptes, offre, cadre>>

\* suspendre_entreprise: access and subscription together.
Suspendre(s) ==
    LET l == lu[s]
        f == SouscriptionCourante(l.sous) IN
    /\ EnCours(s, "suspendre")
    /\ service' = Ecrire(l.service, FALSE, service)
    /\ sous' = IF l.sous[f].statut = "actif"
               THEN [sous EXCEPT ![f].statut = "suspendu"] ELSE sous
    /\ Committer(s, "acces")
    /\ Clore(s)
    /\ UNCHANGED <<comptes, offre, cadre, prolongations>>

\* Mutant of Rouvre: a terminated company gets no subscription back.
RouvreSuspendues(statut) == statut = "expire"

\* The current subscription cannot be resumed: a free one is opened.
Rouvre(statut) == statut \in {"annule", "expire"}

\* reactiver_entreprise.
Reactiver(s) ==
    LET l == lu[s]
        f == SouscriptionCourante(l.sous) IN
    /\ EnCours(s, "reactiver")
    /\ service' = Ecrire(l.service, TRUE, service)
    /\ IF Rouvre(l.sous[f].statut)
       THEN Gratuit \in l.offre /\ Souscrire(sous, Gratuit, l.jour)
       ELSE sous' = IF l.sous[f].statut = "suspendu"
                    THEN [sous EXCEPT ![f].statut = "actif"] ELSE sous
    /\ Committer(s, "acces")
    /\ Clore(s)
    /\ UNCHANGED <<comptes, offre, cadre, prolongations>>

\* resilier_abonnement.
Resilier(s) ==
    LET l == lu[s]
        f == SouscriptionCourante(l.sous) IN
    /\ EnCours(s, "resilier")
    /\ service' = Ecrire(l.service, FALSE, service)
    /\ sous' = [sous EXCEPT ![f].statut = "annule",
                            ![f].fin = Ecrire(l.sous[f].fin, l.jour, @)]
    /\ Committer(s, "acces")
    /\ Clore(s)
    /\ UNCHANGED <<comptes, offre, cadre, prolongations>>

\* Operations that decide on nothing another request may change: a member is
\* deactivated, deleted, or activated again by the platform, quota or not.
\* Bound: the founder stays.
ChangerCompte(u, etat) ==
    /\ u # Fondateur
    /\ comptes[u] # "hors"
    /\ comptes[u] # etat
    /\ comptes' = [comptes EXCEPT ![u] = etat]
    /\ vus' = [t \in Sessions |-> IF etape[t] = "libre" THEN {} ELSE vus[t] \cup {"effectif"}]
    /\ UNCHANGED <<sous, service, offre, cadre, requete, courses, prolongations>>

\* Mutant of EnUsage: only the active subscriptions hold their plan.
EnUsageActif(plan) == \E f \in Actives(sous) : sous[f].plan = plan

\* A subscription references the plan: the count of delete_plan, and the foreign key.
EnUsage(plan) == \E f \in Presentes(sous) : sous[f].plan = plan

SupprimerPlan(plan) ==
    /\ plan \in offre
    /\ ~EnUsage(plan)
    /\ offre' = offre \ {plan}
    /\ UNCHANGED <<sous, service, comptes, cadre, requete, historique>>

\* update_plan: the free plan gets another name.  Bound: it keeps it.
RenommerGratuit ==
    /\ repli
    /\ repli' = FALSE
    /\ UNCHANGED <<base, jour, droits, requete, historique>>

JourSuivant ==
    /\ Avant(jour, DernierJour)
    /\ jour' = Lendemain(jour)
    /\ UNCHANGED <<base, repli, droits, requete, historique>>

-----------------------------------------------------------------------------
\* create_entreprise: the founder, and the free plan.
Init ==
    /\ sous = [f \in Ids |-> IF f = 1 THEN Nouvelle(Gratuit, PremierJour) ELSE Absente]
    /\ service = TRUE
    /\ comptes = [u \in Utilisateurs |-> IF u = Fondateur THEN "actif" ELSE "hors"]
    /\ offre = Plans
    /\ repli = TRUE
    /\ jour = PremierJour
    /\ droits \in Profils
    /\ etape = [s \in Sessions |-> "libre"]
    /\ demande = [s \in Sessions |-> SansDemande]
    /\ lu = [s \in Sessions |-> SansLecture]
    /\ vus = [s \in Sessions |-> {}]
    /\ courses = {}
    /\ prolongations = [f \in Ids |-> 0]

Next ==
    \/ \E s \in Sessions, d \in Recevables : Recevoir(s, d)
    \/ \E s \in Sessions :
          \/ Reconcilier(s) \/ Relire(s) \/ Ajouter(s) \/ Changer(s) \/ Prolonger(s)
          \/ Suspendre(s) \/ Reactiver(s) \/ Resilier(s) \/ Abandonner(s)
    \/ \E u \in Utilisateurs, etat \in {"hors", "actif", "inactif"} : ChangerCompte(u, etat)
    \/ \E plan \in Plans : SupprimerPlan(plan)
    \/ RenommerGratuit
    \/ JourSuivant

Spec == Init /\ [][Next]_vars

-----------------------------------------------------------------------------
(* Properties *)

\* The variables have their types.
TypeOK ==
    /\ sous \in [Ids -> Lignes]
    /\ service \in BOOLEAN
    /\ comptes \in [Utilisateurs -> {"hors", "actif", "inactif"}]
    /\ offre \subseteq Plans
    /\ repli \in BOOLEAN
    /\ jour \in Jours
    /\ droits \in Profils
    /\ etape \in [Sessions -> {"libre", "lue", "reconciliee", "relue"}]
    /\ demande \in [Sessions -> Demandes]
    /\ lu \in [Sessions -> Lectures]
    /\ vus \in [Sessions -> SUBSET Marques]
    /\ courses \subseteq {"acces", "prolonger", "reactiver", "autre"}
    /\ prolongations \in [Ids -> 0..MaxProlongations]

\* "Souscription(s) active(s) courante(s) de l'entreprise (normalement une)"
\* (abonnements/services.py:269): suspensions, changes of plan on a suspended
\* company, terminations, reactivations and expirations in any order leave at
\* most one active, unless a request commits on a stale reading.
UneSeuleActive == courses = {} => Cardinality(Actives(sous)) <= 1

\* "Une entreprise en service doit toujours avoir un abonnement actif"
\* (administration/services.py:732-733).  Unconditional: see the README.
EnServiceAbonnee == service => Actives(sous) # {}

\* The same, whatever expirations, changes of plan and extensions come in
\* between: only two crossing decisions on the access can break it.
EnServiceSansCourse == "acces" \notin courses => EnServiceAbonnee

\* "Pour evaluer le plan reellement actif (un plan payant echu compte comme le
\* plan gratuit)": an addition that no other write crosses leaves no more active
\* users than the plan allows on the day it was decided, even when the
\* reconciliation comes first (abonnements/services.py:206-236): the plan is
\* then the free one, unless some request committed on a stale reading.
AjoutSousLimite ==
    [][\A s \in Sessions :
          /\ etape[s] # "libre" /\ etape'[s] = "libre" /\ demande[s].op = "ajouter"
          /\ Actifs(comptes') # Actifs(comptes)
          /\ vus[s] = {}
          /\ etape[s] = "relue" => courses = {}
          /\ Actives(sous) # {}
          => LET f == SouscriptionActive(sous)
             IN /\ ~Echue(sous[f], lu[s].jour)
                /\ Cardinality(Actifs(comptes')) <= Limite[sous[f].plan]]_vars

\* "date_fin est repoussee d'un mois depuis son echeance courante"
\* (abonnements/services.py:328-330): an open paid subscription ends after as
\* many months as were paid, unless two extensions cross, a stale reactivation
\* revives a closed one, or a suspension crosses a termination (which leaves a
\* terminated subscription to be revived).  The day never exceeds the one of the
\* start, and falls for good to the length of the shortest month it has met.
ProlongationsComptees ==
    courses \cap {"acces", "prolonger", "reactiver"} = {} =>
        \A f \in Actives(sous) : sous[f].fin # Aucun =>
            LET mois == sous[f].debut.mois + 1 + prolongations[f]
            IN sous[f].fin =
                   [mois |-> mois,
                    jour |-> Min({sous[f].debut.jour}
                                 \cup {Longueur(m) : m \in (sous[f].debut.mois + 1)..mois})]

\* "Historique preserve": as long as no request has committed on a stale reading of
\* any kind, a subscription that was closed is never written again.  The formula
\* says nothing from the first such commit on: it may reopen a closed row.
HistoriqueClos ==
    [][courses' = {} => \A f \in Ids :
          sous[f].statut \in {"expire", "annule"} => sous'[f] = sous[f]]_vars

\* The free plan, on which an expired company falls back, is never deleted: every
\* company has subscribed it once, and subscriptions are never deleted while
\* the company exists (delete_plan, and its foreign key).  Its label is another
\* matter: see RenommerGratuit.
RepliPossible == Gratuit \in offre
=============================================================================
