-------------------------- MODULE Abonnements_proofs --------------------------
(***************************************************************************)
(* Proofs about Abonnements, for every number of subscriptions, plans,     *)
(* users, concurrent requests and days: requests that commit on what they  *)
(* read long before keep one subscription in force, its history, its       *)
(* extensions and the quota of its plan, but for the races they name.      *)
(***************************************************************************)
EXTENDS Abonnements, FiniteSetTheorems, WellFoundedInduction, TLAPS

-----------------------------------------------------------------------------
(* The inductive invariant *)

\* No race that an extension cannot bear.
SansCroisement == courses \cap {"acces", "prolonger", "reactiver"} = {}

\* The end of a subscription is bounded by the extensions that were paid.
FinBornee(b, f) ==
    b[f].fin # Aucun => b[f].fin.mois <= DernierJour.mois + 1 + prolongations[f]

\* Subscriptions have the first ids; their plans exist, the first is free.
Table ==
    /\ \E n \in Ids : Presentes(sous) = 1..n
    /\ \A f \in Presentes(sous) : sous[f].plan \in Plans
    /\ sous[1].plan = Gratuit
    /\ \A f \in Ids \ Presentes(sous) : prolongations[f] = 0
    /\ \A f \in Ids : FinBornee(sous, f)

EffectifFini == IsFiniteSet(Actifs(comptes))

\* A session misses nothing between two requests.
Repos == \A s \in Sessions : etape[s] = "libre" => vus[s] = {}

\* What a request read is an earlier state of the table, and the present one as
\* long as it has missed no write.
LectureDe(s) ==
    etape[s] = "lue" =>
        /\ demande[s].op \in Operations
        /\ \E n \in Ids : Presentes(lu[s].sous) = 1..n
        /\ Presentes(lu[s].sous) \subseteq Presentes(sous)
        /\ \A f \in Ids : FinBornee(lu[s].sous, f)
        /\ vus[s] \subseteq {"effectif"} => lu[s].sous = sous
        /\ demande[s].op = "prolonger" =>
              /\ Actives(lu[s].sous) # {}
              /\ lu[s].sous[SouscriptionActive(lu[s].sous)].fin # Aucun
        /\ demande[s].op = "resilier" => ~RefusResilier(lu[s])
Lecture == \A s \in Sessions : LectureDe(s)

\* The current subscription is the last one.
Courante(f) == Presentes(sous) = 1..f

\* Unless a decision on the access came in between, so are the access, the
\* status of the subscription that is still the last one, and having an active
\* one.
AccesDe(s) ==
    etape[s] = "lue" /\ "acces" \notin vus[s] =>
        /\ demande[s].op \in {"suspendre", "resilier"} => lu[s].service = service
        /\ Actives(lu[s].sous) # {} => Actives(sous) # {}
        /\ \A f \in Presentes(lu[s].sous) :
              Courante(f) => sous[f].statut = lu[s].sous[f].statut
Acces == \A s \in Sessions : AccesDe(s)

\* A subscription that is active, or that a reactivation can resume.
Ouverte(f) == sous[f].statut = "actif" \/ (sous[f].statut = "suspendu" /\ Courante(f))

\* Unless an extension came in between, so is the end of an open one.
PaiementDe(s) ==
    SansCroisement /\ etape[s] = "lue" /\ "prolongation" \notin vus[s] =>
        \A f \in Actives(lu[s].sous) :
            Ouverte(f) => sous[f].fin = lu[s].sous[f].fin
Paiement == \A s \in Sessions : PaiementDe(s)

\* The count an addition was decided on still holds until another write; after a
\* reconciliation, so does the free plan.
QuotaDe(s) ==
    /\ etape[s] = "lue" /\ demande[s].op = "ajouter" /\ vus[s] = {}
       /\ ~ReconcilierDue(lu[s].sous, lu[s].jour) /\ Actives(lu[s].sous) # {}
       => Cardinality(Actifs(comptes)) < Limite[PlanActif(lu[s])]
    /\ etape[s] \in {"reconciliee", "relue"} =>
          /\ demande[s].op = "ajouter"
          /\ courses = {} /\ vus[s] \subseteq {"effectif"} =>
                \A f \in Actives(sous) : sous[f].plan = Gratuit /\ sous[f].fin = Aucun
    /\ etape[s] = "relue" /\ vus[s] = {} => Cardinality(Actifs(comptes)) < Limite[Gratuit]
Quota == \A s \in Sessions : QuotaDe(s)

\* Only the last subscription is active, and it was not closed by another.
Ordre ==
    courses = {} => \A n \in Ids :
        Courante(n) => Actives(sous) \subseteq {n} /\ sous[n].statut # "expire"

\* The end of an open subscription: Min is the day the end has.
MoisPayes(f) == sous[f].debut.mois + 1 + prolongations[f]
JoursPossibles(f) ==
    {sous[f].debut.jour} \cup {Longueur(m) : m \in (sous[f].debut.mois + 1)..MoisPayes(f)}
Periode ==
    SansCroisement => \A f \in Ids : Ouverte(f) /\ sous[f].fin # Aucun =>
        /\ sous[f].fin.mois = MoisPayes(f)
        /\ sous[f].fin.jour \in JoursPossibles(f)
        /\ \A j \in JoursPossibles(f) : sous[f].fin.jour <= j

AbonnementsInv ==
    /\ TypeOK /\ Table /\ RepliPossible /\ EffectifFini /\ Repos /\ Lecture
    /\ Acces /\ Paiement /\ Quota /\ Ordre /\ EnServiceSansCourse /\ Periode

-----------------------------------------------------------------------------
(* Dates *)

LEMMA Parametres ==
    /\ MaxSous \in Nat \ {0} /\ MaxProlongations \in Nat
    /\ PremierJour \in [mois : Nat, jour : Nat]
    /\ DernierJour.mois \in Nat /\ DernierJour.jour \in Nat
    /\ PremierJour.mois <= DernierJour.mois
    /\ 1 \in Ids
<1>1. DernierJour.mois \in Nat /\ PremierJour.mois \in Nat
    BY HypBornes DEF EstDate
<1>2. Longueur(DernierJour.mois) \in Nat
  <2>1. DernierJour.mois % Len(Longueurs) \in 0..(Len(Longueurs) - 1)
      BY HypLongueurs, <1>1
  <2>2. (DernierJour.mois % Len(Longueurs)) + 1 \in 1..Len(Longueurs)
      BY HypLongueurs, <2>1
  <2> QED
      BY HypLongueurs, <2>2 DEF Longueur
<1>3. DernierJour.jour \in Nat
    BY HypBornes, <1>2 DEF EstDate
<1> QED
    BY HypBornes, <1>1, <1>3 DEF AuPlus, Avant, Ids

LEMMA LongueurType ==
    ASSUME NEW m \in Nat
    PROVE  Longueur(m) \in Nat \ {0}
<1>1. m % Len(Longueurs) \in 0..(Len(Longueurs) - 1)
    BY HypLongueurs
<1>2. (m % Len(Longueurs)) + 1 \in 1..Len(Longueurs)
    BY HypLongueurs, <1>1
<1> QED
    BY HypLongueurs, <1>2 DEF Longueur

\* A member of Dates, and of the two sets of dates of the module.
LEMMA DatesDef ==
    ASSUME NEW M \in SUBSET Nat, NEW d
    PROVE  d \in Dates(M) <=> /\ d \in [mois : Nat, jour : Nat] /\ d.mois \in M
                              /\ d.jour \in 1..Longueur(d.mois)
<1>1. ASSUME d \in Dates(M)
      PROVE  /\ d \in [mois : Nat, jour : Nat] /\ d.mois \in M
             /\ d.jour \in 1..Longueur(d.mois)
  <2>1. PICK m \in M : d \in [mois : {m}, jour : 1..Longueur(m)]
      BY <1>1 DEF Dates
  <2> QED
      BY <2>1, LongueurType
<1>2. ASSUME d \in [mois : Nat, jour : Nat], d.mois \in M, d.jour \in 1..Longueur(d.mois)
      PROVE  d \in Dates(M)
  <2>1. d \in [mois : {d.mois}, jour : 1..Longueur(d.mois)]
      BY <1>2
  <2> QED
      BY <1>2, <2>1 DEF Dates
<1> QED
    BY <1>1, <1>2

LEMMA EcheancesDef ==
    ASSUME NEW d
    PROVE  d \in Echeances <=>
              /\ d \in [mois : Nat, jour : Nat] /\ d.jour \in 1..Longueur(d.mois)
              /\ PremierJour.mois <= d.mois
              /\ d.mois <= DernierJour.mois + MaxProlongations + 1
<1> DEFINE M == PremierJour.mois..(DernierJour.mois + MaxProlongations + 1)
<1>1. M \in SUBSET Nat
    BY Parametres
<1>2. d \in Dates(M) <=> /\ d \in [mois : Nat, jour : Nat] /\ d.mois \in M
                         /\ d.jour \in 1..Longueur(d.mois)
  <2> HIDE DEF M
  <2> QED
      BY <1>1, DatesDef
<1> QED
    BY <1>2, Parametres DEF Echeances

LEMMA JoursDef ==
    ASSUME NEW d
    PROVE  d \in Jours <=>
              /\ d \in [mois : Nat, jour : Nat] /\ d.jour \in 1..Longueur(d.mois)
              /\ PremierJour.mois <= d.mois /\ d.mois <= DernierJour.mois
              /\ AuPlus(PremierJour, d) /\ AuPlus(d, DernierJour)
<1> DEFINE M == PremierJour.mois..DernierJour.mois
<1>1. M \in SUBSET Nat
    BY Parametres
<1>2. d \in Dates(M) <=> /\ d \in [mois : Nat, jour : Nat] /\ d.mois \in M
                         /\ d.jour \in 1..Longueur(d.mois)
  <2> HIDE DEF M
  <2> QED
      BY <1>1, DatesDef
<1> QED
    BY <1>2, Parametres DEF Jours

LEMMA PremierJourType == PremierJour \in Jours
<1>1. AuPlus(PremierJour, PremierJour) /\ AuPlus(PremierJour, DernierJour)
    BY HypBornes, Parametres DEF AuPlus, Avant
<1>2. PremierJour.jour \in 1..Longueur(PremierJour.mois)
    BY HypBornes DEF EstDate
<1> QED
    BY <1>1, <1>2, Parametres, JoursDef

LEMMA LendemainType ==
    ASSUME NEW d \in Jours, Avant(d, DernierJour)
    PROVE  Lendemain(d) \in Jours
<1>1. /\ d \in [mois : Nat, jour : Nat] /\ d.jour \in 1..Longueur(d.mois)
      /\ PremierJour.mois <= d.mois /\ d.mois <= DernierJour.mois
      /\ AuPlus(PremierJour, d)
    BY JoursDef
<1>2. Longueur(d.mois) \in Nat /\ Longueur(d.mois + 1) \in Nat \ {0}
    BY <1>1, LongueurType
<1>3. CASE d.jour < Longueur(d.mois)
  <2>1. /\ Lendemain(d) \in [mois : Nat, jour : Nat]
        /\ Lendemain(d).mois = d.mois /\ Lendemain(d).jour = d.jour + 1
      BY <1>1, <1>3 DEF Lendemain
  <2>2. AuPlus(PremierJour, Lendemain(d)) /\ AuPlus(Lendemain(d), DernierJour)
      BY <1>1, <2>1, Parametres DEF AuPlus, Avant
  <2>3. Lendemain(d).jour \in 1..Longueur(Lendemain(d).mois)
      BY <1>1, <1>2, <1>3, <2>1
  <2> QED
      BY <1>1, <2>1, <2>2, <2>3, JoursDef
<1>4. CASE ~(d.jour < Longueur(d.mois))
  <2>1. /\ Lendemain(d) \in [mois : Nat, jour : Nat]
        /\ Lendemain(d).mois = d.mois + 1 /\ Lendemain(d).jour = 1
      BY <1>1, <1>4 DEF Lendemain
  <2>2. d.mois # DernierJour.mois
      BY <1>1, <1>2, <1>4, HypBornes, Parametres DEF Avant, EstDate
  <2>3. d.mois + 1 <= DernierJour.mois /\ PremierJour.mois <= d.mois + 1
      BY <1>1, <2>2, Parametres
  <2>4. 1 <= DernierJour.jour
      BY HypBornes, LongueurType DEF EstDate
  <2>5. AuPlus(PremierJour, Lendemain(d)) /\ AuPlus(Lendemain(d), DernierJour)
      BY <1>1, <2>1, <2>3, <2>4, Parametres DEF AuPlus, Avant
  <2>6. Lendemain(d).jour \in 1..Longueur(Lendemain(d).mois)
      BY <1>2, <2>1
  <2> QED
      BY <2>1, <2>3, <2>5, <2>6, JoursDef
<1> QED
    BY <1>3, <1>4

\* What is paid for a month ends in the next one.
LEMMA UnMoisType ==
    ASSUME NEW d \in Echeances, d.mois <= DernierJour.mois + MaxProlongations
    PROVE  /\ UnMoisApres(d) \in Echeances
           /\ UnMoisApres(d).mois = d.mois + 1
           /\ UnMoisApres(d).jour \in {d.jour, Longueur(d.mois + 1)}
           /\ UnMoisApres(d).jour <= d.jour
           /\ UnMoisApres(d).jour <= Longueur(d.mois + 1)
<1>1. /\ d \in [mois : Nat, jour : Nat] /\ d.jour \in 1..Longueur(d.mois)
      /\ PremierJour.mois <= d.mois
    BY EcheancesDef
<1>2. Longueur(d.mois + 1) \in Nat \ {0} /\ d.jour \in Nat \ {0}
    BY <1>1, LongueurType
<1>3. /\ UnMoisApres(d) \in [mois : Nat, jour : Nat]
      /\ UnMoisApres(d).mois = d.mois + 1
      /\ UnMoisApres(d).jour \in {d.jour, Longueur(d.mois + 1)}
      /\ UnMoisApres(d).jour <= d.jour
      /\ UnMoisApres(d).jour <= Longueur(d.mois + 1)
    BY <1>1, <1>2 DEF UnMoisApres
<1>4. UnMoisApres(d).jour \in 1..Longueur(UnMoisApres(d).mois)
    BY <1>2, <1>3
<1>5. d.mois + 1 <= DernierJour.mois + MaxProlongations + 1 /\ PremierJour.mois <= d.mois + 1
    BY <1>1, Parametres
<1> QED
    BY <1>3, <1>4, <1>5, EcheancesDef

LEMMA JourEcheance ==
    ASSUME NEW d \in Jours
    PROVE  /\ d \in Echeances /\ d.mois \in Nat /\ d.jour \in Nat
           /\ d.mois <= DernierJour.mois
           /\ d.mois <= DernierJour.mois + MaxProlongations
BY JoursDef, EcheancesDef, Parametres

-----------------------------------------------------------------------------
(* The most recent active subscription *)

\* A bounded set of natural numbers has a largest element.
LEMMA PlusGrand ==
    ASSUME NEW S \in SUBSET Nat, S # {}, NEW borne \in Nat, \A x \in S : x <= borne
    PROVE  \E m \in S : \A x \in S : x <= m
<1> DEFINE T == {borne - x : x \in S}
<1>1. \A x \in S : x \in Nat /\ borne - x \in Nat
    OBVIOUS
<1>2. T \subseteq Nat /\ T # {}
  <2>1. PICK x \in S : TRUE
      OBVIOUS
  <2>2. borne - x \in T
      BY <2>1
  <2>3. \A t \in T : t \in Nat
      BY <1>1
  <2> QED
      BY <2>2, <2>3
<1>3. PICK t \in T : \A u \in T : ~(<<u, t>> \in OpToRel(<, Nat))
  <2> HIDE DEF T
  <2> QED
      BY <1>2, NatLessThanWellFounded, WFMin, Zenon
<1>4. \A u \in T : ~(u < t)
  <2> HIDE DEF T
  <2>1. \A u \in T : u < t => <<u, t>> \in OpToRel(<, Nat)
      BY <1>2 DEF OpToRel
  <2> QED
      BY <1>3, <2>1
<1>5. PICK m \in S : t = borne - m
    BY <1>3
<1>6. \A x \in S : ~(borne - x < borne - m)
    BY <1>4, <1>5
<1>7. m \in Nat /\ borne \in Nat
    BY <1>1
<1> HIDE DEF T
<1>8. ASSUME NEW x \in S PROVE x <= m
  <2>1. x \in Nat /\ ~(borne - x < borne - m)
      BY <1>1, <1>6
  <2> QED
      BY <1>7, <2>1
<1> QED
    BY <1>8

\* What the CHOOSE of SouscriptionActive denotes.
LEMMA ActiveChoisie ==
    ASSUME NEW b \in [Ids -> Lignes], Actives(b) # {}
    PROVE  SouscriptionActive(b) \in Actives(b)
<1> DEFINE A == Actives(b)
           mois == {b[f].debut.mois : f \in A}
<1>1. A \subseteq Ids /\ A \subseteq Nat /\ \A f \in A : f <= MaxSous
    BY Parametres DEF Actives, Ids
<1>2. \A f \in A : /\ b[f].debut \in [mois : Nat, jour : Nat]
                   /\ b[f].debut.mois <= DernierJour.mois
                   /\ b[f].debut.jour <= Longueur(b[f].debut.mois)
  <2>1. \A f \in A : b[f].debut \in Jours
      BY DEF Actives, Lignes
  <2> QED
      BY <2>1, JoursDef, LongueurType
<1>3. PICK m \in mois : \A x \in mois : x <= m
  <2>1. mois \in SUBSET Nat /\ mois # {} /\ \A x \in mois : x <= DernierJour.mois
      BY <1>2
  <2> HIDE DEF mois
  <2> QED
      BY <2>1, PlusGrand, Parametres
<1> DEFINE B == {f \in A : b[f].debut.mois = m}
           jours == {b[f].debut.jour : f \in B}
<1>4. m \in Nat /\ B # {}
    BY <1>2, <1>3
<1>5. PICK j \in jours : \A x \in jours : x <= j
  <2>1. jours \in SUBSET Nat /\ jours # {} /\ \A x \in jours : x <= Longueur(m)
      BY <1>2, <1>4
  <2>2. Longueur(m) \in Nat
      BY <1>4, LongueurType
  <2> HIDE DEF jours
  <2> QED
      BY <2>1, <2>2, PlusGrand
<1> DEFINE C == {f \in B : b[f].debut.jour = j}
<1>6. PICK f \in C : \A g \in C : g <= f
  <2>1. C \in SUBSET Nat /\ C # {} /\ \A g \in C : g <= MaxSous
      BY <1>1, <1>5
  <2> HIDE DEF C
  <2> QED
      BY <2>1, PlusGrand, Parametres
<1>7. \A g \in A : Avant(b[g].debut, b[f].debut) \/ (b[g].debut = b[f].debut /\ g <= f)
  <2> SUFFICES ASSUME NEW g \in A
               PROVE  Avant(b[g].debut, b[f].debut) \/ (b[g].debut = b[f].debut /\ g <= f)
      OBVIOUS
  <2>1. /\ b[g].debut \in [mois : Nat, jour : Nat] /\ b[f].debut \in [mois : Nat, jour : Nat]
        /\ b[f].debut.mois = m /\ b[f].debut.jour = j
      BY <1>2
  <2>2. b[g].debut.mois <= m
      BY <1>3
  <2>3. b[g].debut.mois = m => b[g].debut.jour <= j
      BY <1>5
  <2>4. b[g].debut.mois = m /\ b[g].debut.jour = j => g <= f
      BY <1>6
  <2>5. b[g].debut.mois = m /\ b[g].debut.jour = j => b[g].debut = b[f].debut
      BY <2>1
  <2> QED
      BY <2>1, <2>2, <2>3, <2>4, <2>5 DEF Avant
<1>8. f \in A
    OBVIOUS
<1> HIDE DEF B, C, jours, mois
<1> QED
    BY <1>7, <1>8 DEF SouscriptionActive

\* The ids of a table that has no gap.
LEMMA Rangs ==
    ASSUME NEW b, NEW n \in Ids, Presentes(b) = 1..n
    PROVE  /\ Suivante(b) = n + 1
           /\ SouscriptionCourante(b) = n
           /\ \A m \in Ids : Presentes(b) = 1..m => m = n
<1>1. n \in Nat \ {0}
    BY Parametres DEF Ids
<1>2. Cardinality(1..n) = n
    BY <1>1, FS_Interval
<1>3. Max(1..n) = n
  <2>1. n \in 1..n /\ \A y \in 1..n : n >= y
      BY <1>1
  <2>2. \A x \in 1..n : (\A y \in 1..n : x >= y) => x = n
      BY <1>1
  <2> QED
      BY <2>1, <2>2 DEF Max
<1>4. \A m \in Ids : 1..n = 1..m => m = n
  <2> SUFFICES ASSUME NEW m \in Ids, 1..n = 1..m PROVE m = n
      OBVIOUS
  <2>1. m \in Nat \ {0}
      BY Parametres DEF Ids
  <2>2. m \in 1..n /\ n \in 1..m
      BY <1>1, <2>1
  <2> QED
      BY <1>1, <2>1, <2>2
<1> QED
    BY <1>2, <1>3, <1>4 DEF Suivante, SouscriptionCourante

-----------------------------------------------------------------------------
(* Rows *)

EtatsLigne == {"absente", "actif", "expire", "suspendu", "annule"}

LEMMA LigneStatut ==
    ASSUME NEW r \in Lignes, NEW statut \in EtatsLigne
    PROVE  /\ [r EXCEPT !.statut = statut] \in Lignes
           /\ [r EXCEPT !.statut = statut].statut = statut
           /\ [r EXCEPT !.statut = statut].plan = r.plan
           /\ [r EXCEPT !.statut = statut].debut = r.debut
           /\ [r EXCEPT !.statut = statut].fin = r.fin
BY DEF Lignes, EtatsLigne

LEMMA LigneFin ==
    ASSUME NEW r \in Lignes, NEW fin \in Echeances \cup {Aucun}
    PROVE  /\ [r EXCEPT !.fin = fin] \in Lignes
           /\ [r EXCEPT !.fin = fin].statut = r.statut
           /\ [r EXCEPT !.fin = fin].plan = r.plan
           /\ [r EXCEPT !.fin = fin].debut = r.debut
           /\ [r EXCEPT !.fin = fin].fin = fin
BY DEF Lignes

LEMMA LigneFermee ==
    ASSUME TypeOK, NEW l \in Lectures, NEW f \in Ids, NEW fin \in Echeances \cup {Aucun},
           l.sous[f].statut # "expire"
    PROVE  /\ Fermee(l, f, fin) \in Lignes
           /\ Fermee(l, f, fin).statut = "expire"
           /\ Fermee(l, f, fin).plan = sous[f].plan
           /\ Fermee(l, f, fin).debut = sous[f].debut
           /\ Fermee(l, f, fin).fin \in {sous[f].fin, fin}
           /\ fin = l.sous[f].fin => Fermee(l, f, fin).fin = sous[f].fin
<1>1. sous[f] \in Lignes
    BY DEF TypeOK
<1>2. Ecrire(l.sous[f].fin, fin, sous[f].fin) \in Echeances \cup {Aucun}
    BY <1>1 DEF Ecrire, Lignes
<1>3. Ecrire(l.sous[f].statut, "expire", sous[f].statut) = "expire"
    BY DEF Ecrire
<1>4. Ecrire(l.sous[f].fin, fin, sous[f].fin) \in {sous[f].fin, fin}
    BY DEF Ecrire
<1>5. fin = l.sous[f].fin => Ecrire(l.sous[f].fin, fin, sous[f].fin) = sous[f].fin
    BY DEF Ecrire
<1> DEFINE g == Ecrire(l.sous[f].fin, fin, sous[f].fin)
<1>6. Fermee(l, f, fin) = [sous[f] EXCEPT !.statut = "expire", !.fin = g]
    BY <1>1, <1>3 DEF Fermee, Lignes
<1> HIDE DEF g
<1>7. g \in Echeances \cup {Aucun} /\ g \in {sous[f].fin, fin}
      /\ (fin = l.sous[f].fin => g = sous[f].fin)
    BY <1>2, <1>4, <1>5 DEF g
<1> QED
    BY <1>1, <1>6, <1>7 DEF Lignes

LEMMA LigneNouvelle ==
    ASSUME NEW plan \in Plans, NEW j \in Jours
    PROVE  /\ Nouvelle(plan, j) \in Lignes
           /\ Nouvelle(plan, j).statut = "actif"
           /\ Nouvelle(plan, j).plan = plan
           /\ Nouvelle(plan, j).debut = j
           /\ Nouvelle(plan, j).fin \in {Aucun, UnMoisApres(j)}
           /\ plan = Gratuit => Nouvelle(plan, j).fin = Aucun
<1>1. UnMoisApres(j) \in Echeances
    BY JourEcheance, UnMoisType
<1> QED
    BY <1>1 DEF Nouvelle, Lignes

LEMMA LectureVide == /\ SansLecture \in Lectures
                     /\ Absente \in Lignes
                     /\ SansLecture.sous \in [Ids -> Lignes]
                     /\ SansDemande \in Demandes
<1>1. Absente \in Lignes
    BY PremierJourType DEF Absente, Lignes
<1>2. [f \in Ids |-> Absente] \in [Ids -> Lignes]
    BY <1>1
<1>3. [u \in Utilisateurs |-> "hors"] \in [Utilisateurs -> {"hors", "actif", "inactif"}]
    OBVIOUS
<1>4. SansLecture \in Lectures
    BY <1>2, <1>3, PremierJourType DEF SansLecture, Lectures
<1> QED
    BY <1>1, <1>2, <1>4 DEF SansDemande, Demandes, SansLecture

-----------------------------------------------------------------------------
(* What a commit does to the requests *)

\* The writer ends, or goes on without what it read; the others miss the write.
Signale(s, marque) ==
    /\ \A t \in Sessions \ {s} :
          /\ etape'[t] = etape[t] /\ demande'[t] = demande[t] /\ lu'[t] = lu[t]
          /\ etape[t] = "libre" => vus'[t] = {}
          /\ etape[t] # "libre" => vus'[t] = vus[t] \cup {marque}
    /\ etape'[s] \in {"libre", "reconciliee"}
    /\ vus'[s] = {}

TypesRequetes ==
    /\ etape \in [Sessions -> {"libre", "lue", "reconciliee", "relue"}]
    /\ demande \in [Sessions -> Demandes]
    /\ lu \in [Sessions -> Lectures]
    /\ vus \in [Sessions -> SUBSET Marques]

LEMMA SessionClose ==
    ASSUME TypeOK, NEW s \in Sessions, NEW marque \in Marques,
           Clore(s), Signaler(s, marque)
    PROVE  Signale(s, marque) /\ TypesRequetes' /\ etape'[s] = "libre"
<1>1. /\ etape' \in [Sessions -> {"libre", "lue", "reconciliee", "relue"}]
      /\ etape'[s] = "libre" /\ \A t \in Sessions \ {s} : etape'[t] = etape[t]
    BY DEF TypeOK, Clore
<1>2. /\ demande' \in [Sessions -> Demandes]
      /\ \A t \in Sessions \ {s} : demande'[t] = demande[t]
    BY LectureVide DEF TypeOK, Clore
<1>3. lu' \in [Sessions -> Lectures] /\ \A t \in Sessions \ {s} : lu'[t] = lu[t]
    BY LectureVide DEF TypeOK, Clore
<1>4. /\ vus' \in [Sessions -> SUBSET Marques]
      /\ vus'[s] = {}
      /\ \A t \in Sessions \ {s} : /\ etape[t] = "libre" => vus'[t] = {}
                                   /\ etape[t] # "libre" => vus'[t] = vus[t] \cup {marque}
    BY DEF TypeOK, Signaler
<1> QED
    BY <1>1, <1>2, <1>3, <1>4 DEF Signale, TypesRequetes

LEMMA SessionReconciliee ==
    ASSUME TypeOK, NEW s \in Sessions, NEW marque \in Marques, Signaler(s, marque),
           etape' = [etape EXCEPT ![s] = "reconciliee"],
           lu' = [lu EXCEPT ![s].sous = SansLecture.sous], UNCHANGED demande
    PROVE  Signale(s, marque) /\ TypesRequetes' /\ etape'[s] = "reconciliee"
<1>1. /\ etape' \in [Sessions -> {"libre", "lue", "reconciliee", "relue"}]
      /\ etape'[s] = "reconciliee" /\ \A t \in Sessions \ {s} : etape'[t] = etape[t]
    BY DEF TypeOK
<1>2. demande' \in [Sessions -> Demandes] /\ \A t \in Sessions : demande'[t] = demande[t]
    BY DEF TypeOK
<1>3. lu' \in [Sessions -> Lectures] /\ \A t \in Sessions \ {s} : lu'[t] = lu[t]
  <2>1. lu[s] \in Lectures
      BY DEF TypeOK
  <2>2. [lu[s] EXCEPT !.sous = SansLecture.sous] \in Lectures
      BY <2>1, LectureVide DEF Lectures
  <2>3. lu' = [lu EXCEPT ![s] = [lu[s] EXCEPT !.sous = SansLecture.sous]]
      BY DEF TypeOK
  <2> QED
      BY <2>2, <2>3 DEF TypeOK
<1>4. /\ vus' \in [Sessions -> SUBSET Marques]
      /\ vus'[s] = {}
      /\ \A t \in Sessions \ {s} : /\ etape[t] = "libre" => vus'[t] = {}
                                   /\ etape[t] # "libre" => vus'[t] = vus[t] \cup {marque}
    BY DEF TypeOK, Signaler
<1> QED
    BY <1>1, <1>2, <1>3, <1>4 DEF Signale, TypesRequetes

\* What the races a commit has not noted say of what it missed.
LEMMA SansRetard ==
    ASSUME TypeOK, NEW s \in Sessions, NEW marque, Committer(s, marque)
    PROVE  /\ courses \subseteq courses'
           /\ courses' \subseteq {"acces", "prolonger", "reactiver", "autre"}
           /\ courses' = {} => courses = {} /\ vus[s] \subseteq {"effectif"}
           /\ "acces" \notin courses' /\ demande[s].op \in {"suspendre", "resilier", "reactiver"}
              => "acces" \notin vus[s]
           /\ SansCroisement' => SansCroisement /\ "acces" \notin courses'
           /\ SansCroisement' /\ demande[s].op = "prolonger" => "prolongation" \notin vus[s]
           /\ SansCroisement' /\ demande[s].op = "reactiver" => vus[s] \subseteq {"effectif"}
<1>1. courses' = courses \cup Perimee(demande[s].op, vus[s])
    BY DEF Committer
<1>2. ~(vus[s] \subseteq {"effectif"}) => "autre" \in Perimee(demande[s].op, vus[s])
    BY DEF Perimee
<1>3. "acces" \in vus[s] /\ demande[s].op \in {"suspendre", "resilier", "reactiver"}
      => "acces" \in Perimee(demande[s].op, vus[s])
    BY DEF Perimee
<1>4. "prolongation" \in vus[s] /\ demande[s].op = "prolonger"
      => "prolonger" \in Perimee(demande[s].op, vus[s])
    BY DEF Perimee
<1>5. ~(vus[s] \subseteq {"effectif"}) /\ demande[s].op = "reactiver"
      => "reactiver" \in Perimee(demande[s].op, vus[s])
    BY DEF Perimee
<1>6. Perimee(demande[s].op, vus[s]) \subseteq {"acces", "prolonger", "reactiver", "autre"}
    BY DEF Perimee
<1>7. courses \subseteq {"acces", "prolonger", "reactiver", "autre"}
    BY DEF TypeOK
<1> QED
    BY <1>1, <1>2, <1>3, <1>4, <1>5, <1>6, <1>7 DEF SansCroisement


LEMMA ReposApres ==
    ASSUME NEW s \in Sessions, NEW marque, Signale(s, marque), Repos
    PROVE  Repos'
BY DEF Signale, Repos

LEMMA LectureApres ==
    ASSUME Lecture, Repos, NEW s \in Sessions, NEW marque, Signale(s, marque),
           Presentes(sous) \subseteq Presentes(sous'),
           marque = "effectif" => sous' = sous,
           prolongations \in [Ids -> Nat], prolongations' \in [Ids -> Nat],
           \A f \in Ids : prolongations[f] <= prolongations'[f],
           TypeOK
    PROVE  Lecture'
<1> SUFFICES ASSUME NEW t \in Sessions, etape'[t] = "lue"
             PROVE  LectureDe(t)'
    BY DEF Lecture, LectureDe
<1>1. t # s /\ etape[t] = "lue" /\ demande'[t] = demande[t] /\ lu'[t] = lu[t]
    BY DEF Signale
<1>2. vus'[t] = vus[t] \cup {marque} /\ LectureDe(t)
    BY <1>1 DEF Signale, Lecture
<1>3. vus'[t] \subseteq {"effectif"} => vus[t] \subseteq {"effectif"} /\ sous' = sous
    BY <1>2
<1>4. \A f \in Ids : FinBornee(lu[t].sous, f)'
  <2> SUFFICES ASSUME NEW f \in Ids, lu[t].sous[f].fin # Aucun
               PROVE  lu[t].sous[f].fin.mois <= DernierJour.mois + 1 + prolongations'[f]
      BY <1>1 DEF FinBornee
  <2>1. lu[t].sous[f].fin \in Echeances
      BY DEF TypeOK, Lectures, Lignes
  <2>2. lu[t].sous[f].fin.mois \in Nat
      BY <2>1, EcheancesDef
  <2>3. lu[t].sous[f].fin.mois <= DernierJour.mois + 1 + prolongations[f]
      BY <1>1, <1>2 DEF LectureDe, FinBornee
  <2> QED
      BY <2>2, <2>3, Parametres
<1>5. Presentes(lu[t].sous) \subseteq Presentes(sous')
    BY <1>1, <1>2 DEF LectureDe
<1>6. /\ demande[t].op \in Operations
      /\ \E n \in Ids : Presentes(lu[t].sous) = 1..n
      /\ demande[t].op = "prolonger" =>
              /\ Actives(lu[t].sous) # {}
              /\ lu[t].sous[SouscriptionActive(lu[t].sous)].fin # Aucun
      /\ demande[t].op = "resilier" => ~RefusResilier(lu[t])
    BY <1>1, <1>2 DEF LectureDe
<1>7. vus'[t] \subseteq {"effectif"} => lu[t].sous = sous'
    BY <1>1, <1>2, <1>3 DEF LectureDe
<1> QED
    BY <1>1, <1>4, <1>5, <1>6, <1>7 DEF LectureDe

LEMMA AccesApres ==
    ASSUME Acces, Lecture, NEW s \in Sessions, NEW marque, Signale(s, marque),
           \/ marque = "acces"
           \/ /\ service' = service
              /\ Actives(sous) # {} => Actives(sous') # {}
              /\ \A f \in Presentes(sous) :
                    Courante(f)' => Courante(f) /\ sous'[f].statut = sous[f].statut
    PROVE  Acces'
<1> SUFFICES ASSUME NEW t \in Sessions, etape'[t] = "lue", "acces" \notin vus'[t]
             PROVE  AccesDe(t)'
    BY DEF Acces, AccesDe
<1>1. t # s /\ etape[t] = "lue" /\ demande'[t] = demande[t] /\ lu'[t] = lu[t]
      /\ vus'[t] = vus[t] \cup {marque}
    BY DEF Signale
<1>2. marque # "acces" /\ "acces" \notin vus[t]
    BY <1>1
<1>3. AccesDe(t) /\ Presentes(lu[t].sous) \subseteq Presentes(sous)
    BY <1>1 DEF Acces, Lecture, LectureDe
<1>4. demande[t].op \in {"suspendre", "resilier"} => lu[t].service = service'
    BY <1>1, <1>2, <1>3 DEF AccesDe
<1>5. Actives(lu[t].sous) # {} => Actives(sous') # {}
    BY <1>1, <1>2, <1>3 DEF AccesDe
<1>6. \A f \in Presentes(lu[t].sous) : Courante(f)' => sous'[f].statut = lu[t].sous[f].statut
    BY <1>1, <1>2, <1>3 DEF AccesDe
<1> QED
    BY <1>1, <1>4, <1>5, <1>6 DEF AccesDe

LEMMA PaiementApres ==
    ASSUME Paiement, Lecture, NEW s \in Sessions, NEW marque, Signale(s, marque),
           SansCroisement' => SansCroisement,
           \/ marque = "prolongation"
           \/ SansCroisement' => \A f \in Presentes(sous) :
                    Ouverte(f)' => Ouverte(f) /\ sous'[f].fin = sous[f].fin
    PROVE  Paiement'
<1> SUFFICES ASSUME NEW t \in Sessions, SansCroisement', etape'[t] = "lue",
                    "prolongation" \notin vus'[t]
             PROVE  PaiementDe(t)'
    BY DEF Paiement, PaiementDe
<1>1. t # s /\ etape[t] = "lue" /\ lu'[t] = lu[t] /\ vus'[t] = vus[t] \cup {marque}
    BY DEF Signale
<1>2. marque # "prolongation" /\ "prolongation" \notin vus[t] /\ SansCroisement
    BY <1>1
<1>3. PaiementDe(t) /\ Actives(lu[t].sous) \subseteq Presentes(sous)
  <2>1. Presentes(lu[t].sous) \subseteq Presentes(sous)
      BY <1>1 DEF Lecture, LectureDe
  <2>2. Actives(lu[t].sous) \subseteq Presentes(lu[t].sous)
      BY DEF Actives, Presentes
  <2> QED
      BY <2>1, <2>2 DEF Paiement
<1>4. \A f \in Actives(lu[t].sous) : Ouverte(f)' => sous'[f].fin = lu[t].sous[f].fin
    BY <1>1, <1>2, <1>3 DEF PaiementDe
<1> QED
    BY <1>1, <1>4 DEF PaiementDe

LEMMA QuotaApres ==
    ASSUME Quota, Repos, NEW s \in Sessions, NEW marque, Signale(s, marque),
           courses' = {} => courses = {},
           marque = "effectif" => sous' = sous,
           etape'[s] = "reconciliee" =>
              /\ demande'[s].op = "ajouter"
              /\ courses' = {} =>
                    \A f \in Actives(sous') : sous'[f].plan = Gratuit /\ sous'[f].fin = Aucun
    PROVE  Quota'
<1>1. QuotaDe(s)'
    BY DEF Signale, QuotaDe
<1>2. ASSUME NEW t \in Sessions, t # s, etape[t] = "libre"
      PROVE  QuotaDe(t)'
    BY <1>2 DEF Signale, QuotaDe
<1>3. ASSUME NEW t \in Sessions, t # s, etape[t] # "libre"
      PROVE  QuotaDe(t)'
  <2>1. /\ etape'[t] = etape[t] /\ demande'[t] = demande[t] /\ vus'[t] = vus[t] \cup {marque}
        /\ vus'[t] # {}
      BY <1>3 DEF Signale
  <2>2. etape[t] \in {"reconciliee", "relue"} =>
          /\ demande[t].op = "ajouter"
          /\ courses' = {} /\ vus'[t] \subseteq {"effectif"} =>
                \A f \in Actives(sous') : sous'[f].plan = Gratuit /\ sous'[f].fin = Aucun
    <3>1. vus'[t] \subseteq {"effectif"} => vus[t] \subseteq {"effectif"} /\ sous' = sous
        BY <2>1
    <3> QED
        BY <3>1 DEF Quota, QuotaDe
  <2> QED
      BY <2>1, <2>2 DEF QuotaDe
<1> QED
    BY <1>1, <1>2, <1>3 DEF Quota


-----------------------------------------------------------------------------
(* What a commit does to the subscriptions *)

\* A subscription is opened while others are closed, or none is.
LEMMA Insertion ==
    ASSUME AbonnementsInv, NEW table \in [Ids -> Lignes], NEW plan \in Plans, NEW j \in Jours,
           Souscrire(table, plan, j), UNCHANGED <<prolongations, offre>>,
           SansCroisement' => SansCroisement,
           \A f \in Ids : \/ table[f] = sous[f]
                          \/ /\ f \in Presentes(sous) /\ table[f].statut = "expire"
                             /\ table[f].plan = sous[f].plan /\ FinBornee(table, f)
    PROVE  /\ sous' \in [Ids -> Lignes] /\ Table' /\ Periode'
           /\ Actives(sous') # {}
           /\ Presentes(sous) \subseteq Presentes(sous')
           /\ \A f \in Presentes(sous) :
                 ~Courante(f)' /\ (Ouverte(f)' => Ouverte(f) /\ sous'[f] = sous[f])
           /\ \E n \in Ids : /\ Courante(n) /\ n + 1 \in Ids /\ Courante(n + 1)'
                             /\ sous'[n + 1] = Nouvelle(plan, j)
                             /\ \A f \in Ids \ {n + 1} : sous'[f] = table[f]
<1> USE DEF AbonnementsInv
<1>1. PICK n \in Ids : Presentes(sous) = 1..n
    BY DEF Table
<1>2. n \in Nat \ {0} /\ Suivante(sous) = n + 1
    BY <1>1, Rangs, Parametres DEF Ids
<1>3. /\ n + 1 \in Ids /\ sous' = [table EXCEPT ![n + 1] = Nouvelle(plan, j)]
      /\ Nouvelle(plan, j) \in Lignes /\ Nouvelle(plan, j).statut = "actif"
      /\ Nouvelle(plan, j).plan = plan
    BY <1>2, LigneNouvelle DEF Souscrire
<1>4. /\ sous' \in [Ids -> Lignes] /\ sous'[n + 1] = Nouvelle(plan, j)
      /\ \A f \in Ids \ {n + 1} : sous'[f] = table[f]
    BY <1>3
<1>5. \A f \in Ids : f \in Presentes(sous) <=> f \in 1..n
    BY <1>1
<1>6. n + 1 \notin 1..n /\ 1..(n + 1) = (1..n) \cup {n + 1} /\ 1..n \subseteq Ids
  <2>1. n <= MaxSous
      BY Parametres DEF Ids
  <2> QED
      BY <1>2, <2>1, Parametres DEF Ids
<1>7. Presentes(sous') = 1..(n + 1)
  <2>1. \A f \in Ids \ {n + 1} : sous'[f].statut # "absente" <=> f \in 1..n
      BY <1>4, <1>5 DEF Presentes
  <2>2. \A f \in Ids : f \in Presentes(sous') <=> f \in 1..(n + 1)
      BY <1>3, <1>4, <1>6, <2>1 DEF Presentes
  <2>3. Presentes(sous') \subseteq Ids
      BY DEF Presentes
  <2> QED
      BY <1>3, <1>6, <2>2, <2>3
<1>8. \A f \in Ids : f \in 1..n =>
         \/ sous'[f] = sous[f]
         \/ sous'[f].statut = "expire" /\ sous'[f].plan = sous[f].plan
    BY <1>4, <1>6
<1>9. 1 \in 1..n
    BY <1>2
<1>10. Table'
  <2>1. \E m \in Ids : Presentes(sous') = 1..m
      BY <1>3, <1>7
  <2>2. \A f \in Presentes(sous') : sous'[f].plan \in Plans
    <3>1. \A f \in 1..n : f \in Ids /\ sous[f].plan \in Plans
        BY <1>1, <1>6 DEF Table
    <3>2. \A f \in 1..n : sous'[f].plan \in Plans
        BY <1>8, <3>1
    <3> QED
        BY <1>3, <1>4, <1>6, <1>7, <3>2
  <2>3. sous'[1].plan = Gratuit
      BY <1>8, <1>9, Parametres DEF Table
  <2>4. \A f \in Ids \ Presentes(sous') : prolongations'[f] = 0
      BY <1>1, <1>6, <1>7 DEF Table
  <2>5. \A f \in Ids : FinBornee(sous, f)'
    <3>1. ASSUME NEW f \in Ids \ {n + 1}
          PROVE  FinBornee(sous, f)'
      <4>1. FinBornee(sous, f)
          BY DEF Table
      <4> QED
          BY <1>4, <4>1 DEF FinBornee
    <3>2. FinBornee(sous, n + 1)'
      <4>1. UnMoisApres(j).mois <= DernierJour.mois + 1 /\ UnMoisApres(j).mois \in Nat
          BY JourEcheance, UnMoisType, Parametres
      <4>2. prolongations[n + 1] \in Nat
          BY <1>3, Parametres DEF TypeOK
      <4>3. Nouvelle(plan, j).fin \in {Aucun, UnMoisApres(j)}
          BY LigneNouvelle
      <4>4. UnMoisApres(j).mois <= DernierJour.mois + 1 + prolongations[n + 1]
          BY <4>1, <4>2, Parametres
      <4> QED
          BY <1>4, <4>3, <4>4 DEF FinBornee
    <3> QED
        BY <3>1, <3>2
  <2> QED
      BY <2>1, <2>2, <2>3, <2>4, <2>5 DEF Table
<1>11. Actives(sous') # {}
    BY <1>3, <1>4 DEF Actives
<1>12. ASSUME NEW f \in Presentes(sous)
       PROVE  ~Courante(f)' /\ (Ouverte(f)' => Ouverte(f) /\ sous'[f] = sous[f])
  <2>1. f \in Ids /\ f \in 1..n
      BY <1>1 DEF Presentes
  <2>2. ~Courante(f)'
    <3>1. n + 1 \notin 1..f /\ n + 1 \in 1..(n + 1)
        BY <1>2, <2>1
    <3>2. 1..(n + 1) # 1..f
        BY <3>1
    <3> QED
        BY <1>7, <3>2 DEF Courante
  <2>3. Ouverte(f)' => Ouverte(f) /\ sous'[f] = sous[f]
      BY <1>8, <2>1, <2>2 DEF Ouverte
  <2> QED
      BY <2>2, <2>3
<1>13. Periode'
  <2> SUFFICES ASSUME SansCroisement', NEW f \in Ids, Ouverte(f)', sous'[f].fin # Aucun
               PROVE  /\ sous'[f].fin.mois = MoisPayes(f)'
                      /\ sous'[f].fin.jour \in JoursPossibles(f)'
                      /\ \A x \in JoursPossibles(f)' : sous'[f].fin.jour <= x
      BY DEF Periode
  <2>1. CASE f = n + 1
    <3>1. n + 1 \notin Presentes(sous)
        BY <1>1, <1>6
    <3>2. prolongations'[f] = 0
        BY <1>3, <2>1, <3>1 DEF Table
    <3>3. sous'[f] = Nouvelle(plan, j)
        BY <1>4, <2>1
    <3>4. Nouvelle(plan, j).fin = UnMoisApres(j) /\ Nouvelle(plan, j).debut = j
        BY <3>3, LigneNouvelle
    <3>5. /\ j.mois \in Nat /\ UnMoisApres(j).mois = j.mois + 1
          /\ UnMoisApres(j).jour \in {j.jour, Longueur(j.mois + 1)}
          /\ UnMoisApres(j).jour <= j.jour
          /\ UnMoisApres(j).jour <= Longueur(j.mois + 1)
        BY JourEcheance, UnMoisType
    <3>6. MoisPayes(f)' = j.mois + 1
        BY <3>2, <3>3, <3>4, <3>5 DEF MoisPayes
    <3>7. /\ \A m \in (j.mois + 1)..(j.mois + 1) : m = j.mois + 1
          /\ j.mois + 1 \in (j.mois + 1)..(j.mois + 1)
        BY <3>5
    <3>8. JoursPossibles(f)' = {j.jour, Longueur(j.mois + 1)}
        BY <3>3, <3>4, <3>6, <3>7 DEF JoursPossibles
    <3> QED
        BY <3>3, <3>4, <3>5, <3>6, <3>8
  <2>2. CASE f # n + 1
    <3>1. f \in Presentes(sous)
      <4>1. sous'[f].statut # "absente"
          BY DEF Ouverte
      <4>2. f \in Presentes(sous')
          BY <4>1 DEF Presentes
      <4> QED
          BY <1>1, <1>6, <1>7, <2>2, <4>2
    <3>2. Ouverte(f) /\ sous'[f] = sous[f]
        BY <1>12, <3>1
    <3>3. MoisPayes(f)' = MoisPayes(f) /\ JoursPossibles(f)' = JoursPossibles(f)
        BY <3>2 DEF MoisPayes, JoursPossibles
    <3> QED
        BY <3>2, <3>3 DEF Periode
  <2> QED
      BY <2>1, <2>2
<1>14. Courante(n) /\ n + 1 \in Ids /\ Courante(n + 1)'
    BY <1>1, <1>3, <1>7 DEF Courante
<1>15. Presentes(sous) \subseteq Presentes(sous')
    BY <1>1, <1>6, <1>7
<1> QED
    BY <1>4, <1>10, <1>11, <1>12, <1>13, <1>14, <1>15


\* The invariant after a commit, from what it did to the requests and the table.
LEMMA CommitInv ==
    ASSUME AbonnementsInv, NEW s \in Sessions, NEW marque \in Marques,
           Signale(s, marque), TypesRequetes', Committer(s, marque), UNCHANGED <<offre, cadre>>,
           sous' \in [Ids -> Lignes], service' \in BOOLEAN,
           comptes' \in [Utilisateurs -> {"hors", "actif", "inactif"}], EffectifFini',
           prolongations' \in [Ids -> 0..MaxProlongations],
           \A f \in Ids : prolongations[f] <= prolongations'[f],
           marque = "effectif" => sous' = sous,
           Presentes(sous) \subseteq Presentes(sous'),
           Table', Periode', Ordre', EnServiceSansCourse',
           \/ marque = "acces"
           \/ /\ service' = service
              /\ Actives(sous) # {} => Actives(sous') # {}
              /\ \A f \in Presentes(sous) :
                    Courante(f)' => Courante(f) /\ sous'[f].statut = sous[f].statut,
           \/ marque = "prolongation"
           \/ SansCroisement' => \A f \in Presentes(sous) :
                    Ouverte(f)' => Ouverte(f) /\ sous'[f].fin = sous[f].fin,
           etape'[s] = "reconciliee" =>
              /\ demande'[s].op = "ajouter"
              /\ courses' = {} =>
                    \A f \in Actives(sous') : sous'[f].plan = Gratuit /\ sous'[f].fin = Aucun
    PROVE  AbonnementsInv'
<1> USE DEF AbonnementsInv
<1>1. /\ courses' \subseteq {"acces", "prolonger", "reactiver", "autre"}
      /\ courses' = {} => courses = {}
      /\ SansCroisement' => SansCroisement
    BY SansRetard
<1>2. TypeOK'
    BY <1>1 DEF TypeOK, TypesRequetes, cadre
<1>3. Repos'
    BY ReposApres
<1>4. Lecture'
  <2>1. prolongations \in [Ids -> Nat] /\ prolongations' \in [Ids -> Nat]
      BY Parametres DEF TypeOK
  <2> QED
      BY <2>1, LectureApres
<1>5. Acces'
    BY AccesApres
<1>6. Paiement'
    BY <1>1, PaiementApres
<1>7. Quota'
    BY <1>1, QuotaApres
<1>8. RepliPossible'
    BY DEF RepliPossible
<1> QED
    BY <1>2, <1>3, <1>4, <1>5, <1>6, <1>7, <1>8

LEMMA SouscriptionInv ==
    ASSUME AbonnementsInv, NEW s \in Sessions, NEW marque \in {"souscription", "acces"},
           NEW table \in [Ids -> Lignes], NEW plan \in Plans, NEW j \in Jours,
           Souscrire(table, plan, j), UNCHANGED <<prolongations, offre, comptes, cadre>>,
           Committer(s, marque), Signale(s, marque), TypesRequetes',
           service' \in BOOLEAN, marque # "acces" => service' = service,
           \A f \in Ids : \/ table[f] = sous[f]
                          \/ /\ f \in Presentes(sous) /\ table[f].statut = "expire"
                             /\ table[f].plan = sous[f].plan /\ FinBornee(table, f),
           courses' = {} => \A f \in Ids : table[f].statut # "actif",
           etape'[s] = "reconciliee" => demande'[s].op = "ajouter" /\ plan = Gratuit
    PROVE  AbonnementsInv'
<1> USE DEF AbonnementsInv
<1>1. SansCroisement' => SansCroisement
    BY SansRetard
<1>2. UNCHANGED <<prolongations, offre>>
    OBVIOUS
<1>3. /\ sous' \in [Ids -> Lignes] /\ Table' /\ Periode'
      /\ Actives(sous') # {}
      /\ Presentes(sous) \subseteq Presentes(sous')
      /\ \A f \in Presentes(sous) :
            ~Courante(f)' /\ (Ouverte(f)' => Ouverte(f) /\ sous'[f] = sous[f])
    BY <1>1, <1>2, Insertion
<1>4. PICK n \in Ids : /\ Courante(n) /\ n + 1 \in Ids /\ Courante(n + 1)'
                       /\ sous'[n + 1] = Nouvelle(plan, j)
                       /\ \A f \in Ids \ {n + 1} : sous'[f] = table[f]
    BY <1>1, <1>2, Insertion
<1>5. courses' = {} => Actives(sous') \subseteq {n + 1}
    BY <1>4 DEF Actives
<1>6. Ordre'
  <2>1. \A m \in Ids : Courante(m)' => m = n + 1
      BY <1>4, Rangs DEF Courante
  <2>2. sous'[n + 1].statut = "actif"
      BY <1>4, LigneNouvelle
  <2> QED
      BY <1>5, <2>1, <2>2 DEF Ordre
<1>7. EnServiceSansCourse'
    BY <1>3 DEF EnServiceSansCourse, EnServiceAbonnee
<1>8. etape'[s] = "reconciliee" =>
         /\ demande'[s].op = "ajouter"
         /\ courses' = {} =>
               \A f \in Actives(sous') : sous'[f].plan = Gratuit /\ sous'[f].fin = Aucun
    BY <1>4, <1>5, LigneNouvelle
<1>9. EffectifFini'
    BY DEF EffectifFini
<1>10. /\ prolongations' \in [Ids -> 0..MaxProlongations]
       /\ \A f \in Ids : prolongations[f] <= prolongations'[f]
       /\ comptes' \in [Utilisateurs -> {"hors", "actif", "inactif"}]
    BY Parametres DEF TypeOK
<1>11. marque \in Marques /\ marque # "effectif"
    BY DEF Marques
<1>12. \/ marque = "acces"
       \/ /\ service' = service
          /\ Actives(sous) # {} => Actives(sous') # {}
          /\ \A f \in Presentes(sous) :
                Courante(f)' => Courante(f) /\ sous'[f].statut = sous[f].statut
    BY <1>3
<1>13. \A f \in Presentes(sous) : Ouverte(f)' => Ouverte(f) /\ sous'[f].fin = sous[f].fin
    BY <1>3
<1> QED
    BY <1>3, <1>6, <1>7, <1>8, <1>9, <1>10, <1>11, <1>12, <1>13, CommitInv DEF cadre

-----------------------------------------------------------------------------
(* Changes of plan and reconciliations *)

LEMMA LectureTypee ==
    ASSUME TypeOK, NEW s \in Sessions
    PROVE  /\ lu[s] \in Lectures /\ lu[s].sous \in [Ids -> Lignes] /\ lu[s].jour \in Jours
           /\ lu[s].service \in BOOLEAN /\ lu[s].offre \subseteq Plans
           /\ lu[s].comptes \in [Utilisateurs -> {"hors", "actif", "inactif"}]
           /\ \A f \in Ids : lu[s].sous[f].fin \in Echeances \cup {Aucun}
           /\ demande[s] \in Demandes
BY DEF TypeOK, Lectures, Lignes

\* A row that a reader closes.
LEMMA Cloture ==
    ASSUME AbonnementsInv, NEW s \in Sessions, etape[s] = "lue",
           NEW f \in Actives(lu[s].sous),
           NEW fin, fin = lu[s].sous[f].fin \/ fin = lu[s].jour
    PROVE  /\ f \in Ids /\ f \in Presentes(sous)
           /\ Fermee(lu[s], f, fin) \in Lignes
           /\ Fermee(lu[s], f, fin).statut = "expire"
           /\ Fermee(lu[s], f, fin).plan = sous[f].plan
           /\ Fermee(lu[s], f, fin).fin # Aucun =>
                 Fermee(lu[s], f, fin).fin.mois <= DernierJour.mois + 1 + prolongations[f]
<1> USE DEF AbonnementsInv
<1>1. f \in Ids /\ lu[s].sous[f].statut = "actif"
    BY DEF Actives
<1>2. f \in Presentes(sous)
    BY <1>1 DEF Lecture, LectureDe, Presentes
<1>3. /\ lu[s] \in Lectures /\ lu[s].jour \in Jours
      /\ fin \in Echeances \cup {Aucun}
    BY <1>1, LectureTypee, JourEcheance
<1>4. /\ Fermee(lu[s], f, fin) \in Lignes
      /\ Fermee(lu[s], f, fin).statut = "expire"
      /\ Fermee(lu[s], f, fin).plan = sous[f].plan
      /\ Fermee(lu[s], f, fin).fin \in {sous[f].fin, fin}
      /\ fin = lu[s].sous[f].fin => Fermee(lu[s], f, fin).fin = sous[f].fin
    BY <1>1, <1>3, LigneFermee
<1>5. prolongations[f] \in Nat
    BY <1>1, Parametres DEF TypeOK
<1>6. lu[s].jour.mois <= DernierJour.mois + 1 + prolongations[f]
    BY <1>3, <1>5, JourEcheance, Parametres
<1>7. FinBornee(sous, f)
    BY <1>1 DEF Table
<1> QED
    BY <1>1, <1>2, <1>4, <1>6, <1>7 DEF FinBornee

LEMMA ChangerInv ==
    ASSUME AbonnementsInv, NEW s \in Sessions, Changer(s)
    PROVE  /\ AbonnementsInv'
           /\ courses' = {} => \A f \in Ids :
                 sous[f].statut \in {"expire", "annule"} => sous'[f] = sous[f]
<1> USE DEF AbonnementsInv
<1> DEFINE l == lu[s]
           table == FermerActives(l)
           plan == demande[s].plan
<1>1. /\ etape[s] = "lue" /\ Souscrire(table, plan, l.jour)
      /\ Committer(s, "souscription") /\ Clore(s)
      /\ UNCHANGED <<service, comptes, offre, cadre, prolongations>>
    BY DEF Changer, EnCours
<1>2. l \in Lectures /\ l.sous \in [Ids -> Lignes] /\ l.jour \in Jours
    BY LectureTypee
<1>3. plan \in Plans
    BY <1>1 DEF Souscrire, TypeOK
<1>4. \A f \in Ids : f \in Actives(l.sous) <=> l.sous[f].statut = "actif"
    BY DEF Actives
<1>5. \A f \in Ids : f \in Actives(l.sous) => f \in Presentes(l.sous)
    BY <1>4 DEF Presentes
<1>6. \A f \in Ids : table[f] = IF f \in Actives(l.sous) THEN Fermee(l, f, l.jour) ELSE sous[f]
    BY <1>5 DEF FermerActives
<1>7. \A f \in Ids : \/ table[f] = sous[f]
                     \/ /\ f \in Presentes(sous) /\ table[f].statut = "expire"
                        /\ table[f].plan = sous[f].plan /\ FinBornee(table, f)
    BY <1>1, <1>6, Cloture DEF FinBornee
<1>8. table \in [Ids -> Lignes]
  <2>1. \A f \in Ids : table[f] \in Lignes
      BY <1>1, <1>6, Cloture DEF TypeOK
  <2>2. table = [f \in Ids |-> table[f]]
      BY DEF FermerActives
  <2> HIDE DEF table
  <2> QED
      BY <2>1, <2>2
<1>9. courses' = {} => courses = {} /\ l.sous = sous
    BY <1>1, SansRetard DEF Lecture, LectureDe
<1>10. courses' = {} => \A f \in Ids : table[f].statut # "actif"
    BY <1>1, <1>4, <1>6, <1>9, Cloture
<1>11. Signale(s, "souscription") /\ TypesRequetes' /\ etape'[s] = "libre"
    BY <1>1, SessionClose DEF Committer, Marques
<1>12. AbonnementsInv'
  <2>1. service' \in BOOLEAN
      BY <1>1 DEF TypeOK
  <2> HIDE DEF table, plan, l
  <2> QED
      BY <1>1, <1>2, <1>3, <1>7, <1>8, <1>10, <1>11, <2>1, SouscriptionInv
<1>13. ASSUME courses' = {}, NEW f \in Ids, sous[f].statut \in {"expire", "annule"}
       PROVE  sous'[f] = sous[f]
  <2>1. table[f] = sous[f]
      BY <1>4, <1>6, <1>9, <1>13
  <2>2. f # Suivante(sous)
    <3>1. PICK n \in Ids : Presentes(sous) = 1..n
        BY DEF Table
    <3>2. f \in Presentes(sous)
        BY <1>13 DEF Presentes
    <3> QED
        BY <3>1, <3>2, Rangs, Parametres DEF Ids
  <2> QED
      BY <1>1, <1>8, <2>1, <2>2 DEF Souscrire
<1> QED
    BY <1>12, <1>13


LEMMA ReconcilierInv ==
    ASSUME AbonnementsInv, NEW s \in Sessions, Reconcilier(s)
    PROVE  /\ AbonnementsInv'
           /\ courses' = {} => \A f \in Ids :
                 sous[f].statut \in {"expire", "annule"} => sous'[f] = sous[f]
<1> USE DEF AbonnementsInv
<1> DEFINE l == lu[s]
           a == SouscriptionActive(l.sous)
           table == [sous EXCEPT ![a] = Fermee(l, a, l.sous[a].fin)]
<1>1. /\ etape[s] = "lue" /\ ReconcilierDue(l.sous, l.jour)
      /\ Souscrire(table, Gratuit, l.jour) /\ Committer(s, "souscription")
      /\ demande[s].op = "ajouter" =>
            /\ etape' = [etape EXCEPT ![s] = "reconciliee"]
            /\ lu' = [lu EXCEPT ![s].sous = SansLecture.sous]
            /\ UNCHANGED demande
      /\ demande[s].op # "ajouter" => Clore(s)
      /\ UNCHANGED <<service, comptes, offre, cadre, prolongations>>
    BY DEF Reconcilier
<1>2. l \in Lectures /\ l.sous \in [Ids -> Lignes] /\ l.jour \in Jours
    BY LectureTypee
<1>3. a \in Actives(l.sous) /\ a \in Ids
    BY <1>1, <1>2, ActiveChoisie DEF ReconcilierDue, Actives
<1>4. /\ a \in Presentes(sous)
      /\ Fermee(l, a, l.sous[a].fin) \in Lignes
      /\ Fermee(l, a, l.sous[a].fin).statut = "expire"
      /\ Fermee(l, a, l.sous[a].fin).plan = sous[a].plan
      /\ Fermee(l, a, l.sous[a].fin).fin # Aucun =>
            Fermee(l, a, l.sous[a].fin).fin.mois <= DernierJour.mois + 1 + prolongations[a]
  <2> HIDE DEF a
  <2> QED
      BY <1>1, <1>3, Cloture
<1>5. /\ table \in [Ids -> Lignes] /\ table[a] = Fermee(l, a, l.sous[a].fin)
      /\ \A f \in Ids \ {a} : table[f] = sous[f]
    BY <1>3, <1>4 DEF TypeOK
<1>6. \A f \in Ids : \/ table[f] = sous[f]
                     \/ /\ f \in Presentes(sous) /\ table[f].statut = "expire"
                        /\ table[f].plan = sous[f].plan /\ FinBornee(table, f)
    BY <1>4, <1>5 DEF FinBornee
<1>7. courses' = {} => courses = {} /\ l.sous = sous
    BY <1>1, SansRetard DEF Lecture, LectureDe
<1>8. courses' = {} => Actives(sous) = {a}
  <2>1. PICK n \in Ids : Courante(n)
      BY DEF Table, Courante
  <2> QED
      BY <1>3, <1>7, <2>1 DEF Ordre
<1>9. courses' = {} => \A f \in Ids : table[f].statut # "actif"
    BY <1>4, <1>5, <1>8 DEF Actives
<1>10. /\ Signale(s, "souscription") /\ TypesRequetes'
       /\ etape'[s] = "reconciliee" => demande'[s].op = "ajouter"
  <2>1. CASE demande[s].op = "ajouter"
      BY <1>1, <2>1, SessionReconciliee DEF Committer, Marques
  <2>2. CASE demande[s].op # "ajouter"
      BY <1>1, <2>2, SessionClose DEF Committer, Marques
  <2> QED
      BY <2>1, <2>2
<1>11. AbonnementsInv'
  <2>1. service' \in BOOLEAN /\ Gratuit \in Plans
      BY <1>1, HypPlans DEF TypeOK
  <2> HIDE DEF table, a, l
  <2> QED
      BY <1>1, <1>2, <1>5, <1>6, <1>9, <1>10, <2>1, SouscriptionInv
<1>12. ASSUME courses' = {}, NEW f \in Ids, sous[f].statut \in {"expire", "annule"}
       PROVE  sous'[f] = sous[f]
  <2>1. table[f] = sous[f]
      BY <1>5, <1>8, <1>12 DEF Actives
  <2>2. f # Suivante(sous)
    <3>1. PICK n \in Ids : Presentes(sous) = 1..n
        BY DEF Table
    <3>2. f \in Presentes(sous)
        BY <1>12 DEF Presentes
    <3> QED
        BY <3>1, <3>2, Rangs, Parametres DEF Ids
  <2> HIDE DEF table
  <2> QED
      BY <1>1, <1>5, <2>1, <2>2 DEF Souscrire
<1> QED
    BY <1>11, <1>12

-----------------------------------------------------------------------------
(* Decisions on the access *)

\* The status of one subscription changes, and nothing but its end with it.
LEMMA StatutInv ==
    ASSUME AbonnementsInv, NEW s \in Sessions, NEW f \in Ids, f \in Presentes(sous),
           NEW statut \in {"actif", "suspendu", "annule"},
           NEW fin \in Echeances \cup {Aucun}, FinBornee(sous, f)',
           sous' \in [Ids -> Lignes], \A g \in Ids \ {f} : sous'[g] = sous[g],
           sous'[f].statut = statut, sous'[f].plan = sous[f].plan,
           sous'[f].debut = sous[f].debut, sous'[f].fin = fin,
           statut # "annule" => fin = sous[f].fin,
           UNCHANGED <<prolongations, offre, comptes, cadre>>,
           Committer(s, "acces"), Clore(s),
           service' \in BOOLEAN, EnServiceSansCourse',
           courses' = {} => Courante(f),
           SansCroisement' => (Ouverte(f)' => Ouverte(f))
    PROVE  AbonnementsInv'
<1> USE DEF AbonnementsInv
<1>1. Presentes(sous') = Presentes(sous)
    BY DEF Presentes
<1>2. \A g \in Ids : Courante(g)' <=> Courante(g)
    BY <1>1 DEF Courante
<1>3. \A g \in Ids \ {f} : Ouverte(g)' <=> Ouverte(g)
    BY <1>2 DEF Ouverte
<1>4. Table'
  <2>1. \A g \in Ids : sous'[g].plan = sous[g].plan
      OBVIOUS
  <2>2. \A g \in Presentes(sous') : sous'[g].plan \in Plans
      BY <1>1, <2>1 DEF Table, Presentes
  <2>3. \A g \in Ids \ {f} : FinBornee(sous, g)'
      BY DEF Table, FinBornee
  <2> QED
      BY <1>1, <2>1, <2>2, <2>3, Parametres DEF Table
<1>5. courses' = {} => courses = {}
    BY SansRetard
<1>6. Ordre'
  <2> SUFFICES ASSUME courses' = {}, NEW n \in Ids, Courante(n)'
               PROVE  Actives(sous') \subseteq {n} /\ sous'[n].statut # "expire"
      BY DEF Ordre
  <2>1. Courante(n) /\ n = f
      BY <1>2, Rangs DEF Courante
  <2>2. Actives(sous) \subseteq {f}
      BY <1>5, <2>1 DEF Ordre
  <2> QED
      BY <2>1, <2>2 DEF Actives
<1>7. SansCroisement' => SansCroisement
    BY SansRetard
<1>8. SansCroisement' => \A g \in Ids :
          Ouverte(g)' => Ouverte(g) /\ sous'[g].fin = sous[g].fin
  <2>1. Ouverte(f)' => sous'[f].fin = sous[f].fin
      BY DEF Ouverte
  <2> QED
      BY <1>3, <2>1
<1>9. Periode'
  <2> SUFFICES ASSUME SansCroisement', NEW g \in Ids, Ouverte(g)', sous'[g].fin # Aucun
               PROVE  /\ sous'[g].fin.mois = MoisPayes(g)'
                      /\ sous'[g].fin.jour \in JoursPossibles(g)'
                      /\ \A x \in JoursPossibles(g)' : sous'[g].fin.jour <= x
      BY DEF Periode
  <2>1. Ouverte(g) /\ sous'[g].fin = sous[g].fin /\ sous'[g].debut = sous[g].debut
      BY <1>8
  <2>2. MoisPayes(g)' = MoisPayes(g)
      BY <2>1 DEF MoisPayes
  <2>3. JoursPossibles(g)' = JoursPossibles(g)
      BY <2>1, <2>2 DEF JoursPossibles
  <2> QED
      BY <1>7, <2>1, <2>2, <2>3 DEF Periode
<1>10. Signale(s, "acces") /\ TypesRequetes' /\ etape'[s] = "libre"
    BY SessionClose DEF Committer, Marques
<1>11. EffectifFini'
    BY DEF EffectifFini
<1>12. /\ prolongations' \in [Ids -> 0..MaxProlongations]
       /\ \A g \in Ids : prolongations[g] <= prolongations'[g]
       /\ comptes' \in [Utilisateurs -> {"hors", "actif", "inactif"}]
    BY Parametres DEF TypeOK
<1>13. \A g \in Presentes(sous) : g \in Ids
    BY DEF Presentes
<1>14. "acces" \in Marques
    BY DEF Marques
<1> QED
    BY <1>1, <1>4, <1>6, <1>8, <1>9, <1>10, <1>11, <1>12, <1>13, <1>14, CommitInv DEF cadre

\* The same, when no subscription is written.
LEMMA AccesSeulInv ==
    ASSUME AbonnementsInv, NEW s \in Sessions,
           UNCHANGED <<sous, prolongations, offre, comptes, cadre>>,
           Committer(s, "acces"), Clore(s),
           service' \in BOOLEAN, EnServiceSansCourse'
    PROVE  AbonnementsInv'
<1> USE DEF AbonnementsInv
<1>1. courses' = {} => courses = {}
    BY SansRetard
<1>2. SansCroisement' => SansCroisement
    BY SansRetard
<1>3. Table' /\ Ordre' /\ EffectifFini' /\ Periode'
  <2>1. Table'
      BY DEF Table, FinBornee
  <2>2. Ordre'
      BY <1>1 DEF Ordre, Courante
  <2>3. Periode'
      BY <1>2 DEF Periode, Ouverte, Courante, MoisPayes, JoursPossibles
  <2>4. EffectifFini'
      BY DEF EffectifFini
  <2> QED
      BY <2>1, <2>2, <2>3, <2>4
<1>4. Signale(s, "acces") /\ TypesRequetes' /\ etape'[s] = "libre"
    BY SessionClose DEF Committer, Marques
<1>5. /\ prolongations' \in [Ids -> 0..MaxProlongations]
      /\ \A g \in Ids : prolongations[g] <= prolongations'[g]
      /\ comptes' \in [Utilisateurs -> {"hors", "actif", "inactif"}]
      /\ sous' \in [Ids -> Lignes]
    BY Parametres DEF TypeOK
<1>6. \A f \in Presentes(sous) : Ouverte(f)' => Ouverte(f) /\ sous'[f].fin = sous[f].fin
    BY DEF Ouverte, Courante
<1>7. "acces" \in Marques /\ Presentes(sous) \subseteq Presentes(sous')
    BY DEF Marques
<1> QED
    BY <1>3, <1>4, <1>5, <1>6, <1>7, CommitInv DEF cadre


\* The subscription a decision on the access is about.
LEMMA CouranteLue ==
    ASSUME AbonnementsInv, NEW s \in Sessions, etape[s] = "lue"
    PROVE  LET f == SouscriptionCourante(lu[s].sous)
           IN /\ f \in Ids /\ f \in Presentes(lu[s].sous) /\ f \in Presentes(sous)
              /\ lu[s].sous = sous => Courante(f)
              /\ sous[f] \in Lignes
<1> USE DEF AbonnementsInv
<1> DEFINE f == SouscriptionCourante(lu[s].sous)
<1>1. PICK n \in Ids : Presentes(lu[s].sous) = 1..n
    BY DEF Lecture, LectureDe
<1>2. f = n /\ n \in 1..n
    BY <1>1, Rangs, Parametres DEF Ids
<1>3. f \in Presentes(sous)
    BY <1>1, <1>2 DEF Lecture, LectureDe
<1>4. sous[f] \in Lignes
    BY <1>1, <1>2 DEF TypeOK
<1> HIDE DEF f
<1>5. f \in Ids /\ f \in Presentes(lu[s].sous) /\ (lu[s].sous = sous => Courante(f))
    BY <1>1, <1>2 DEF Courante
<1> QED
    BY <1>3, <1>4, <1>5 DEF f

LEMMA SuspendreInv ==
    ASSUME AbonnementsInv, NEW s \in Sessions, Suspendre(s)
    PROVE  /\ AbonnementsInv'
           /\ courses' = {} => \A f \in Ids :
                 sous[f].statut \in {"expire", "annule"} => sous'[f] = sous[f]
<1> USE DEF AbonnementsInv
<1> DEFINE l == lu[s]
<1>a. etape[s] = "lue" /\ demande[s].op = "suspendre"
    BY DEF Suspendre, EnCours
<1>b. PICK f \in Ids : f = SouscriptionCourante(l.sous)
    BY <1>a, CouranteLue
<1>1. /\ etape[s] = "lue" /\ demande[s].op = "suspendre"
      /\ service' = Ecrire(l.service, FALSE, service)
      /\ sous' = IF l.sous[f].statut = "actif"
                 THEN [sous EXCEPT ![f].statut = "suspendu"] ELSE sous
      /\ Committer(s, "acces") /\ Clore(s)
      /\ UNCHANGED <<comptes, offre, cadre, prolongations>>
    BY <1>b DEF Suspendre, EnCours
<1>2. /\ f \in Ids /\ f \in Presentes(l.sous) /\ f \in Presentes(sous)
      /\ l.sous = sous => Courante(f)
      /\ sous[f] \in Lignes
    BY <1>1, <1>b, CouranteLue
<1>3. service' \in BOOLEAN /\ EnServiceSansCourse'
  <2>1. service' \in BOOLEAN
      BY <1>1 DEF TypeOK, Ecrire
  <2>2. "acces" \notin courses' => l.service = service
      BY <1>1, SansRetard DEF Acces, AccesDe
  <2> QED
      BY <1>1, <2>1, <2>2 DEF EnServiceSansCourse, EnServiceAbonnee, Ecrire
<1>4. CASE l.sous[f].statut = "actif"
  <2>1. sous' = [sous EXCEPT ![f] = [sous[f] EXCEPT !.statut = "suspendu"]]
      BY <1>1, <1>2, <1>4 DEF TypeOK
  <2>2. /\ [sous[f] EXCEPT !.statut = "suspendu"] \in Lignes
        /\ [sous[f] EXCEPT !.statut = "suspendu"].statut = "suspendu"
        /\ [sous[f] EXCEPT !.statut = "suspendu"].plan = sous[f].plan
        /\ [sous[f] EXCEPT !.statut = "suspendu"].debut = sous[f].debut
        /\ [sous[f] EXCEPT !.statut = "suspendu"].fin = sous[f].fin
      BY <1>2, LigneStatut DEF EtatsLigne
  <2>3. /\ sous' \in [Ids -> Lignes] /\ \A g \in Ids \ {f} : sous'[g] = sous[g]
        /\ sous'[f].statut = "suspendu" /\ sous'[f].plan = sous[f].plan
        /\ sous'[f].debut = sous[f].debut /\ sous'[f].fin = sous[f].fin
      BY <1>2, <2>1, <2>2 DEF TypeOK
  <2>4. FinBornee(sous, f)'
      BY <1>1, <1>2, <2>3 DEF Table, FinBornee
  <2>5. courses' = {} => l.sous = sous
      BY <1>1, SansRetard DEF Lecture, LectureDe
  <2>6. SansCroisement' => (Ouverte(f)' => Ouverte(f))
    <3>1. SansCroisement' => "acces" \notin vus[s]
        BY <1>1, SansRetard
    <3>2. Courante(f)' => Courante(f)
      <4>1. Presentes(sous') = Presentes(sous)
          BY <1>2, <2>3 DEF Presentes
      <4> QED
          BY <4>1 DEF Courante
    <3>3. "acces" \notin vus[s] /\ Courante(f) => sous[f].statut = "actif"
        BY <1>1, <1>2, <1>4 DEF Acces, AccesDe
    <3> QED
        BY <2>3, <3>1, <3>2, <3>3 DEF Ouverte
  <2>7. sous[f].fin \in Echeances \cup {Aucun}
      BY <1>2 DEF Lignes
  <2>8. AbonnementsInv'
      BY <1>1, <1>2, <1>3, <2>3, <2>4, <2>5, <2>6, <2>7, StatutInv DEF cadre
  <2>9. courses' = {} => \A g \in Ids :
            sous[g].statut \in {"expire", "annule"} => sous'[g] = sous[g]
      BY <1>4, <2>3, <2>5
  <2> QED
      BY <2>8, <2>9
<1>5. CASE l.sous[f].statut # "actif"
    BY <1>1, <1>3, <1>5, AccesSeulInv DEF cadre
<1> QED
    BY <1>4, <1>5

LEMMA ResilierInv ==
    ASSUME AbonnementsInv, NEW s \in Sessions, Resilier(s)
    PROVE  /\ AbonnementsInv'
           /\ courses' = {} => \A f \in Ids :
                 sous[f].statut \in {"expire", "annule"} => sous'[f] = sous[f]
<1> USE DEF AbonnementsInv
<1> DEFINE l == lu[s]
<1>a. etape[s] = "lue" /\ demande[s].op = "resilier"
    BY DEF Resilier, EnCours
<1>b. PICK f \in Ids : f = SouscriptionCourante(l.sous)
    BY <1>a, CouranteLue
<1>1. /\ etape[s] = "lue" /\ demande[s].op = "resilier"
      /\ service' = Ecrire(l.service, FALSE, service)
      /\ sous' = [sous EXCEPT ![f].statut = "annule",
                              ![f].fin = Ecrire(l.sous[f].fin, l.jour, @)]
      /\ Committer(s, "acces") /\ Clore(s)
      /\ UNCHANGED <<comptes, offre, cadre, prolongations>>
    BY <1>b DEF Resilier, EnCours
<1>2. /\ f \in Ids /\ f \in Presentes(l.sous) /\ f \in Presentes(sous)
      /\ l.sous = sous => Courante(f)
      /\ sous[f] \in Lignes
    BY <1>1, <1>b, CouranteLue
<1>3. l.sous[f].statut # "annule"
    BY <1>1, <1>b DEF Lecture, LectureDe, RefusResilier
<1>4. service' \in BOOLEAN /\ EnServiceSansCourse'
  <2>1. service' \in BOOLEAN
      BY <1>1 DEF TypeOK, Ecrire
  <2>2. "acces" \notin courses' => l.service = service
      BY <1>1, SansRetard DEF Acces, AccesDe
  <2> QED
      BY <1>1, <2>1, <2>2 DEF EnServiceSansCourse, EnServiceAbonnee, Ecrire
<1>c. PICK fin : fin = Ecrire(l.sous[f].fin, l.jour, sous[f].fin)
    OBVIOUS
<1>5. fin \in Echeances \cup {Aucun} /\ fin \in {sous[f].fin, l.jour} /\ l.jour \in Jours
  <2>1. l.jour \in Jours /\ l.jour \in Echeances
      BY LectureTypee, JourEcheance
  <2> QED
      BY <1>2, <1>c, <2>1 DEF Ecrire, Lignes
<1>6. sous' = [sous EXCEPT ![f] = [sous[f] EXCEPT !.statut = "annule", !.fin = fin]]
    BY <1>1, <1>2, <1>c DEF TypeOK, Lignes
<1>7. /\ sous' \in [Ids -> Lignes] /\ \A g \in Ids \ {f} : sous'[g] = sous[g]
      /\ sous'[f].statut = "annule" /\ sous'[f].plan = sous[f].plan
      /\ sous'[f].debut = sous[f].debut /\ sous'[f].fin = fin
  <2>1. /\ [sous[f] EXCEPT !.statut = "annule", !.fin = fin] \in Lignes
        /\ [sous[f] EXCEPT !.statut = "annule", !.fin = fin].statut = "annule"
        /\ [sous[f] EXCEPT !.statut = "annule", !.fin = fin].plan = sous[f].plan
        /\ [sous[f] EXCEPT !.statut = "annule", !.fin = fin].debut = sous[f].debut
        /\ [sous[f] EXCEPT !.statut = "annule", !.fin = fin].fin = fin
      BY <1>2, <1>5 DEF Lignes
  <2> QED
      BY <1>2, <1>6, <2>1 DEF TypeOK
<1>8. FinBornee(sous, f)'
  <2>1. prolongations[f] \in Nat
      BY <1>2, Parametres DEF TypeOK
  <2>2. l.jour.mois <= DernierJour.mois + 1 + prolongations[f]
      BY <1>5, <2>1, JourEcheance, Parametres
  <2>3. FinBornee(sous, f)
      BY <1>2 DEF Table
  <2> QED
      BY <1>1, <1>5, <1>7, <2>2, <2>3 DEF FinBornee
<1>9. courses' = {} => courses = {} /\ l.sous = sous
    BY <1>1, SansRetard DEF Lecture, LectureDe
<1>10. ~Ouverte(f)'
    BY <1>7 DEF Ouverte
<1>11. AbonnementsInv'
    BY <1>1, <1>2, <1>4, <1>5, <1>7, <1>8, <1>9, <1>10, StatutInv DEF cadre
<1>12. courses' = {} => sous[f].statut \notin {"expire", "annule"}
    BY <1>2, <1>3, <1>9 DEF Ordre
<1> QED
    BY <1>7, <1>11, <1>12

LEMMA ReactiverInv ==
    ASSUME AbonnementsInv, NEW s \in Sessions, Reactiver(s)
    PROVE  /\ AbonnementsInv'
           /\ courses' = {} => \A f \in Ids :
                 sous[f].statut \in {"expire", "annule"} => sous'[f] = sous[f]
<1> USE DEF AbonnementsInv
<1> DEFINE l == lu[s]
<1>a. etape[s] = "lue" /\ demande[s].op = "reactiver"
    BY DEF Reactiver, EnCours
<1>b. PICK f \in Ids : f = SouscriptionCourante(l.sous)
    BY <1>a, CouranteLue
<1>1. /\ etape[s] = "lue" /\ demande[s].op = "reactiver"
      /\ service' = Ecrire(l.service, TRUE, service)
      /\ IF Rouvre(l.sous[f].statut)
         THEN Gratuit \in l.offre /\ Souscrire(sous, Gratuit, l.jour)
         ELSE sous' = IF l.sous[f].statut = "suspendu"
                      THEN [sous EXCEPT ![f].statut = "actif"] ELSE sous
      /\ Committer(s, "acces") /\ Clore(s)
      /\ UNCHANGED <<comptes, offre, cadre, prolongations>>
    BY <1>b DEF Reactiver, EnCours
<1>2. /\ f \in Ids /\ f \in Presentes(l.sous) /\ f \in Presentes(sous)
      /\ l.sous = sous => Courante(f)
      /\ sous[f] \in Lignes
    BY <1>1, <1>b, CouranteLue
<1>3. service' \in BOOLEAN
    BY <1>1 DEF TypeOK, Ecrire
<1>4. courses' = {} => courses = {} /\ l.sous = sous
    BY <1>1, SansRetard DEF Lecture, LectureDe
<1>5. CASE Rouvre(l.sous[f].statut)
  <2>1. Souscrire(sous, Gratuit, l.jour) /\ l.jour \in Jours /\ Gratuit \in Plans
        /\ sous \in [Ids -> Lignes]
      BY <1>1, <1>5, LectureTypee, HypPlans DEF TypeOK
  <2>2. courses' = {} => \A g \in Ids : sous[g].statut # "actif"
      BY <1>2, <1>4, <1>5 DEF Ordre, Rouvre, Actives
  <2>3. Signale(s, "acces") /\ TypesRequetes' /\ etape'[s] = "libre"
      BY <1>1, SessionClose DEF Committer, Marques
  <2>4. AbonnementsInv'
      BY <1>1, <1>3, <2>1, <2>2, <2>3, SouscriptionInv DEF cadre
  <2>5. ASSUME NEW g \in Ids, sous[g].statut \in {"expire", "annule"}
        PROVE  sous'[g] = sous[g]
    <3>1. PICK n \in Ids : Presentes(sous) = 1..n
        BY DEF Table
    <3>2. g \in Presentes(sous)
        BY <2>5 DEF Presentes
    <3>3. g # Suivante(sous)
        BY <3>1, <3>2, Rangs, Parametres DEF Ids
    <3> QED
        BY <2>1, <3>3 DEF Souscrire
  <2> QED
      BY <2>4, <2>5
<1>6. CASE l.sous[f].statut = "suspendu"
  <2>1. sous' = [sous EXCEPT ![f] = [sous[f] EXCEPT !.statut = "actif"]]
      BY <1>1, <1>2, <1>6 DEF TypeOK, Rouvre
  <2>2. /\ [sous[f] EXCEPT !.statut = "actif"] \in Lignes
        /\ [sous[f] EXCEPT !.statut = "actif"].statut = "actif"
        /\ [sous[f] EXCEPT !.statut = "actif"].plan = sous[f].plan
        /\ [sous[f] EXCEPT !.statut = "actif"].debut = sous[f].debut
        /\ [sous[f] EXCEPT !.statut = "actif"].fin = sous[f].fin
      BY <1>2, LigneStatut DEF EtatsLigne
  <2>3. /\ sous' \in [Ids -> Lignes] /\ \A g \in Ids \ {f} : sous'[g] = sous[g]
        /\ sous'[f].statut = "actif" /\ sous'[f].plan = sous[f].plan
        /\ sous'[f].debut = sous[f].debut /\ sous'[f].fin = sous[f].fin
      BY <1>2, <2>1, <2>2 DEF TypeOK
  <2>4. FinBornee(sous, f)'
      BY <1>1, <1>2, <2>3 DEF Table, FinBornee
  <2>5. SansCroisement' => (Ouverte(f)' => Ouverte(f))
    <3>1. SansCroisement' => l.sous = sous
        BY <1>1, SansRetard DEF Lecture, LectureDe
    <3> QED
        BY <1>2, <1>6, <3>1 DEF Ouverte
  <2>6. EnServiceSansCourse'
    <3>1. f \in Actives(sous')
        BY <1>2, <2>3 DEF Actives
    <3> QED
        BY <3>1 DEF EnServiceSansCourse, EnServiceAbonnee
  <2>7. sous[f].fin \in Echeances \cup {Aucun}
      BY <1>2 DEF Lignes
  <2>8. AbonnementsInv'
      BY <1>1, <1>2, <1>3, <1>4, <2>3, <2>4, <2>5, <2>6, <2>7, StatutInv DEF cadre
  <2>9. courses' = {} => \A g \in Ids :
            sous[g].statut \in {"expire", "annule"} => sous'[g] = sous[g]
      BY <1>4, <1>6, <2>3
  <2> QED
      BY <2>8, <2>9
<1>7. CASE ~Rouvre(l.sous[f].statut) /\ l.sous[f].statut # "suspendu"
  <2>1. UNCHANGED sous
      BY <1>1, <1>7
  <2>2. f \in Actives(l.sous)
    <3>1. l.sous[f] \in Lignes /\ l.sous[f].statut # "absente"
        BY <1>2, LectureTypee DEF Presentes
    <3> QED
        BY <1>2, <1>7, <3>1 DEF Rouvre, Lignes, Actives
  <2>3. EnServiceSansCourse'
    <3>1. "acces" \notin courses' => Actives(sous) # {}
        BY <1>1, <2>2, SansRetard DEF Acces, AccesDe
    <3> QED
        BY <2>1, <3>1 DEF EnServiceSansCourse, EnServiceAbonnee
  <2>4. AbonnementsInv'
      BY <1>1, <1>3, <2>1, <2>3, AccesSeulInv DEF cadre
  <2> QED
      BY <2>1, <2>4
<1> QED
    BY <1>5, <1>6, <1>7


-----------------------------------------------------------------------------
(* Extensions and additions *)

LEMMA ProlongerInv ==
    ASSUME AbonnementsInv, NEW s \in Sessions, Prolonger(s)
    PROVE  /\ AbonnementsInv'
           /\ courses' = {} => \A f \in Ids :
                 sous[f].statut \in {"expire", "annule"} => sous'[f] = sous[f]
<1> USE DEF AbonnementsInv
<1> DEFINE l == lu[s]
<1>a. etape[s] = "lue" /\ demande[s].op = "prolonger"
    BY DEF Prolonger, EnCours
<1>b. /\ Actives(l.sous) # {} /\ l.sous \in [Ids -> Lignes]
      /\ l.sous[SouscriptionActive(l.sous)].fin # Aucun
    BY <1>a, LectureTypee DEF Lecture, LectureDe
<1>c. PICK f \in Ids : f = SouscriptionActive(l.sous) /\ f \in Actives(l.sous)
    BY <1>b, ActiveChoisie DEF Actives
<1>d. PICK fin : fin = UnMoisApres(l.sous[f].fin)
    OBVIOUS
<1>1. /\ prolongations[f] < MaxProlongations
      /\ sous' = [sous EXCEPT ![f].fin = fin]
      /\ prolongations' = [prolongations EXCEPT ![f] = @ + 1]
      /\ Committer(s, "prolongation") /\ Clore(s)
      /\ UNCHANGED <<service, comptes, offre, cadre>>
    BY <1>c, <1>d DEF Prolonger, EnCours, Prolongee
<1>2. f \in Presentes(sous) /\ sous[f] \in Lignes /\ prolongations[f] \in Nat
  <2>1. f \in Presentes(l.sous)
      BY <1>c DEF Actives, Presentes
  <2> QED
      BY <1>a, <2>1, Parametres DEF Lecture, LectureDe, TypeOK
<1>3. /\ l.sous[f].fin \in Echeances /\ l.sous[f].fin.mois \in Nat
      /\ l.sous[f].fin.mois <= DernierJour.mois + 1 + prolongations[f]
  <2>1. l.sous[f].fin \in Echeances
      BY <1>b, <1>c, LectureTypee
  <2>2. FinBornee(l.sous, f)
      BY <1>a DEF Lecture, LectureDe
  <2> QED
      BY <1>b, <1>c, <2>1, <2>2, EcheancesDef DEF FinBornee
<1>4. /\ fin \in Echeances /\ fin.mois = l.sous[f].fin.mois + 1
      /\ fin.jour \in {l.sous[f].fin.jour, Longueur(fin.mois)}
      /\ fin.jour <= l.sous[f].fin.jour /\ fin.jour <= Longueur(fin.mois)
  <2>1. l.sous[f].fin.mois <= DernierJour.mois + MaxProlongations
      BY <1>1, <1>2, <1>3, Parametres
  <2> QED
      BY <1>3, <1>d, <2>1, UnMoisType
<1>5. /\ sous' \in [Ids -> Lignes] /\ \A g \in Ids \ {f} : sous'[g] = sous[g]
      /\ sous'[f].statut = sous[f].statut /\ sous'[f].plan = sous[f].plan
      /\ sous'[f].debut = sous[f].debut /\ sous'[f].fin = fin
  <2>1. sous' = [sous EXCEPT ![f] = [sous[f] EXCEPT !.fin = fin]]
      BY <1>1 DEF TypeOK
  <2> QED
      BY <1>2, <1>4, <2>1, LigneFin DEF TypeOK
<1>6. /\ prolongations' \in [Ids -> 0..MaxProlongations]
      /\ prolongations'[f] = prolongations[f] + 1
      /\ \A g \in Ids \ {f} : prolongations'[g] = prolongations[g]
      /\ \A g \in Ids : prolongations[g] <= prolongations'[g]
    BY <1>1, <1>2, Parametres DEF TypeOK
<1>7. /\ Presentes(sous') = Presentes(sous) /\ Actives(sous') = Actives(sous)
      /\ \A g \in Ids : Courante(g)' <=> Courante(g)
      /\ \A g \in Ids : Ouverte(g)' <=> Ouverte(g)
      /\ \A g \in Ids : sous'[g].statut = sous[g].statut /\ sous'[g].plan = sous[g].plan
  <2>1. \A g \in Ids : sous'[g].statut = sous[g].statut /\ sous'[g].plan = sous[g].plan
      BY <1>5
  <2>2. Presentes(sous') = Presentes(sous) /\ Actives(sous') = Actives(sous)
      BY <2>1 DEF Presentes, Actives
  <2> QED
      BY <2>1, <2>2 DEF Courante, Ouverte
<1>8. Table'
  <2>1. \A g \in Presentes(sous) : g \in Ids
      BY DEF Presentes
  <2>2. \A g \in Ids \ {f} : FinBornee(sous, g)'
      BY <1>5, <1>6 DEF Table, FinBornee
  <2>3. fin.mois <= DernierJour.mois + 1 + (prolongations[f] + 1)
      BY <1>2, <1>3, <1>4, Parametres
  <2>4. FinBornee(sous, f)'
      BY <1>5, <1>6, <2>3 DEF FinBornee
  <2>5. \A g \in Ids \ Presentes(sous') : prolongations'[g] = 0
      BY <1>2, <1>6, <1>7 DEF Table
  <2> QED
      BY <1>7, <2>1, <2>2, <2>4, <2>5, Parametres DEF Table
<1>9. courses' = {} => courses = {} /\ l.sous = sous
    BY <1>a, <1>1, SansRetard DEF Lecture, LectureDe
<1>10. Ordre'
    BY <1>7, <1>9 DEF Ordre
<1>11. EnServiceSansCourse' /\ EffectifFini'
  <2>1. courses \subseteq courses'
      BY <1>1, SansRetard
  <2> QED
      BY <1>1, <1>7, <2>1 DEF EnServiceSansCourse, EnServiceAbonnee, EffectifFini
<1>12. Periode'
  <2> SUFFICES ASSUME SansCroisement', NEW g \in Ids, Ouverte(g)', sous'[g].fin # Aucun
               PROVE  /\ sous'[g].fin.mois = MoisPayes(g)'
                      /\ sous'[g].fin.jour \in JoursPossibles(g)'
                      /\ \A x \in JoursPossibles(g)' : sous'[g].fin.jour <= x
      BY DEF Periode
  <2>1. SansCroisement /\ "prolongation" \notin vus[s] /\ Ouverte(g)
      BY <1>a, <1>1, <1>7, SansRetard
  <2>2. CASE g # f
    <3>1. sous'[g] = sous[g] /\ prolongations'[g] = prolongations[g]
        BY <1>5, <1>6, <2>2
    <3>2. MoisPayes(g)' = MoisPayes(g) /\ JoursPossibles(g)' = JoursPossibles(g)
        BY <3>1 DEF MoisPayes, JoursPossibles
    <3> QED
        BY <2>1, <3>1, <3>2 DEF Periode
  <2>3. CASE g = f
    <3>1. sous[f].fin = l.sous[f].fin /\ sous[f].fin # Aucun
        BY <1>a, <1>b, <1>c, <2>1, <2>3 DEF Paiement, PaiementDe
    <3>2. /\ sous[f].fin.mois = MoisPayes(f)
          /\ sous[f].fin.jour \in JoursPossibles(f)
          /\ \A x \in JoursPossibles(f) : sous[f].fin.jour <= x
        BY <2>1, <2>3, <3>1 DEF Periode
    <3>3. sous[f].debut.mois \in Nat
        BY <1>2, JourEcheance DEF Lignes
    <3>4. MoisPayes(f)' = MoisPayes(f) + 1 /\ MoisPayes(f) \in Nat
          /\ sous[f].debut.mois + 1 <= MoisPayes(f)
        BY <1>2, <1>5, <1>6, <3>3 DEF MoisPayes
    <3>5. fin.mois = MoisPayes(f)'
        BY <1>4, <3>1, <3>2, <3>4
    <3>6. JoursPossibles(f)' = JoursPossibles(f) \cup {Longueur(fin.mois)}
      <4>1. \A m : m \in (sous[f].debut.mois + 1)..(MoisPayes(f) + 1)
                   <=> m \in (sous[f].debut.mois + 1)..MoisPayes(f) \/ m = MoisPayes(f) + 1
          BY <3>3, <3>4
      <4>2. MoisPayes(f)' = MoisPayes(f) + 1 /\ fin.mois = MoisPayes(f) + 1
          BY <3>4, <3>5
      <4> HIDE DEF MoisPayes
      <4>3. JoursPossibles(f)' =
              {sous[f].debut.jour}
              \cup {Longueur(m) : m \in (sous[f].debut.mois + 1)..(MoisPayes(f) + 1)}
          BY <1>5, <4>2 DEF JoursPossibles
      <4> QED
          BY <4>1, <4>2, <4>3 DEF JoursPossibles
    <3>7. \A x \in JoursPossibles(f) : x \in Nat
      <4>1. sous[f].debut.jour \in Nat
          BY <1>2, JourEcheance DEF Lignes
      <4>2. \A m \in (sous[f].debut.mois + 1)..MoisPayes(f) : m \in Nat
          BY <3>3, <3>4
      <4> QED
          BY <4>1, <4>2, LongueurType DEF JoursPossibles
    <3>8. fin.jour \in Nat
        BY <1>4, EcheancesDef
    <3>9. \A x \in JoursPossibles(f) : fin.jour <= x
      <4>1. sous[f].fin.jour \in Nat /\ fin.jour <= sous[f].fin.jour
          BY <1>4, <3>1, <3>2, <3>7
      <4> QED
          BY <3>2, <3>7, <3>8, <4>1
    <3>10. fin.jour \in JoursPossibles(f)'
        BY <1>4, <3>1, <3>2, <3>6
    <3> QED
        BY <1>4, <1>5, <2>3, <3>5, <3>6, <3>9, <3>10
  <2> QED
      BY <2>2, <2>3
<1>13. Signale(s, "prolongation") /\ TypesRequetes' /\ etape'[s] = "libre"
       /\ "prolongation" \in Marques
    BY <1>1, SessionClose DEF Committer, Marques
<1>14. AbonnementsInv'
  <2>1. \A g \in Presentes(sous) : g \in Ids
      BY DEF Presentes
  <2>2. service' \in BOOLEAN /\ service' = service
        /\ comptes' \in [Utilisateurs -> {"hors", "actif", "inactif"}]
      BY <1>1 DEF TypeOK
  <2>3. \A g \in Presentes(sous) :
            Courante(g)' => Courante(g) /\ sous'[g].statut = sous[g].statut
      BY <1>7, <2>1
  <2>4. Presentes(sous) \subseteq Presentes(sous') /\ (Actives(sous) # {} => Actives(sous') # {})
      BY <1>7
  <2> QED
      BY <1>1, <1>5, <1>6, <1>8, <1>10, <1>11, <1>12, <1>13, <2>2, <2>3, <2>4, CommitInv
      DEF cadre
<1>15. courses' = {} => sous[f].statut = "actif"
    BY <1>9, <1>c DEF Actives
<1> QED
    BY <1>5, <1>14, <1>15

\* One more user, at most.
LEMMA UnDePlus ==
    ASSUME TypeOK, EffectifFini, NEW u, NEW etat,
           comptes' = [comptes EXCEPT ![u] = etat]
    PROVE  /\ EffectifFini'
           /\ Cardinality(Actifs(comptes')) <= Cardinality(Actifs(comptes)) + 1
           /\ Cardinality(Actifs(comptes)) \in Nat
<1>1. Actifs(comptes') \subseteq Actifs(comptes) \cup {u}
    BY DEF TypeOK, Actifs
<1>2. /\ IsFiniteSet(Actifs(comptes) \cup {u})
      /\ Cardinality(Actifs(comptes) \cup {u})
            = IF u \in Actifs(comptes) THEN Cardinality(Actifs(comptes))
              ELSE Cardinality(Actifs(comptes)) + 1
    BY FS_AddElement DEF EffectifFini
<1>3. /\ IsFiniteSet(Actifs(comptes'))
      /\ Cardinality(Actifs(comptes')) <= Cardinality(Actifs(comptes) \cup {u})
    BY <1>1, <1>2, FS_Subset
<1>4. /\ Cardinality(Actifs(comptes)) \in Nat /\ Cardinality(Actifs(comptes')) \in Nat
      /\ Cardinality(Actifs(comptes) \cup {u}) \in Nat
    BY <1>2, <1>3, FS_CardinalityType DEF EffectifFini
<1> QED
    BY <1>2, <1>3, <1>4 DEF EffectifFini

LEMMA AjouterInv ==
    ASSUME AbonnementsInv, NEW s \in Sessions, Ajouter(s)
    PROVE  AbonnementsInv'
<1> USE DEF AbonnementsInv
<1>1. /\ comptes' = [comptes EXCEPT ![demande[s].membre] = "actif"]
      /\ Committer(s, "effectif") /\ Clore(s)
      /\ UNCHANGED <<sous, service, offre, cadre, prolongations>>
    BY DEF Ajouter
<1>2. comptes' \in [Utilisateurs -> {"hors", "actif", "inactif"}] /\ EffectifFini'
    BY <1>1, UnDePlus DEF TypeOK
<1>3. /\ courses \subseteq courses' /\ (courses' = {} => courses = {})
      /\ (SansCroisement' => SansCroisement)
    BY <1>1, SansRetard
<1>4. Signale(s, "effectif") /\ TypesRequetes' /\ etape'[s] = "libre" /\ "effectif" \in Marques
    BY <1>1, SessionClose DEF Committer, Marques
<1>5. Table' /\ Ordre' /\ Periode' /\ EnServiceSansCourse'
  <2>1. Table'
      BY <1>1 DEF Table, FinBornee
  <2>2. Ordre'
      BY <1>1, <1>3 DEF Ordre, Courante
  <2>3. Periode'
      BY <1>1, <1>3 DEF Periode, Ouverte, Courante, MoisPayes, JoursPossibles
  <2>4. EnServiceSansCourse'
      BY <1>1, <1>3 DEF EnServiceSansCourse, EnServiceAbonnee
  <2> QED
      BY <2>1, <2>2, <2>3, <2>4
<1>6. /\ prolongations' \in [Ids -> 0..MaxProlongations]
      /\ \A f \in Ids : prolongations[f] <= prolongations'[f]
      /\ service' \in BOOLEAN /\ sous' \in [Ids -> Lignes]
    BY <1>1, Parametres DEF TypeOK
<1>7. \A f \in Presentes(sous) :
         /\ Courante(f)' => Courante(f) /\ sous'[f].statut = sous[f].statut
         /\ Ouverte(f)' => Ouverte(f) /\ sous'[f].fin = sous[f].fin
    BY <1>1 DEF Ouverte, Courante
<1> QED
    BY <1>1, <1>2, <1>4, <1>5, <1>6, <1>7, CommitInv DEF cadre


-----------------------------------------------------------------------------
(* Steps that leave the tables alone *)

\* A step of one request that commits nothing.
LEMMA SansEcriture ==
    ASSUME AbonnementsInv, NEW s \in Sessions,
           UNCHANGED <<base, cadre, courses, prolongations>>, TypesRequetes',
           \A t \in Sessions \ {s} :
              /\ etape'[t] = etape[t] /\ demande'[t] = demande[t]
              /\ lu'[t] = lu[t] /\ vus'[t] = vus[t],
           etape'[s] = "libre" => vus'[s] = {},
           LectureDe(s)', AccesDe(s)', PaiementDe(s)', QuotaDe(s)'
    PROVE  AbonnementsInv'
<1> USE DEF AbonnementsInv, base, cadre
<1>1. TypeOK'
    BY DEF TypeOK, TypesRequetes
<1>2. Table' /\ RepliPossible' /\ EffectifFini' /\ Ordre' /\ EnServiceSansCourse'
    BY DEF Table, FinBornee, RepliPossible, EffectifFini, Ordre, Courante,
           EnServiceSansCourse, EnServiceAbonnee
<1>3. Periode'
    BY DEF Periode, SansCroisement, Ouverte, Courante, MoisPayes, JoursPossibles
<1>4. Repos'
    BY DEF Repos
<1>5. Lecture'
  <2>1. ASSUME NEW t \in Sessions \ {s} PROVE LectureDe(t)'
    <3>1. LectureDe(t)
        BY DEF Lecture
    <3>2. etape'[t] = etape[t] /\ demande'[t] = demande[t] /\ lu'[t] = lu[t] /\ vus'[t] = vus[t]
        OBVIOUS
    <3> QED
        BY <3>1, <3>2 DEF LectureDe, FinBornee
  <2> QED
      BY <2>1 DEF Lecture
<1>6. Acces'
    BY DEF Acces, AccesDe, Courante
<1>7. Paiement'
    BY DEF Paiement, PaiementDe, SansCroisement, Ouverte, Courante
<1>8. Quota'
    BY DEF Quota, QuotaDe
<1> QED
    BY <1>1, <1>2, <1>3, <1>4, <1>5, <1>6, <1>7, <1>8

LEMMA SessionFinie ==
    ASSUME AbonnementsInv, NEW s \in Sessions, Clore(s), vus' = [vus EXCEPT ![s] = {}],
           UNCHANGED <<base, cadre, courses, prolongations>>
    PROVE  AbonnementsInv'
<1> USE DEF AbonnementsInv
<1>1. /\ etape' \in [Sessions -> {"libre", "lue", "reconciliee", "relue"}]
      /\ etape'[s] = "libre" /\ \A t \in Sessions \ {s} : etape'[t] = etape[t]
    BY DEF TypeOK, Clore
<1>2. /\ demande' \in [Sessions -> Demandes]
      /\ \A t \in Sessions \ {s} : demande'[t] = demande[t]
    BY LectureVide DEF TypeOK, Clore
<1>3. lu' \in [Sessions -> Lectures] /\ \A t \in Sessions \ {s} : lu'[t] = lu[t]
    BY LectureVide DEF TypeOK, Clore
<1>4. /\ vus' \in [Sessions -> SUBSET Marques] /\ vus'[s] = {}
      /\ \A t \in Sessions \ {s} : vus'[t] = vus[t]
    BY DEF TypeOK
<1>5. LectureDe(s)' /\ AccesDe(s)' /\ PaiementDe(s)' /\ QuotaDe(s)'
    BY <1>1 DEF LectureDe, AccesDe, PaiementDe, QuotaDe
<1> QED
    BY <1>1, <1>2, <1>3, <1>4, <1>5, SansEcriture DEF TypesRequetes

\* What a request keeps of what it read.
LEMMA RetenuType ==
    ASSUME TypeOK, NEW d \in Recevables
    PROVE  /\ Retenu(d) \in Lectures /\ Retenu(d).sous = sous /\ Retenu(d).jour = jour
           /\ d.op \in {"suspendre", "reactiver", "resilier"} => Retenu(d).service = service
           /\ Instantane.sous = sous /\ Instantane.jour = jour /\ Instantane.comptes = comptes
<1>1. PICK acces : acces = IF d.op \in {"suspendre", "reactiver", "resilier"}
                           THEN service ELSE TRUE
    OBVIOUS
<1>2. PICK plans : plans = IF repli /\ d.op # "changer" THEN offre \cap {Gratuit} ELSE {}
    OBVIOUS
<1>3. PICK membres :
         membres = [u \in Utilisateurs |-> IF u = d.membre THEN comptes[u] ELSE "hors"]
    OBVIOUS
<1>4. /\ Instantane.sous = sous /\ Instantane.jour = jour /\ Instantane.comptes = comptes
      /\ Instantane.service = service /\ Instantane.offre = offre
      /\ Instantane \in Lectures
    BY DEF Instantane, Lectures, TypeOK
<1>5. Retenu(d) = [Instantane EXCEPT !.service = acces, !.offre = plans, !.comptes = membres]
    BY <1>1, <1>2, <1>3, <1>4, Zenon DEF Retenu
<1>6. acces \in BOOLEAN /\ plans \in SUBSET Plans
    BY <1>1, <1>2 DEF TypeOK
<1>7. membres \in [Utilisateurs -> {"hors", "actif", "inactif"}]
    BY <1>3 DEF TypeOK
<1>8. /\ Retenu(d) \in Lectures /\ Retenu(d).sous = Instantane.sous
      /\ Retenu(d).jour = Instantane.jour /\ Retenu(d).service = acces
    BY <1>4, <1>5, <1>6, <1>7 DEF Lectures
<1> QED
    BY <1>1, <1>4, <1>8

LEMMA RecevoirInv ==
    ASSUME AbonnementsInv, NEW s \in Sessions, NEW d \in Recevables, Recevoir(s, d)
    PROVE  AbonnementsInv'
<1> USE DEF AbonnementsInv
<1>1. /\ etape[s] = "libre" /\ ~Refus(Instantane, d)
      /\ UNCHANGED <<base, cadre, courses, prolongations>> /\ UNCHANGED vus
    BY DEF Recevoir, historique
<1>2. /\ etape' \in [Sessions -> {"libre", "lue", "reconciliee", "relue"}]
      /\ etape'[s] = "lue" /\ \A t \in Sessions \ {s} : etape'[t] = etape[t]
    BY DEF TypeOK, Recevoir
<1>3. /\ demande' \in [Sessions -> Demandes] /\ demande'[s] = d
      /\ \A t \in Sessions \ {s} : demande'[t] = demande[t]
    BY DEF TypeOK, Recevoir, Recevables
<1>4. PICK l \in Lectures : l = Retenu(d)
    BY RetenuType
<1>5. /\ l.sous = sous /\ l.jour = jour
      /\ d.op \in {"suspendre", "reactiver", "resilier"} => l.service = service
    BY <1>4, RetenuType
<1>6. lu' \in [Sessions -> Lectures] /\ lu'[s] = l /\ \A t \in Sessions \ {s} : lu'[t] = lu[t]
    BY <1>4 DEF TypeOK, Recevoir
<1>7. vus'[s] = {} /\ vus' \in [Sessions -> SUBSET Marques]
    BY <1>1 DEF Repos, TypeOK
<1>8. sous' = sous /\ service' = service /\ comptes' = comptes /\ prolongations' = prolongations
    BY <1>1 DEF base
<1>9. LectureDe(s)'
  <2>1. d.op \in Operations /\ \E n \in Ids : Presentes(l.sous) = 1..n
      BY <1>5 DEF Recevables, Table
  <2>2. \A f \in Ids : FinBornee(l.sous, f)'
      BY <1>5, <1>8 DEF Table, FinBornee
  <2>3. d.op = "prolonger" =>
           Actives(l.sous) # {} /\ l.sous[SouscriptionActive(l.sous)].fin # Aucun
    <3>1. d.op = "prolonger" => ReconcilierDue(sous, jour) \/ ~RefusProlonger(Instantane)
        BY <1>1, RetenuType DEF Refus
    <3>2. ReconcilierDue(sous, jour)
             => Actives(sous) # {} /\ sous[SouscriptionActive(sous)].fin # Aucun
        BY DEF ReconcilierDue, Echue
    <3>3. ~RefusProlonger(Instantane)
             => Actives(sous) # {} /\ sous[SouscriptionActive(sous)].fin # Aucun
        BY RetenuType DEF RefusProlonger
    <3> QED
        BY <1>5, <3>1, <3>2, <3>3
  <2>4. d.op = "resilier" => ~RefusResilier(l)
      BY <1>1, <1>5, RetenuType DEF Refus, RefusResilier
  <2> QED
      BY <1>2, <1>3, <1>5, <1>6, <1>8, <2>1, <2>2, <2>3, <2>4 DEF LectureDe
<1>10. AccesDe(s)'
    BY <1>3, <1>5, <1>6, <1>8 DEF AccesDe
<1>11. PaiementDe(s)'
    BY <1>5, <1>6, <1>8 DEF PaiementDe
<1>12. QuotaDe(s)'
  <2> SUFFICES ASSUME d.op = "ajouter", ~ReconcilierDue(l.sous, l.jour), Actives(l.sous) # {}
               PROVE  Cardinality(Actifs(comptes)) < Limite[PlanActif(l)]
      BY <1>2, <1>3, <1>6, <1>8 DEF QuotaDe
  <2>1. ~RefusAjouter(Instantane)
      BY <1>1, <1>5, RetenuType DEF Refus
  <2>2. PlanActif(l) = PlanActif(Instantane)
      BY <1>5, RetenuType DEF PlanActif
  <2>3. ~(Cardinality(Actifs(comptes)) >= Limite[PlanActif(l)])
      BY <1>5, <2>1, <2>2, RetenuType DEF RefusAjouter, Complet
  <2>4. Cardinality(Actifs(comptes)) \in Nat
      BY FS_CardinalityType DEF EffectifFini
  <2>5. PlanActif(l) \in Plans
    <3>1. SouscriptionActive(sous) \in Actives(sous)
        BY <1>5, ActiveChoisie DEF TypeOK
    <3>2. SouscriptionActive(sous) \in Presentes(sous)
        BY <3>1 DEF Actives, Presentes
    <3> QED
        BY <1>5, <3>2 DEF PlanActif, Table
  <2>6. Limite[PlanActif(l)] \in Nat
      BY <2>5, HypLimite
  <2> QED
      BY <2>3, <2>4, <2>6
<1> QED
    BY <1>1, <1>2, <1>3, <1>6, <1>7, <1>9, <1>10, <1>11, <1>12, SansEcriture DEF TypesRequetes

LEMMA RelireInv ==
    ASSUME AbonnementsInv, NEW s \in Sessions, Relire(s)
    PROVE  AbonnementsInv'
<1> USE DEF AbonnementsInv
<1>1. etape[s] = "reconciliee" /\ UNCHANGED <<base, cadre, courses, prolongations>>
    BY DEF Relire
<1>2. CASE Complet(Instantane, Gratuit)
    BY <1>1, <1>2, SessionFinie DEF Relire
<1>3. CASE ~Complet(Instantane, Gratuit)
  <2>1. /\ etape' = [etape EXCEPT ![s] = "relue"] /\ lu' = [lu EXCEPT ![s].jour = jour]
        /\ vus' = [vus EXCEPT ![s] = @ \ {"effectif"}] /\ UNCHANGED demande
      BY <1>3 DEF Relire
  <2>2. /\ etape' \in [Sessions -> {"libre", "lue", "reconciliee", "relue"}]
        /\ etape'[s] = "relue" /\ \A t \in Sessions \ {s} : etape'[t] = etape[t]
      BY <2>1 DEF TypeOK
  <2>3. /\ vus' \in [Sessions -> SUBSET Marques] /\ vus'[s] = vus[s] \ {"effectif"}
        /\ \A t \in Sessions \ {s} : vus'[t] = vus[t]
      BY <2>1 DEF TypeOK
  <2>4. lu' \in [Sessions -> Lectures] /\ \A t \in Sessions \ {s} : lu'[t] = lu[t]
    <3>1. [lu[s] EXCEPT !.jour = jour] \in Lectures
        BY DEF TypeOK, Lectures
    <3>2. lu' = [lu EXCEPT ![s] = [lu[s] EXCEPT !.jour = jour]]
        BY <2>1 DEF TypeOK
    <3> QED
        BY <3>1, <3>2 DEF TypeOK
  <2>5. demande' \in [Sessions -> Demandes] /\ \A t \in Sessions : demande'[t] = demande[t]
      BY <2>1 DEF TypeOK
  <2>6. LectureDe(s)' /\ AccesDe(s)' /\ PaiementDe(s)'
      BY <2>2 DEF LectureDe, AccesDe, PaiementDe
  <2>7. Cardinality(Actifs(comptes)) < Limite[Gratuit]
    <3>1. ~(Cardinality(Actifs(comptes)) >= Limite[Gratuit])
        BY <1>3 DEF Complet, Instantane
    <3>2. Cardinality(Actifs(comptes)) \in Nat /\ Limite[Gratuit] \in Nat
        BY FS_CardinalityType, HypPlans, HypLimite DEF EffectifFini
    <3> QED
        BY <3>1, <3>2
  <2>8. QuotaDe(s)'
    <3>1. vus'[s] \subseteq {"effectif"} => vus[s] \subseteq {"effectif"}
        BY <2>3
    <3>2. demande[s].op = "ajouter" /\ QuotaDe(s)
        BY <1>1 DEF Quota, QuotaDe
    <3>3. sous' = sous /\ comptes' = comptes /\ courses' = courses
        BY <1>1 DEF base
    <3>4. courses = {} /\ vus'[s] \subseteq {"effectif"} =>
             \A f \in Actives(sous) : sous[f].plan = Gratuit /\ sous[f].fin = Aucun
        BY <1>1, <3>1, <3>2 DEF QuotaDe
    <3> QED
        BY <2>2, <2>5, <2>7, <3>2, <3>3, <3>4 DEF QuotaDe
  <2> QED
      BY <1>1, <2>2, <2>3, <2>4, <2>5, <2>6, <2>8, SansEcriture DEF TypesRequetes
<1> QED
    BY <1>2, <1>3

\* A member changes, whatever the requests under way counted.
LEMMA ChangerCompteInv ==
    ASSUME AbonnementsInv, NEW u \in Utilisateurs, NEW etat \in {"hors", "actif", "inactif"},
           ChangerCompte(u, etat)
    PROVE  AbonnementsInv'
<1> USE DEF AbonnementsInv
<1>1. /\ comptes' = [comptes EXCEPT ![u] = etat]
      /\ vus' = [t \in Sessions |->
                    IF etape[t] = "libre" THEN {} ELSE vus[t] \cup {"effectif"}]
      /\ UNCHANGED <<sous, service, offre, repli, jour, droits, etape, demande, lu,
                     courses, prolongations>>
    BY DEF ChangerCompte, requete, cadre
<1>2. TypeOK'
    BY <1>1 DEF TypeOK, Marques
<1>3. EffectifFini'
    BY <1>1, UnDePlus
<1>4. Table' /\ RepliPossible' /\ Ordre' /\ EnServiceSansCourse'
    BY <1>1 DEF Table, FinBornee, RepliPossible, Ordre, Courante,
                EnServiceSansCourse, EnServiceAbonnee
<1>5. Periode'
    BY <1>1 DEF Periode, SansCroisement, Ouverte, Courante, MoisPayes, JoursPossibles
<1>6. Repos'
    BY <1>1 DEF Repos
<1>7. \A t \in Sessions : etape[t] # "libre" => vus'[t] = vus[t] \cup {"effectif"}
    BY <1>1
<1>8. Lecture'
  <2> SUFFICES ASSUME NEW t \in Sessions, etape[t] = "lue"
               PROVE  LectureDe(t)'
      BY <1>1 DEF Lecture, LectureDe
  <2>1. LectureDe(t)
      BY DEF Lecture
  <2>2. vus'[t] \subseteq {"effectif"} => vus[t] \subseteq {"effectif"}
      BY <1>7
  <2> QED
      BY <1>1, <2>1, <2>2 DEF LectureDe, FinBornee
<1>9. Acces'
    BY <1>1, <1>7 DEF Acces, AccesDe, Courante
<1>10. Paiement'
    BY <1>1, <1>7 DEF Paiement, PaiementDe, SansCroisement, Ouverte, Courante
<1>11. Quota'
  <2> SUFFICES ASSUME NEW t \in Sessions, etape[t] # "libre"
               PROVE  QuotaDe(t)'
      BY <1>1 DEF Quota, QuotaDe
  <2>1. QuotaDe(t)
      BY DEF Quota
  <2>2. /\ vus'[t] \subseteq {"effectif"} => vus[t] \subseteq {"effectif"}
        /\ vus'[t] # {}
      BY <1>7
  <2> QED
      BY <1>1, <2>1, <2>2 DEF QuotaDe
<1> QED
    BY <1>2, <1>3, <1>4, <1>5, <1>6, <1>8, <1>9, <1>10, <1>11

\* Only the plans, the label or the clock change.
LEMMA HorsEntreprise ==
    ASSUME AbonnementsInv, UNCHANGED <<sous, service, comptes, requete, historique, droits>>,
           offre' \subseteq Plans, RepliPossible', repli' \in BOOLEAN, jour' \in Jours
    PROVE  AbonnementsInv'
<1> USE DEF AbonnementsInv, requete, historique
<1>1. TypeOK'
    BY DEF TypeOK
<1>2. Table' /\ EffectifFini' /\ Repos' /\ Ordre' /\ EnServiceSansCourse'
    BY DEF Table, FinBornee, EffectifFini, Repos, Ordre, Courante,
           EnServiceSansCourse, EnServiceAbonnee
<1>3. Periode'
    BY DEF Periode, SansCroisement, Ouverte, Courante, MoisPayes, JoursPossibles
<1>4. Lecture'
    BY DEF Lecture, LectureDe, FinBornee
<1>5. Acces' /\ Paiement' /\ Quota'
    BY DEF Acces, AccesDe, Paiement, PaiementDe, Quota, QuotaDe, SansCroisement,
           Ouverte, Courante
<1> QED
    BY <1>1, <1>2, <1>3, <1>4, <1>5

LEMMA SupprimerPlanInv ==
    ASSUME AbonnementsInv, NEW plan \in Plans, SupprimerPlan(plan)
    PROVE  AbonnementsInv'
<1> USE DEF AbonnementsInv
<1>1. 1 \in Presentes(sous) /\ sous[1].plan = Gratuit
  <2>1. PICK n \in Ids : Presentes(sous) = 1..n
      BY DEF Table
  <2> QED
      BY <2>1, Parametres DEF Table, Ids
<1>2. plan # Gratuit
    BY <1>1 DEF SupprimerPlan, EnUsage
<1>3. offre' \subseteq Plans /\ RepliPossible'
    BY <1>2 DEF SupprimerPlan, TypeOK, RepliPossible
<1> QED
    BY <1>3, HorsEntreprise DEF SupprimerPlan, cadre, TypeOK

LEMMA RenommerGratuitInv ==
    ASSUME AbonnementsInv, RenommerGratuit
    PROVE  AbonnementsInv'
BY HorsEntreprise DEF AbonnementsInv, RenommerGratuit, base, TypeOK, RepliPossible

LEMMA JourSuivantInv ==
    ASSUME AbonnementsInv, JourSuivant
    PROVE  AbonnementsInv'
BY HorsEntreprise, LendemainType
DEF AbonnementsInv, JourSuivant, base, TypeOK, RepliPossible


-----------------------------------------------------------------------------
(* The invariant *)

LEMMA InitInv == Init => AbonnementsInv
<1> SUFFICES ASSUME Init PROVE AbonnementsInv
    OBVIOUS
<1>1. /\ PremierJour \in Jours /\ Gratuit \in Plans /\ Nouvelle(Gratuit, PremierJour) \in Lignes
      /\ Nouvelle(Gratuit, PremierJour).statut = "actif"
      /\ Nouvelle(Gratuit, PremierJour).plan = Gratuit
      /\ Nouvelle(Gratuit, PremierJour).fin = Aucun
    BY PremierJourType, HypPlans, LigneNouvelle
<1>2. sous \in [Ids -> Lignes] /\ sous[1] = Nouvelle(Gratuit, PremierJour)
      /\ \A f \in Ids \ {1} : sous[f] = Absente
    BY <1>1, LectureVide, Parametres DEF Init
<1>3. TypeOK
  <2>1. comptes \in [Utilisateurs -> {"hors", "actif", "inactif"}] /\ service \in BOOLEAN
        /\ offre \subseteq Plans /\ repli \in BOOLEAN /\ droits \in Profils
      BY DEF Init
  <2>2. demande \in [Sessions -> Demandes] /\ lu \in [Sessions -> Lectures]
      BY LectureVide DEF Init
  <2>3. prolongations \in [Ids -> 0..MaxProlongations]
      BY Parametres DEF Init
  <2>4. /\ etape \in [Sessions -> {"libre", "lue", "reconciliee", "relue"}]
        /\ vus \in [Sessions -> SUBSET Marques]
        /\ courses \subseteq {"acces", "prolonger", "reactiver", "autre"}
      BY DEF Init
  <2> QED
      BY <1>1, <1>2, <2>1, <2>2, <2>3, <2>4 DEF TypeOK, Init
<1>4. Presentes(sous) = {1} /\ Actives(sous) = {1} /\ 1..1 = {1}
  <2>1. \A f \in Ids : f = 1 \/ sous[f].statut = "absente"
      BY <1>2 DEF Absente
  <2> QED
      BY <1>1, <1>2, <2>1, Parametres DEF Presentes, Actives
<1>5. \A f \in Ids : sous[f].fin = Aucun
    BY <1>1, <1>2 DEF Absente
<1>6. Table
  <2>1. \A f \in Ids : FinBornee(sous, f)
      BY <1>5 DEF FinBornee
  <2> QED
      BY <1>1, <1>2, <1>4, <2>1, Parametres DEF Table, Init
<1>7. RepliPossible
    BY HypPlans DEF RepliPossible, Init
<1>8. EffectifFini
  <2>1. Actifs(comptes) \subseteq {Fondateur}
      BY DEF Actifs, Init
  <2> QED
      BY <2>1, FS_Singleton, FS_Subset DEF EffectifFini
<1>9. Repos /\ Lecture /\ Acces /\ Paiement /\ Quota
    BY DEF Init, Repos, Lecture, LectureDe, Acces, AccesDe, Paiement, PaiementDe, Quota, QuotaDe
<1>10. Ordre
  <2>1. \A n \in Ids : Courante(n) => n = 1
      BY <1>4, Rangs, Parametres DEF Courante
  <2> QED
      BY <1>1, <1>2, <1>4, <2>1 DEF Ordre
<1>11. EnServiceSansCourse
    BY <1>4 DEF EnServiceSansCourse, EnServiceAbonnee
<1>12. Periode
    BY <1>5 DEF Periode
<1> QED
    BY <1>3, <1>6, <1>7, <1>8, <1>9, <1>10, <1>11, <1>12 DEF AbonnementsInv

LEMMA NextInv ==
    ASSUME AbonnementsInv, [Next]_vars
    PROVE  AbonnementsInv'
<1>1. ASSUME NEW s \in Sessions, NEW d \in Recevables, Recevoir(s, d) PROVE AbonnementsInv'
    BY <1>1, RecevoirInv
<1>2. ASSUME NEW s \in Sessions, Reconcilier(s) PROVE AbonnementsInv'
    BY <1>2, ReconcilierInv
<1>3. ASSUME NEW s \in Sessions, Relire(s) PROVE AbonnementsInv'
    BY <1>3, RelireInv
<1>4. ASSUME NEW s \in Sessions, Ajouter(s) PROVE AbonnementsInv'
    BY <1>4, AjouterInv
<1>5. ASSUME NEW s \in Sessions, Changer(s) PROVE AbonnementsInv'
    BY <1>5, ChangerInv
<1>6. ASSUME NEW s \in Sessions, Prolonger(s) PROVE AbonnementsInv'
    BY <1>6, ProlongerInv
<1>7. ASSUME NEW s \in Sessions, Suspendre(s) PROVE AbonnementsInv'
    BY <1>7, SuspendreInv
<1>8. ASSUME NEW s \in Sessions, Reactiver(s) PROVE AbonnementsInv'
    BY <1>8, ReactiverInv
<1>9. ASSUME NEW s \in Sessions, Resilier(s) PROVE AbonnementsInv'
    BY <1>9, ResilierInv
<1>10. ASSUME NEW s \in Sessions, Abandonner(s) PROVE AbonnementsInv'
    BY <1>10, SessionFinie DEF Abandonner
<1>11. ASSUME NEW u \in Utilisateurs, NEW etat \in {"hors", "actif", "inactif"},
              ChangerCompte(u, etat)
       PROVE  AbonnementsInv'
    BY <1>11, ChangerCompteInv
<1>12. ASSUME NEW plan \in Plans, SupprimerPlan(plan) PROVE AbonnementsInv'
    BY <1>12, SupprimerPlanInv
<1>13. CASE RenommerGratuit
    BY <1>13, RenommerGratuitInv
<1>14. CASE JourSuivant
    BY <1>14, JourSuivantInv
<1>15. CASE UNCHANGED vars
    BY <1>15, HorsEntreprise DEF vars, base, cadre, AbonnementsInv, TypeOK, RepliPossible
<1> QED
    BY <1>1, <1>2, <1>3, <1>4, <1>5, <1>6, <1>7, <1>8, <1>9, <1>10, <1>11, <1>12, <1>13,
       <1>14, <1>15 DEF Next

\* The inductive invariant holds, for every instance of the constants.
LEMMA Invariant == Spec => []AbonnementsInv
<1> QED
    BY InitInv, NextInv, PTL DEF Spec

-----------------------------------------------------------------------------
(* Theorems *)

\* Every variable keeps its type: dates stay dates of the calendar, whatever is
\* paid, closed or extended, and by requests however late.
THEOREM TypesCorrects == Spec => []TypeOK
<1>1. AbonnementsInv => TypeOK
    BY DEF AbonnementsInv
<1> QED
    BY <1>1, Invariant, PTL

\* "Souscription(s) active(s) courante(s) (normalement une)": at most one, as
\* long as no request has committed on a stale reading.
THEOREM UneActive == Spec => []UneSeuleActive
<1>1. AbonnementsInv => UneSeuleActive
  <2> SUFFICES ASSUME AbonnementsInv, courses = {}
               PROVE  Cardinality(Actives(sous)) <= 1
      BY DEF UneSeuleActive
  <2>1. PICK n \in Ids : Courante(n)
      BY DEF AbonnementsInv, Table, Courante
  <2>2. Actives(sous) \subseteq {n}
      BY <2>1 DEF AbonnementsInv, Ordre
  <2>3. IsFiniteSet({n}) /\ Cardinality({n}) = 1
      BY FS_Singleton
  <2> QED
      BY <2>2, <2>3, FS_Subset
<1> QED
    BY <1>1, Invariant, PTL

\* A company in service has an active subscription, unless two decisions on its
\* access have crossed.
THEOREM ServiceAbonne == Spec => []EnServiceSansCourse
<1>1. AbonnementsInv => EnServiceSansCourse
    BY DEF AbonnementsInv
<1> QED
    BY <1>1, Invariant, PTL

\* The plan an expired company falls back on is never deleted.
THEOREM RepliGarde == Spec => []RepliPossible
<1>1. AbonnementsInv => RepliPossible
    BY DEF AbonnementsInv
<1> QED
    BY <1>1, Invariant, PTL

\* An open paid subscription ends after as many months as were paid for, on the
\* day of its start or on the last one of the shortest month since.
THEOREM MoisComptes == Spec => []ProlongationsComptees
<1>1. AbonnementsInv => ProlongationsComptees
  <2> SUFFICES ASSUME AbonnementsInv, SansCroisement, NEW f \in Actives(sous),
                      sous[f].fin # Aucun
               PROVE  sous[f].fin = [mois |-> MoisPayes(f), jour |-> Min(JoursPossibles(f))]
      BY DEF ProlongationsComptees, SansCroisement, MoisPayes, JoursPossibles
  <2>1. f \in Ids /\ Ouverte(f)
      BY DEF Actives, Ouverte
  <2>2. /\ sous[f].fin.mois = MoisPayes(f)
        /\ sous[f].fin.jour \in JoursPossibles(f)
        /\ \A j \in JoursPossibles(f) : sous[f].fin.jour <= j
      BY <2>1 DEF AbonnementsInv, Periode
  <2>3. sous[f] \in Lignes /\ prolongations[f] \in Nat
      BY <2>1, Parametres DEF AbonnementsInv, TypeOK
  <2>4. sous[f].fin \in [mois : Nat, jour : Nat]
      BY <2>3, EcheancesDef DEF Lignes
  <2>5. \A j \in JoursPossibles(f) : j \in Nat
    <3>1. sous[f].debut.jour \in Nat /\ sous[f].debut.mois \in Nat
        BY <2>3, JourEcheance DEF Lignes
    <3>2. \A m \in (sous[f].debut.mois + 1)..MoisPayes(f) : m \in Nat
        BY <2>3, <3>1 DEF MoisPayes
    <3> QED
        BY <3>1, <3>2, LongueurType DEF JoursPossibles
  <2>6. Min(JoursPossibles(f)) = sous[f].fin.jour
    <3> DEFINE S == JoursPossibles(f)
               j == sous[f].fin.jour
    <3>1. j \in S /\ \A x \in S : j <= x /\ x \in Nat
        BY <2>2, <2>5
    <3> HIDE DEF S, j
    <3>2. \A x \in S : (\A y \in S : x <= y) => x = j
        BY <3>1
    <3>3. Min(S) \in S /\ \A y \in S : Min(S) <= y
        BY <3>1 DEF Min
    <3>4. Min(S) = j
        BY <3>2, <3>3
    <3> QED
        BY <3>4 DEF S, j
  <2> QED
      BY <2>2, <2>4, <2>6
<1> QED
    BY <1>1, Invariant, PTL

\* A closed subscription is written again only by a request that read it open.
THEOREM HistoriquePreserve == Spec => HistoriqueClos
<1>1. ASSUME AbonnementsInv, [Next]_vars, courses' = {}, NEW f \in Ids,
             sous[f].statut \in {"expire", "annule"}
      PROVE  sous'[f] = sous[f]
  <2>1. ASSUME NEW s \in Sessions, NEW d \in Recevables, Recevoir(s, d) PROVE UNCHANGED sous
      BY <2>1 DEF Recevoir, base
  <2>2. ASSUME NEW s \in Sessions, Relire(s) \/ Ajouter(s) \/ Abandonner(s)
        PROVE  UNCHANGED sous
      BY <2>2 DEF Relire, Ajouter, Abandonner, base
  <2>3. ASSUME NEW s \in Sessions, Reconcilier(s) PROVE sous'[f] = sous[f]
      BY <1>1, <2>3, ReconcilierInv
  <2>4. ASSUME NEW s \in Sessions, Changer(s) PROVE sous'[f] = sous[f]
      BY <1>1, <2>4, ChangerInv
  <2>5. ASSUME NEW s \in Sessions, Prolonger(s) PROVE sous'[f] = sous[f]
      BY <1>1, <2>5, ProlongerInv
  <2>6. ASSUME NEW s \in Sessions, Suspendre(s) PROVE sous'[f] = sous[f]
      BY <1>1, <2>6, SuspendreInv
  <2>7. ASSUME NEW s \in Sessions, Reactiver(s) PROVE sous'[f] = sous[f]
      BY <1>1, <2>7, ReactiverInv
  <2>8. ASSUME NEW s \in Sessions, Resilier(s) PROVE sous'[f] = sous[f]
      BY <1>1, <2>8, ResilierInv
  <2>9. ASSUME NEW u \in Utilisateurs, NEW etat \in {"hors", "actif", "inactif"},
               ChangerCompte(u, etat)
        PROVE  UNCHANGED sous
      BY <2>9 DEF ChangerCompte
  <2>10. ASSUME NEW plan \in Plans, SupprimerPlan(plan) PROVE UNCHANGED sous
      BY <2>10 DEF SupprimerPlan
  <2>11. RenommerGratuit \/ JourSuivant \/ UNCHANGED vars => UNCHANGED sous
      BY DEF RenommerGratuit, JourSuivant, vars, base
  <2> QED
      BY <1>1, <2>1, <2>2, <2>3, <2>4, <2>5, <2>6, <2>7, <2>8, <2>9, <2>10, <2>11 DEF Next
<1>2. AbonnementsInv /\ [Next]_vars =>
         [courses' = {} => \A f \in Ids :
             sous[f].statut \in {"expire", "annule"} => sous'[f] = sous[f]]_vars
    BY <1>1
<1> QED
    BY <1>2, Invariant, PTL DEF Spec, HistoriqueClos

\* Only an addition ends a request and adds an active user.
LEMMA FinAjout ==
    ASSUME [Next]_vars, NEW s \in Sessions, etape[s] # "libre", etape'[s] = "libre",
           Actifs(comptes') # Actifs(comptes), TypeOK
    PROVE  Ajouter(s)
<1>1. comptes' # comptes
    OBVIOUS
<1>2. ASSUME NEW t \in Sessions, Ajouter(t), t # s
      PROVE  FALSE
    BY <1>2 DEF Ajouter, Clore, TypeOK
<1>3. ASSUME NEW t \in Sessions, NEW d \in Recevables, Recevoir(t, d) PROVE UNCHANGED comptes
    BY <1>3 DEF Recevoir, base
<1>4. ASSUME NEW t \in Sessions,
             \/ Reconcilier(t) \/ Relire(t) \/ Changer(t) \/ Prolonger(t)
             \/ Suspendre(t) \/ Reactiver(t) \/ Resilier(t) \/ Abandonner(t)
      PROVE  UNCHANGED comptes
    BY <1>4 DEF Reconcilier, Relire, Changer, Prolonger, Suspendre, Reactiver, Resilier,
                Abandonner, base
<1>5. ASSUME NEW u \in Utilisateurs, NEW etat \in {"hors", "actif", "inactif"},
             ChangerCompte(u, etat)
      PROVE  UNCHANGED etape
    BY <1>5 DEF ChangerCompte, requete
<1>6. ASSUME NEW plan \in Plans, SupprimerPlan(plan) PROVE UNCHANGED comptes
    BY <1>6 DEF SupprimerPlan
<1>7. RenommerGratuit \/ JourSuivant \/ UNCHANGED vars => UNCHANGED comptes
    BY DEF RenommerGratuit, JourSuivant, vars, base
<1> QED
    BY <1>1, <1>2, <1>3, <1>4, <1>5, <1>6, <1>7 DEF Next

\* An addition that no other write crosses leaves no more active users than the
\* plan allows, and that plan is in force on the day the addition is decided.
THEOREM QuotaTenu == Spec => AjoutSousLimite
<1>1. ASSUME AbonnementsInv, [Next]_vars, NEW s \in Sessions,
             etape[s] # "libre", etape'[s] = "libre", demande[s].op = "ajouter",
             Actifs(comptes') # Actifs(comptes), vus[s] = {},
             etape[s] = "relue" => courses = {}, Actives(sous) # {}
      PROVE  LET f == SouscriptionActive(sous)
             IN /\ ~Echue(sous[f], lu[s].jour)
                /\ Cardinality(Actifs(comptes')) <= Limite[sous[f].plan]
  <2> USE <1>1
  <2>1. Ajouter(s)
      BY FinAjout DEF AbonnementsInv
  <2>2. PICK f \in Ids : f = SouscriptionActive(sous) /\ f \in Actives(sous)
      BY ActiveChoisie DEF AbonnementsInv, TypeOK, Actives
  <2>3. Limite[sous[f].plan] \in Nat
    <3>1. f \in Presentes(sous)
        BY <2>2 DEF Actives, Presentes
    <3> QED
        BY <3>1, HypLimite DEF AbonnementsInv, Table
  <2>4. Cardinality(Actifs(comptes)) < Limite[sous[f].plan] /\ ~Echue(sous[f], lu[s].jour)
    <3>1. CASE etape[s] = "lue"
      <4>1. lu[s].sous = sous
          BY <3>1 DEF AbonnementsInv, Lecture, LectureDe
      <4>2. ~ReconcilierDue(lu[s].sous, lu[s].jour)
          BY <2>1, <3>1 DEF Ajouter
      <4>3. ~Echue(sous[f], lu[s].jour)
          BY <2>2, <4>1, <4>2 DEF ReconcilierDue
      <4>4. Cardinality(Actifs(comptes)) < Limite[PlanActif(lu[s])]
          BY <3>1, <4>1, <4>2 DEF AbonnementsInv, Quota, QuotaDe
      <4> QED
          BY <2>2, <4>1, <4>3, <4>4 DEF PlanActif
    <3>2. CASE etape[s] = "relue"
      <4>1. sous[f].plan = Gratuit /\ sous[f].fin = Aucun
          BY <2>2, <3>2 DEF AbonnementsInv, Quota, QuotaDe
      <4>2. Cardinality(Actifs(comptes)) < Limite[Gratuit]
          BY <3>2 DEF AbonnementsInv, Quota, QuotaDe
      <4> QED
          BY <4>1, <4>2 DEF Echue
    <3> QED
        BY <2>1, <3>1, <3>2 DEF Ajouter
  <2>5. /\ Cardinality(Actifs(comptes')) <= Cardinality(Actifs(comptes)) + 1
        /\ Cardinality(Actifs(comptes)) \in Nat /\ Cardinality(Actifs(comptes')) \in Nat
    <3>1. comptes' = [comptes EXCEPT ![demande[s].membre] = "actif"]
        BY <2>1 DEF Ajouter
    <3>2. EffectifFini'
        BY <3>1, UnDePlus DEF AbonnementsInv
    <3> QED
        BY <3>1, <3>2, UnDePlus, FS_CardinalityType DEF AbonnementsInv, EffectifFini
  <2>6. Cardinality(Actifs(comptes')) <= Limite[sous[f].plan]
      BY <2>3, <2>4, <2>5
  <2> QED
      BY <2>2, <2>4, <2>6
<1>2. AbonnementsInv /\ [Next]_vars =>
        [\A s \in Sessions :
          /\ etape[s] # "libre" /\ etape'[s] = "libre" /\ demande[s].op = "ajouter"
          /\ Actifs(comptes') # Actifs(comptes)
          /\ vus[s] = {}
          /\ etape[s] = "relue" => courses = {}
          /\ Actives(sous) # {}
          => LET f == SouscriptionActive(sous)
             IN /\ ~Echue(sous[f], lu[s].jour)
                /\ Cardinality(Actifs(comptes')) <= Limite[sous[f].plan]]_vars
    BY <1>1, Zenon
<1> QED
    BY <1>2, Invariant, PTL DEF Spec, AjoutSousLimite
=============================================================================
