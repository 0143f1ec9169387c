--------------------------- MODULE Comptes_proofs ---------------------------
(***************************************************************************)
(* Administrators, owned data and reset links, for any number of users,   *)
(* sessions and links.                                                     *)
(***************************************************************************)
EXTENDS Comptes, FiniteSetTheorems, TLAPS

\* The types; TypeOK bounds the uses of a link too, which nothing here needs.
Types ==
    /\ comptes \in [Utilisateurs -> Comptes]
    /\ entreprise \in BOOLEAN
    /\ jetons \in [Ids -> Jetons]
    /\ recus \subseteq Ids
    /\ etape \in [Sessions -> {"libre", "lue", "engagee"}]
    /\ demande \in [Sessions -> Demandes]
    /\ vus \in [Sessions -> SUBSET {"equipe", "usage"}]
    /\ usages \in [Ids -> Nat]
    /\ morts \subseteq Ids
    /\ survivants \subseteq morts
    /\ coupure \in BOOLEAN

\* A request under way names a user, unless it is about the company, and the
\* link it was sent or has created.
Adressee ==
    \A s \in Sessions : etape[s] # "libre" =>
        /\ demande[s].op # "supprimer_entreprise" => demande[s].cible \in Utilisateurs
        /\ demande[s].op = "appliquer" \/ etape[s] = "engagee" =>
              demande[s].jeton \in Ids /\ jetons[demande[s].jeton].etat # "futur"

\* What the platform could make the root powerless with never targets it; its own
\* team may deactivate it.
Decheances == {"revoquer", "desactiver", "supprimer", "retirer"}

RacineIntacte ==
    /\ comptes[Racine].etat = "present" /\ comptes[Racine].plateforme
    /\ coupure \/ comptes[Racine].actif
    /\ \A s \in Sessions :
          etape[s] # "libre" /\ demande[s].op \in Decheances => demande[s].cible # Racine

\* The links to come are the last ones and belong to nobody yet.
Suite ==
    /\ \E k \in 0..MaxJetons : \A j \in Ids : jetons[j].etat = "futur" <=> j > k
    /\ \A j \in Ids : jetons[j].etat = "futur" <=> jetons[j].de = Aucun

UnParUtilisateur ==
    \A i, j \in Ids :
        /\ jetons[i].etat \in {"valable", "echu"} /\ jetons[j].etat \in {"valable", "echu"}
        /\ jetons[i].de = jetons[j].de
        => i = j

\* A link that can still be used is not dead, unless the team left it in
\* circulation, one that was used is; whoever is about to use a dead link that
\* the team did not leave has missed its use.
LiensMorts ==
    /\ \A j \in Ids :
          /\ jetons[j].etat \in {"futur", "valable", "echu"} => j \notin morts \ survivants
          /\ jetons[j].etat = "utilise" => j \in morts
    /\ \A s \in Sessions :
          /\ EnCours(s, "appliquer")
          /\ demande[s].jeton \in morts \ survivants
          /\ jetons[demande[s].jeton].etat # "supprime"
          => "usage" \in vus[s]

\* The inductive invariant.
ComptesInv ==
    /\ Types
    /\ Adressee
    /\ RacineIntacte
    /\ RienSansEntreprise
    /\ Suite
    /\ UnParUtilisateur
    /\ LiensMorts
-----------------------------------------------------------------------------
(* How a request ends *)

\* s is free again, the other sessions are as they were, but for what they missed.
Ferme(s) ==
    /\ etape' \in [Sessions -> {"libre", "lue", "engagee"}]
    /\ demande' \in [Sessions -> Demandes]
    /\ vus' \in [Sessions -> SUBSET {"equipe", "usage"}]
    /\ etape'[s] = "libre"
    /\ \A t \in Sessions \ {s} :
          etape'[t] = etape[t] /\ demande'[t] = demande[t] /\ vus[t] \subseteq vus'[t]

LEMMA SansDemandeType == SansDemande \in Demandes
    BY DEF SansDemande, Demandes, Appels

LEMMA Fermeture ==
    ASSUME Types, NEW s \in Sessions, NEW marque, NEW T,
           marque \in {"equipe", "usage"} \/ T = {},
           Clore(s), Signaler(s, marque, T)
    PROVE  Ferme(s) /\ \A t \in Sessions \ {s} : t \in T => marque \in vus'[t]
<1>1. /\ etape' \in [Sessions -> {"libre", "lue", "engagee"}] /\ etape'[s] = "libre"
      /\ \A t \in Sessions \ {s} : etape'[t] = etape[t]
    BY DEF Types, Clore
<1>2. /\ demande' \in [Sessions -> Demandes]
      /\ \A t \in Sessions \ {s} : demande'[t] = demande[t]
    BY SansDemandeType DEF Types, Clore
<1>3. /\ vus' \in [Sessions -> SUBSET {"equipe", "usage"}]
      /\ \A t \in Sessions \ {s} : vus[t] \subseteq vus'[t] /\ (t \in T => marque \in vus'[t])
    BY DEF Types, Signaler
<1> QED
    BY <1>1, <1>2, <1>3 DEF Ferme

LEMMA Fins ==
    ASSUME Types, NEW s \in Sessions, Finir(s) \/ FinirEquipe(s)
    PROVE  Ferme(s)
<1>1. CASE Finir(s)
    BY <1>1, Fermeture DEF Finir
<1>2. CASE FinirEquipe(s)
    BY <1>2, Fermeture DEF FinirEquipe
<1> QED
    BY <1>1, <1>2

\* The end of a request that leaves the links alone, whatever history notes of them.
LEMMA FinSansJeton ==
    ASSUME ComptesInv, NEW s \in Sessions, Ferme(s), UNCHANGED jetons
    PROVE  Adressee' /\ Suite' /\ UnParUtilisateur'
           /\ \A t \in Sessions : etape'[t] # "libre" /\ demande'[t].op \in Decheances
                                 => demande'[t].cible # Racine
<1> USE DEF ComptesInv
<1>1. Adressee'
    BY DEF Adressee, Ferme
<1>2. Suite' /\ UnParUtilisateur'
    BY DEF Suite, UnParUtilisateur
<1>3. \A t \in Sessions : etape'[t] # "libre" /\ demande'[t].op \in Decheances
                         => demande'[t].cible # Racine
    BY DEF RacineIntacte, Ferme
<1> QED
    BY <1>1, <1>2, <1>3

\* The end of a request that has nothing to do with links.
LEMMA FinSansLien ==
    ASSUME ComptesInv, NEW s \in Sessions, Ferme(s), UNCHANGED <<jetons, morts, survivants>>
    PROVE  Adressee' /\ Suite' /\ UnParUtilisateur' /\ LiensMorts'
           /\ \A t \in Sessions : etape'[t] # "libre" /\ demande'[t].op \in Decheances
                                 => demande'[t].cible # Racine
<1>1. LiensMorts'
  <2>1. ASSUME NEW t \in Sessions, EnCours(t, "appliquer")'
        PROVE  EnCours(t, "appliquer") /\ demande'[t] = demande[t] /\ vus[t] \subseteq vus'[t]
      BY <2>1 DEF EnCours, Ferme
  <2> QED
      BY <2>1 DEF ComptesInv, LiensMorts
<1> QED
    BY <1>1, FinSansJeton

\* The same, when some links are deleted and no other one has died.
LEMMA FinElaguee ==
    ASSUME ComptesInv, NEW s \in Sessions, Ferme(s),
           NEW S \in SUBSET Ids, \A j \in S : jetons[j].etat # "futur",
           jetons' = [j \in Ids |-> IF j \in S THEN [jetons[j] EXCEPT !.etat = "supprime"]
                                               ELSE jetons[j]],
           morts \subseteq morts', \A j \in morts' \ morts : jetons'[j].etat = "supprime",
           UNCHANGED survivants
    PROVE  /\ jetons' \in [Ids -> Jetons]
           /\ Adressee' /\ Suite' /\ UnParUtilisateur' /\ LiensMorts'
           /\ \A t \in Sessions : etape'[t] # "libre" /\ demande'[t].op \in Decheances
                                 => demande'[t].cible # Racine
<1> USE DEF ComptesInv
<1>1. /\ jetons' \in [Ids -> Jetons]
      /\ \A j \in Ids : /\ jetons'[j].de = jetons[j].de
                        /\ jetons'[j].etat = IF j \in S THEN "supprime" ELSE jetons[j].etat
    BY DEF Types, Jetons
<1>2. Adressee'
    BY <1>1 DEF Adressee, Ferme
<1>3. \A j \in Ids : (jetons'[j].etat = "futur") = (jetons[j].etat = "futur")
    BY <1>1
<1>4. Suite'
    BY <1>1, <1>3 DEF Suite
<1>5. UnParUtilisateur'
    BY <1>1 DEF UnParUtilisateur
<1>6. LiensMorts'
  <2>1. ASSUME NEW j \in Ids
        PROVE  /\ jetons'[j].etat \in {"futur", "valable", "echu"} => j \notin morts' \ survivants'
               /\ jetons'[j].etat = "utilise" => j \in morts'
      BY <1>1 DEF LiensMorts
  <2>2. ASSUME NEW t \in Sessions, EnCours(t, "appliquer")', demande'[t].jeton \in morts' \ survivants',
               jetons'[demande'[t].jeton].etat # "supprime"
        PROVE  "usage" \in vus'[t]
    <3>1. EnCours(t, "appliquer") /\ demande'[t] = demande[t] /\ vus[t] \subseteq vus'[t]
        BY <2>2 DEF EnCours, Ferme
    <3>2. demande[t].jeton \in Ids
        BY <3>1 DEF Adressee, EnCours
    <3>3. /\ demande[t].jeton \in morts \ survivants
          /\ jetons[demande[t].jeton].etat # "supprime"
        BY <1>1, <2>2, <3>1, <3>2
    <3> QED
        BY <3>1, <3>3 DEF LiensMorts
  <2> QED
      BY <2>1, <2>2 DEF LiensMorts
<1>7. \A t \in Sessions : etape'[t] # "libre" /\ demande'[t].op \in Decheances
                         => demande'[t].cible # Racine
    BY DEF RacineIntacte, Ferme
<1> QED
    BY <1>1, <1>2, <1>4, <1>5, <1>6, <1>7

\* One row of the users is written, and the request ends.
LEMMA EcrireCompte ==
    ASSUME ComptesInv,
           NEW s \in Sessions, NEW u \in Utilisateurs, NEW ligne \in Comptes,
           ligne.etat = "present",
           u = Racine => (coupure' \/ ligne.actif) /\ ligne.plateforme,
           u # Racine => coupure' = coupure,
           coupure' \in BOOLEAN,
           ligne.lien # "aucun" \/ ligne.auteur => entreprise,
           comptes' = [comptes EXCEPT ![u] = ligne],
           UNCHANGED <<entreprise, jetons, recus, usages>>,
           morts' \subseteq Ids, survivants' \subseteq morts', LiensMorts',
           Ferme(s)
    PROVE  ComptesInv'
<1> USE DEF ComptesInv
<1>1. /\ comptes' \in [Utilisateurs -> Comptes] /\ comptes'[u] = ligne
      /\ \A v \in Utilisateurs \ {u} : comptes'[v] = comptes[v]
    BY DEF Types
<1>2. Types'
    BY <1>1 DEF Types, Ferme
<1>3. Adressee' /\ Suite' /\ UnParUtilisateur'
    BY FinSansJeton
<1>4. RacineIntacte'
  <2>1. Racine \in Utilisateurs
      BY HypComptes
  <2>2. /\ comptes'[Racine].etat = "present" /\ comptes'[Racine].plateforme
        /\ coupure' \/ comptes'[Racine].actif
      BY <1>1, <2>1 DEF RacineIntacte
  <2> QED
      BY <2>2, FinSansJeton DEF RacineIntacte
<1>5. RienSansEntreprise'
  <2> SUFFICES ASSUME NEW v \in Utilisateurs
               PROVE  /\ comptes'[v].lien # "aucun" => entreprise' /\ comptes'[v].etat = "present"
                      /\ comptes'[v].auteur => entreprise' /\ comptes'[v].etat = "present"
      BY DEF RienSansEntreprise, Present
  <2>1. CASE v = u
      BY <1>1, <2>1
  <2>2. CASE v # u
      BY <1>1, <2>2 DEF RienSansEntreprise, Present
  <2> QED
      BY <2>1, <2>2
<1> QED
    BY <1>2, <1>3, <1>4, <1>5

\* The same, for a row that is changed and not created, by a request that has
\* nothing to do with links.
LEMMA ModifierCompte ==
    ASSUME ComptesInv,
           NEW s \in Sessions, NEW op \in Operations \ {"supprimer_entreprise"},
           NEW ligne \in Comptes,
           ligne.etat = Cible(s).etat,
           demande[s].cible = Racine => (coupure' \/ ligne.actif) /\ ligne.plateforme,
           demande[s].cible # Racine => coupure' = coupure,
           coupure' \in BOOLEAN,
           ligne.lien # "aucun" => Cible(s).lien # "aucun",
           ligne.auteur => Cible(s).auteur \/ entreprise,
           Modifier(s, op, ligne), UNCHANGED liens,
           Ferme(s)
    PROVE  ComptesInv'
<1>1. demande[s].cible \in Utilisateurs
    BY DEF ComptesInv, Adressee, Modifier, EnCours
<1>2. ligne.etat = "present" /\ (ligne.lien # "aucun" \/ ligne.auteur => entreprise)
    BY <1>1 DEF ComptesInv, RienSansEntreprise, Modifier, Present, Cible
<1>3. comptes' = [comptes EXCEPT ![demande[s].cible] = ligne]
      /\ UNCHANGED <<entreprise, jetons, recus, usages>>
    BY DEF Modifier, liens
<1>4. morts' \subseteq Ids /\ survivants' \subseteq morts' /\ LiensMorts'
    BY FinSansLien DEF liens, ComptesInv, Types
<1> QED
    BY <1>1, <1>2, <1>3, <1>4, EcrireCompte
-----------------------------------------------------------------------------
(* One lemma per action. *)

\* What Cible(s) is, for a request that changes the row of a user.
LEMMA CibleType ==
    ASSUME ComptesInv, NEW s \in Sessions, etape[s] = "lue",
           demande[s].op # "supprimer_entreprise"
    PROVE  Cible(s) \in Comptes
    BY DEF ComptesInv, Types, Adressee, Cible

LEMMA NouveauType ==
    ASSUME NEW lien \in {"aucun", "membre", "admin"}
    PROVE  Nouveau(lien) \in Comptes
    BY DEF Nouveau, Comptes

\* Written columns give a row again, and only a named membership changes.
LEMMA EcritsType ==
    ASSUME NEW ligne \in Comptes, NEW champs
    PROVE  /\ Ecrits(ligne, champs) \in Comptes
           /\ Ecrits(ligne, champs).etat = ligne.etat
           /\ Ecrits(ligne, champs).plateforme = ligne.plateforme
           /\ Ecrits(ligne, champs).auteur = ligne.auteur
           /\ champs \cap {"admin", "membre"} = {} => Ecrits(ligne, champs).lien = ligne.lien
           /\ "actif" \in champs => Ecrits(ligne, champs).actif
           /\ "inactif" \notin champs /\ ligne.actif => Ecrits(ligne, champs).actif
<1> DEFINE l == Ecrits(ligne, champs)
           lien == IF "admin" \in champs THEN "admin"
                   ELSE IF "membre" \in champs THEN "membre" ELSE ligne.lien
           actif == "actif" \in champs \/ (ligne.actif /\ "inactif" \notin champs)
<1>1. l = [etat |-> ligne.etat, actif |-> actif, plateforme |-> ligne.plateforme,
           lien |-> lien, auteur |-> ligne.auteur]
  <2>1. l = [ligne EXCEPT !.lien = lien, !.actif = actif]
      BY Zenon DEF Ecrits
  <2> HIDE DEF lien, actif
  <2> QED
      BY <2>1 DEF Comptes
<1>2. actif \in BOOLEAN /\ lien \in {"aucun", "membre", "admin"}
    BY DEF Comptes
<1>3. l.actif = actif /\ l.lien = lien /\ l.etat = ligne.etat
      /\ l.plateforme = ligne.plateforme /\ l.auteur = ligne.auteur
    BY <1>1
<1>4. l \in Comptes
  <2> HIDE DEF lien, actif
  <2> QED
      BY <1>1, <1>2 DEF Comptes
<1> QED
    BY <1>3, <1>4

LEMMA PlateformeInv ==
    ASSUME ComptesInv, NEW s \in Sessions,
           Promouvoir(s) \/ Revoquer(s) \/ Activer(s) \/ Desactiver(s)
    PROVE  ComptesInv'
<1>1. etape[s] = "lue" /\ demande[s].op \in {"promouvoir", "revoquer", "activer", "desactiver"}
      /\ Ferme(s)
    BY Fins DEF ComptesInv, Promouvoir, Revoquer, Activer, Desactiver, Modifier, EnCours
<1>2. Cible(s) \in Comptes
    BY <1>1, CibleType
<1>3. demande[s].op \in {"revoquer", "desactiver"} => demande[s].cible # Racine
    BY <1>1 DEF ComptesInv, RacineIntacte, Decheances
<1>4. /\ demande[s].cible = Racine => (coupure \/ Cible(s).actif) /\ Cible(s).plateforme
      /\ coupure \in BOOLEAN
    BY DEF ComptesInv, Types, RacineIntacte, Cible
<1>5. CASE Promouvoir(s)
  <2> DEFINE ligne == [Cible(s) EXCEPT !.plateforme = TRUE]
  <2>1. /\ ligne \in Comptes /\ ligne.etat = Cible(s).etat /\ ligne.lien = Cible(s).lien
        /\ ligne.auteur = Cible(s).auteur /\ ligne.plateforme /\ ligne.actif = Cible(s).actif
      BY <1>2 DEF Comptes
  <2>2. Modifier(s, "promouvoir", ligne) /\ UNCHANGED <<liens, coupure>>
      BY <1>5 DEF Promouvoir
  <2> HIDE DEF ligne
  <2> QED
      BY <1>1, <1>4, <2>1, <2>2, ModifierCompte DEF Operations, Plateforme
<1>6. CASE Revoquer(s)
  <2> DEFINE ligne == [Cible(s) EXCEPT !.plateforme = FALSE]
  <2>1. /\ ligne \in Comptes /\ ligne.etat = Cible(s).etat /\ ligne.lien = Cible(s).lien
        /\ ligne.auteur = Cible(s).auteur
      BY <1>2 DEF Comptes
  <2>2. /\ Modifier(s, "revoquer", ligne) /\ demande[s].cible # Racine
        /\ UNCHANGED <<liens, coupure>>
      BY <1>3, <1>6 DEF Revoquer, Modifier, EnCours
  <2> HIDE DEF ligne
  <2> QED
      BY <1>1, <1>4, <2>1, <2>2, ModifierCompte DEF Operations, Plateforme
<1>7. CASE Activer(s)
  <2> DEFINE ligne == [Cible(s) EXCEPT !.actif = TRUE]
  <2>1. /\ ligne \in Comptes /\ ligne.etat = Cible(s).etat /\ ligne.lien = Cible(s).lien
        /\ ligne.auteur = Cible(s).auteur /\ ligne.actif /\ ligne.plateforme = Cible(s).plateforme
      BY <1>2 DEF Comptes
  <2>2. /\ Modifier(s, "activer", ligne) /\ UNCHANGED liens
        /\ coupure' = (coupure /\ demande[s].cible # Racine)
      BY <1>7 DEF Activer
  <2> HIDE DEF ligne
  <2> QED
      BY <1>1, <1>4, <2>1, <2>2, ModifierCompte DEF Operations, Plateforme
<1>8. CASE Desactiver(s)
  <2> DEFINE ligne == [Cible(s) EXCEPT !.actif = FALSE]
  <2>1. /\ ligne \in Comptes /\ ligne.etat = Cible(s).etat /\ ligne.lien = Cible(s).lien
        /\ ligne.auteur = Cible(s).auteur
      BY <1>2 DEF Comptes
  <2>2. /\ Modifier(s, "desactiver", ligne) /\ demande[s].cible # Racine
        /\ UNCHANGED <<liens, coupure>>
      BY <1>3, <1>8 DEF Desactiver, Modifier, EnCours
  <2> HIDE DEF ligne
  <2> QED
      BY <1>1, <1>4, <2>1, <2>2, ModifierCompte DEF Operations, Plateforme
<1> QED
    BY <1>5, <1>6, <1>7, <1>8

\* The company disappears with its memberships, and only with them.
LEMMA SupprimerEntrepriseInv ==
    ASSUME ComptesInv, NEW s \in Sessions, SupprimerEntreprise(s)
    PROVE  ComptesInv'
<1> USE DEF ComptesInv
<1>1. Ferme(s) /\ UNCHANGED <<liens, coupure>>
    BY Fins DEF SupprimerEntreprise
<1>2. \A u \in Utilisateurs :
         /\ comptes'[u] \in Comptes /\ comptes'[u].lien = "aucun" /\ ~comptes'[u].auteur
         /\ comptes'[u].etat = comptes[u].etat /\ comptes'[u].actif = comptes[u].actif
         /\ comptes'[u].plateforme = comptes[u].plateforme
  <2> SUFFICES ASSUME NEW u \in Utilisateurs
               PROVE  /\ comptes'[u] \in Comptes /\ comptes'[u].lien = "aucun"
                      /\ ~comptes'[u].auteur
                      /\ comptes'[u].etat = comptes[u].etat
                      /\ comptes'[u].actif = comptes[u].actif
                      /\ comptes'[u].plateforme = comptes[u].plateforme
      OBVIOUS
  <2>1. comptes[u] \in Comptes /\ comptes'[u] = [comptes[u] EXCEPT !.lien = "aucun"]
      BY DEF Types, SupprimerEntreprise
  <2>2. comptes[u].auteur = FALSE
      BY <2>1 DEF SupprimerEntreprise, Vierge, Comptes
  <2> QED
      BY <2>1, <2>2 DEF Comptes
<1>3. Types'
    BY <1>1, <1>2 DEF Types, Ferme, liens, SupprimerEntreprise
<1>4. Adressee' /\ Suite' /\ UnParUtilisateur' /\ LiensMorts' /\ RacineIntacte'
    BY <1>1, <1>2, FinSansLien, HypComptes DEF RacineIntacte, liens
<1>5. RienSansEntreprise'
    BY <1>2 DEF RienSansEntreprise
<1> QED
    BY <1>3, <1>4, <1>5

\* A user and its links are deleted; so can the root not be.
LEMMA SupprimerInv ==
    ASSUME ComptesInv, NEW s \in Sessions, Supprimer(s) \/ Retirer(s)
    PROVE  ComptesInv'
<1> USE DEF ComptesInv
<1> DEFINE u == demande[s].cible
<1>1. /\ etape[s] = "lue" /\ demande[s].op \in {"supprimer", "retirer"}
      /\ SupprimerLigne(s) /\ FinirEquipe(s)
    BY DEF Supprimer, Retirer, EnCours
<1>2. u \in Utilisateurs \ {Racine}
    BY <1>1 DEF Adressee, RacineIntacte, Decheances
<1>3. Ferme(s)
    BY <1>1, Fins
<1>4. Parti \in Comptes /\ Parti.lien = "aucun" /\ ~Parti.auteur
    BY DEF Parti, Nouveau, Comptes
<1>5. /\ comptes' \in [Utilisateurs -> Comptes] /\ comptes'[u] = Parti
      /\ \A v \in Utilisateurs \ {u} : comptes'[v] = comptes[v]
    BY <1>1, <1>2, <1>4 DEF Types, SupprimerLigne
<1> DEFINE S == {j \in Ids : jetons[j].de = u}
<1>6. \A j \in S : jetons[j].etat # "futur"
    BY <1>2, HypComptes DEF Suite
<1>7. jetons' = [j \in Ids |-> IF j \in S THEN [jetons[j] EXCEPT !.etat = "supprime"]
                                          ELSE jetons[j]]
    BY <1>1 DEF SupprimerLigne
<1>8. UNCHANGED <<entreprise, coupure, recus, usages, morts, survivants>>
    BY <1>1 DEF SupprimerLigne
<1> HIDE DEF u
<1>9. /\ jetons' \in [Ids -> Jetons]
      /\ Adressee' /\ Suite' /\ UnParUtilisateur' /\ LiensMorts'
      /\ \A t \in Sessions : etape'[t] # "libre" /\ demande'[t].op \in Decheances
                             => demande'[t].cible # Racine
  <2> HIDE DEF S
  <2>1. S \in SUBSET Ids
      BY DEF S
  <2> QED
      BY <1>3, <1>6, <1>7, <1>8, <2>1, FinElaguee
<1>10. Types'
    BY <1>3, <1>5, <1>8, <1>9 DEF Types, Ferme
<1>11. RacineIntacte'
    BY <1>2, <1>5, <1>8, <1>9, HypComptes DEF RacineIntacte
<1>12. RienSansEntreprise'
    BY <1>4, <1>5, <1>8 DEF RienSansEntreprise, Present
<1> QED
    BY <1>9, <1>10, <1>11, <1>12

LEMMA CreerInv ==
    ASSUME ComptesInv, NEW s \in Sessions, Creer(s)
    PROVE  ComptesInv'
<1> DEFINE u == demande[s].cible
           ligne == Ecrits(Nouveau("membre"), demande[s].champs)
<1>1. Ferme(s)
    BY Fins DEF ComptesInv, Creer
<1>2. u \in Utilisateurs /\ u # Racine
    BY DEF ComptesInv, Adressee, RacineIntacte, Creer, EnCours, Cible
<1>3. ligne \in Comptes /\ ligne.etat = "present"
    BY EcritsType, NouveauType DEF Nouveau
<1>4. entreprise /\ comptes' = [comptes EXCEPT ![u] = ligne]
      /\ UNCHANGED <<entreprise, coupure, liens>>
    BY DEF Creer
<1>5. /\ UNCHANGED <<jetons, recus, usages>> /\ coupure' \in BOOLEAN
      /\ morts' \subseteq Ids /\ survivants' \subseteq morts' /\ LiensMorts'
    BY <1>1, <1>4, FinSansLien DEF liens, ComptesInv, Types
<1> HIDE DEF u, ligne
<1> QED
    BY <1>1, <1>2, <1>3, <1>4, <1>5, EcrireCompte

\* The root may lose its activity, which `coupure' notes; the links of a member
\* whose password is replaced are dead, those in circulation survive.
LEMMA ModifierMembreInv ==
    ASSUME ComptesInv, NEW s \in Sessions, ModifierMembre(s)
    PROVE  ComptesInv'
<1> USE DEF ComptesInv
<1> DEFINE u == demande[s].cible
           champs == demande[s].champs
           ligne == Ecrits(Cible(s), champs)
<1>1. Ferme(s)
    BY Fins DEF ModifierMembre
<1>2. /\ etape[s] = "lue" /\ demande[s].op = "modifier"
      /\ champs \cap {"admin", "membre"} # {} => Cible(s).lien # "aucun"
      /\ Modifier(s, "modifier", ligne)
      /\ UNCHANGED <<jetons, recus, usages>>
    BY DEF ModifierMembre, Modifier, EnCours
<1>3. coupure' = IF u = Racine THEN "actif" \notin champs /\ ("inactif" \in champs \/ coupure)
                              ELSE coupure
    BY DEF ModifierMembre
<1>4. /\ morts' = IF "mdp" \in champs THEN morts \cup {j \in Ids : jetons[j].de = u} ELSE morts
      /\ survivants' = IF "mdp" \in champs THEN survivants \cup EnAttente(u) ELSE survivants
    BY DEF ModifierMembre
<1>5. Cible(s) \in Comptes /\ u \in Utilisateurs
    BY <1>2, CibleType DEF Adressee
<1>6. /\ ligne \in Comptes /\ ligne.etat = Cible(s).etat
      /\ ligne.plateforme = Cible(s).plateforme /\ ligne.auteur = Cible(s).auteur
      /\ champs \cap {"admin", "membre"} = {} => ligne.lien = Cible(s).lien
      /\ "actif" \in champs => ligne.actif
      /\ "inactif" \notin champs /\ Cible(s).actif => ligne.actif
    BY <1>5, EcritsType
<1>7. /\ comptes' = [comptes EXCEPT ![u] = ligne] /\ entreprise' = entreprise
      /\ Cible(s).etat = "present"
    BY <1>2 DEF Modifier, Present, Cible
<1>8. /\ coupure' \in BOOLEAN
      /\ u = Racine => (coupure' \/ ligne.actif) /\ ligne.plateforme
      /\ u # Racine => coupure' = coupure
  <2>1. u = Racine => (coupure \/ Cible(s).actif) /\ Cible(s).plateforme
      BY DEF RacineIntacte, Cible
  <2>2. coupure \in BOOLEAN
      BY DEF Types
  <2> HIDE DEF u, champs, ligne
  <2> QED
      BY <1>3, <1>6, <2>1, <2>2
<1>9. ligne.lien # "aucun" \/ ligne.auteur => entreprise
  <2>1. Cible(s).lien # "aucun" \/ Cible(s).auteur => entreprise
      BY <1>5 DEF RienSansEntreprise, Cible
  <2> HIDE DEF u, champs, ligne
  <2> QED
      BY <1>2, <1>6, <2>1
<1> HIDE DEF u, champs, ligne
<1>10. \A j \in Ids : jetons[j].de = u => jetons[j].etat \in {"valable", "echu", "utilise", "supprime"}
  <2> SUFFICES ASSUME NEW j \in Ids, jetons[j].de = u
               PROVE  jetons[j].etat \in {"valable", "echu", "utilise", "supprime"}
      OBVIOUS
  <2>1. jetons[j] \in Jetons /\ jetons[j].etat # "futur"
      BY <1>5, HypComptes DEF Types, Suite
  <2> QED
      BY <2>1 DEF Jetons
<1>11. morts' \subseteq Ids /\ survivants' \subseteq morts'
    BY <1>4 DEF Types, EnAttente
<1>12. \A j \in Ids : j \in morts' \ survivants' =>
          \/ j \in morts \ survivants
          \/ jetons[j].etat = "supprime"
    BY <1>4, <1>10 DEF EnAttente, LiensMorts
<1>13. LiensMorts'
  <2>1. ASSUME NEW j \in Ids
        PROVE  /\ jetons'[j].etat \in {"futur", "valable", "echu"} => j \notin morts' \ survivants'
               /\ jetons'[j].etat = "utilise" => j \in morts'
      BY <1>2, <1>4, <1>12 DEF LiensMorts
  <2>2. ASSUME NEW t \in Sessions, EnCours(t, "appliquer")', demande'[t].jeton \in morts' \ survivants',
               jetons'[demande'[t].jeton].etat # "supprime"
        PROVE  "usage" \in vus'[t]
    <3>1. EnCours(t, "appliquer") /\ demande'[t] = demande[t] /\ vus[t] \subseteq vus'[t]
        BY <1>1, <2>2 DEF EnCours, Ferme
    <3>2. demande[t].jeton \in Ids
        BY <3>1 DEF Adressee, EnCours
    <3>3. /\ demande[t].jeton \in morts \ survivants
          /\ jetons[demande[t].jeton].etat # "supprime"
        BY <1>2, <1>12, <2>2, <3>1, <3>2
    <3> QED
        BY <3>1, <3>3 DEF LiensMorts
  <2> QED
      BY <2>1, <2>2 DEF LiensMorts
<1>14. ligne.etat = "present" /\ UNCHANGED <<entreprise, jetons, recus, usages>>
    BY <1>2, <1>6, <1>7
<1> QED
    BY <1>1, <1>5, <1>6, <1>7, <1>8, <1>9, <1>11, <1>13, <1>14, EcrireCompte

LEMMA ProduireInv ==
    ASSUME ComptesInv, NEW s \in Sessions, Produire(s)
    PROVE  ComptesInv'
<1> DEFINE ligne == [Cible(s) EXCEPT !.auteur = TRUE]
<1>1. Ferme(s)
    BY Fins DEF ComptesInv, Produire
<1>2. etape[s] = "lue" /\ demande[s].op = "produire" /\ entreprise
      /\ Modifier(s, "produire", ligne) /\ UNCHANGED <<liens, coupure>>
    BY DEF Produire, Modifier, EnCours
<1>3. Cible(s) \in Comptes
    BY <1>2, CibleType
<1>4. /\ ligne \in Comptes /\ ligne.etat = Cible(s).etat /\ ligne.actif = Cible(s).actif
      /\ ligne.plateforme = Cible(s).plateforme /\ ligne.lien = Cible(s).lien
    BY <1>3 DEF Comptes
<1>5. /\ demande[s].cible = Racine => (coupure \/ Cible(s).actif) /\ Cible(s).plateforme
      /\ coupure \in BOOLEAN
    BY DEF ComptesInv, Types, RacineIntacte, Cible
<1> HIDE DEF ligne
<1> QED
    BY <1>1, <1>2, <1>4, <1>5, ModifierCompte DEF Operations, Equipe

LEMMA AbandonnerInv ==
    ASSUME ComptesInv, NEW s \in Sessions, Abandonner(s)
    PROVE  ComptesInv'
<1> USE DEF ComptesInv
<1>1. Ferme(s) /\ UNCHANGED <<base, liens>>
    BY Fins DEF Abandonner
<1>2. UNCHANGED <<comptes, entreprise, coupure, jetons, recus, usages, morts, survivants>>
    BY <1>1 DEF base, liens
<1>3. Types'
    BY <1>1, <1>2 DEF Types, Ferme
<1>4. Adressee' /\ Suite' /\ UnParUtilisateur' /\ LiensMorts' /\ RacineIntacte'
    BY <1>1, <1>2, FinSansLien DEF RacineIntacte
<1>5. RienSansEntreprise'
    BY <1>2 DEF RienSansEntreprise, Present
<1> QED
    BY <1>3, <1>4, <1>5

LEMMA InscrireInv ==
    ASSUME ComptesInv, NEW u \in Utilisateurs, Inscrire(u)
    PROVE  ComptesInv'
<1> USE DEF ComptesInv
<1>0. PICK champs \in {{}, {"inactif"}} :
         comptes' = [comptes EXCEPT ![u] = Ecrits(Nouveau("aucun"), champs)]
    BY DEF Inscrire
<1> DEFINE ligne == Ecrits(Nouveau("aucun"), champs)
<1>1. ligne \in Comptes /\ ligne.lien = "aucun" /\ ~ligne.auteur
    BY NouveauType, EcritsType DEF Nouveau
<1>2. UNCHANGED <<entreprise, coupure, jetons, recus, usages, morts, survivants, etape, demande, vus>>
    BY DEF Inscrire, liens, requete
<1>3. u # Racine
    BY DEF Inscrire, RacineIntacte
<1>4. comptes' = [comptes EXCEPT ![u] = ligne]
    BY <1>0
<1> HIDE DEF ligne
<1>5. /\ comptes' \in [Utilisateurs -> Comptes] /\ comptes'[u] = ligne
      /\ \A v \in Utilisateurs \ {u} : comptes'[v] = comptes[v]
    BY <1>1, <1>4 DEF Types
<1>6. Types'
    BY <1>2, <1>5 DEF Types
<1>7. Adressee' /\ Suite' /\ UnParUtilisateur' /\ LiensMorts'
    BY <1>2 DEF Adressee, Suite, UnParUtilisateur, LiensMorts, EnCours
<1>8. RacineIntacte'
    BY <1>2, <1>3, <1>5, HypComptes DEF RacineIntacte
<1>9. RienSansEntreprise'
    BY <1>1, <1>2, <1>5 DEF RienSansEntreprise, Present
<1> QED
    BY <1>6, <1>7, <1>8, <1>9

\* A request that is decided on a valid link, and never against the root.
LEMMA RecevoirInv ==
    ASSUME ComptesInv, NEW s \in Sessions, Recevoir(s)
    PROVE  ComptesInv'
<1> USE DEF ComptesInv
<1>0. PICK d \in Recevables(droits[s]), agent \in Utilisateurs :
         ~Refus(agent, d) /\ demande' = [demande EXCEPT ![s] = d]
    BY DEF Recevoir
<1>1. UNCHANGED <<comptes, entreprise, coupure, jetons, recus, usages, morts, survivants, vus>>
    BY DEF Recevoir, base, liens
<1>2. /\ etape' = [etape EXCEPT ![s] = "lue"] /\ demande' = [demande EXCEPT ![s] = d]
      /\ d \in Demandes /\ ~Refus(agent, d)
    BY <1>0 DEF Recevoir, Recevables, Demandes, Appels
<1>3. Types'
    BY <1>1, <1>2 DEF Types
<1>4. /\ d.op # "supprimer_entreprise" => d.cible \in Utilisateurs
      /\ d.op = "appliquer" => d.jeton \in Ids /\ jetons[d.jeton].etat = "valable"
  <2>1. d.cible \in Utilisateurs \cup {Aucun}
      BY <1>2 DEF Demandes, Appels
  <2>2. d.op = "appliquer" => d.jeton \in recus
      BY DEF Recevables
  <2>3. d.op = "appliquer" => jetons[d.jeton].etat = "valable"
      BY <1>2 DEF Refus, RefusAppliquer
  <2> QED
      BY <2>1, <2>2, <2>3 DEF Recevables, Types
<1>5. d.op \in Decheances => d.cible # Racine
    BY <1>2 DEF Refus, RefusRevoquer, RefusSupprimer, Decheances
<1>6. /\ etape'[s] = "lue" /\ demande'[s] = d
      /\ \A t \in Sessions \ {s} : etape'[t] = etape[t] /\ demande'[t] = demande[t]
    BY <1>2 DEF Types
<1>7. Adressee'
    BY <1>1, <1>4, <1>6 DEF Adressee
<1>8. RacineIntacte'
    BY <1>1, <1>5, <1>6 DEF RacineIntacte
<1>9. Suite' /\ UnParUtilisateur' /\ RienSansEntreprise'
    BY <1>1 DEF Suite, UnParUtilisateur, RienSansEntreprise, Present
<1>10. LiensMorts'
  <2>1. d.op = "appliquer" => d.jeton \notin morts \ survivants
      BY <1>4 DEF LiensMorts
  <2>2. \A t \in Sessions : EnCours(t, "appliquer")' /\ demande'[t].jeton \in morts \ survivants
                            => t # s /\ EnCours(t, "appliquer") /\ demande'[t] = demande[t]
      BY <1>6, <2>1 DEF EnCours
  <2> QED
      BY <1>1, <2>2 DEF LiensMorts
<1> QED
    BY <1>3, <1>7, <1>8, <1>9, <1>10
-----------------------------------------------------------------------------
(* Links *)

LEMMA EnvoyerInv ==
    ASSUME ComptesInv, NEW s \in Sessions, Envoyer(s)
    PROVE  ComptesInv'
<1> USE DEF ComptesInv
<1>1. Ferme(s) /\ UNCHANGED <<comptes, entreprise, coupure, jetons, usages, morts, survivants>>
    BY Fins DEF Envoyer, base
<1>2. recus' \subseteq Ids
    BY DEF Envoyer, Adressee, Types
<1>3. Types'
    BY <1>1, <1>2 DEF Types, Ferme
<1>4. Adressee' /\ Suite' /\ UnParUtilisateur' /\ LiensMorts' /\ RacineIntacte'
    BY <1>1, FinSansLien DEF RacineIntacte
<1>5. RienSansEntreprise'
    BY <1>1 DEF RienSansEntreprise, Present
<1> QED
    BY <1>3, <1>4, <1>5

LEMMA ChangerMotDePasseInv ==
    ASSUME ComptesInv, NEW s \in Sessions, ChangerMotDePasse(s)
    PROVE  ComptesInv'
<1> USE DEF ComptesInv
<1> DEFINE u == demande[s].cible
           S == EnAttente(u)
<1>1. Ferme(s) /\ UNCHANGED <<comptes, entreprise, coupure, recus, usages, survivants>>
    BY Fins DEF ChangerMotDePasse, base
<1>2. u \in Utilisateurs
    BY DEF ChangerMotDePasse, Adressee, EnCours
<1>3. /\ jetons' = [j \in Ids |-> IF j \in S THEN [jetons[j] EXCEPT !.etat = "supprime"]
                                            ELSE jetons[j]]
      /\ morts' = morts \cup {j \in Ids : jetons[j].de = u}
    BY DEF ChangerMotDePasse, SansEnAttente
<1>4. S \subseteq Ids /\ \A j \in S : jetons[j].etat # "futur"
    BY DEF EnAttente
<1>5. \A j \in morts' \ morts : jetons'[j].etat = "supprime"
  <2> SUFFICES ASSUME NEW j \in Ids, j \notin morts, jetons[j].de = u
               PROVE  jetons'[j].etat = "supprime"
      BY <1>3
  <2>1. jetons[j] \in Jetons /\ jetons[j].etat \notin {"futur", "utilise"}
      BY <1>2, HypComptes DEF Types, Suite, LiensMorts
  <2>2. CASE jetons[j].etat = "supprime"
      BY <1>3, <2>1, <2>2 DEF EnAttente
  <2>3. CASE jetons[j].etat \in {"valable", "echu"}
      BY <1>3, <2>1, <2>3 DEF EnAttente, Jetons
  <2> QED
      BY <2>1, <2>2, <2>3 DEF Jetons
<1>6. morts \subseteq morts' /\ morts' \subseteq Ids
    BY <1>3 DEF Types
<1> HIDE DEF S
<1>7. /\ jetons' \in [Ids -> Jetons]
      /\ Adressee' /\ Suite' /\ UnParUtilisateur' /\ LiensMorts'
      /\ \A t \in Sessions : etape'[t] # "libre" /\ demande'[t].op \in Decheances
                             => demande'[t].cible # Racine
    BY <1>1, <1>3, <1>4, <1>5, <1>6, FinElaguee
<1>8. Types'
    BY <1>1, <1>6, <1>7 DEF Types, Ferme
<1>9. RacineIntacte' /\ RienSansEntreprise'
    BY <1>1, <1>7 DEF RacineIntacte, RienSansEntreprise, Present
<1> QED
    BY <1>7, <1>8, <1>9

LEMMA ExpirerInv ==
    ASSUME ComptesInv, NEW i \in Ids, Expirer(i)
    PROVE  ComptesInv'
<1> USE DEF ComptesInv
<1>1. UNCHANGED <<comptes, entreprise, coupure, recus, usages, morts, survivants, etape, demande, vus>>
    BY DEF Expirer, base, requete
<1>2. /\ jetons' \in [Ids -> Jetons]
      /\ jetons'[i].etat = "echu" /\ jetons[i].etat = "valable" /\ jetons'[i].de = jetons[i].de
      /\ \A j \in Ids \ {i} : jetons'[j] = jetons[j]
    BY DEF Expirer, Types, Jetons
<1>3. Types'
    BY <1>1, <1>2 DEF Types
<1>4. Adressee' /\ LiensMorts'
  <2>1. \A j \in Ids : /\ jetons'[j].etat = "futur" <=> jetons[j].etat = "futur"
                       /\ jetons'[j].etat = "utilise" <=> jetons[j].etat = "utilise"
                       /\ jetons'[j].etat = "supprime" <=> jetons[j].etat = "supprime"
                       /\ jetons'[j].etat \in {"valable", "echu"}
                          <=> jetons[j].etat \in {"valable", "echu"}
      BY <1>2
  <2>2. Adressee'
      BY <1>1, <2>1 DEF Adressee
  <2>3. \A s \in Sessions : EnCours(s, "appliquer") => demande[s].jeton \in Ids
      BY DEF Adressee, EnCours
  <2> QED
      BY <1>1, <2>1, <2>2, <2>3 DEF LiensMorts, EnCours
<1>5. Suite'
  <2>1. \A j \in Ids : /\ jetons'[j].etat = "futur" <=> jetons[j].etat = "futur"
                       /\ jetons'[j].de = jetons[j].de
      BY <1>2
  <2> QED
      BY <2>1 DEF Suite
<1>6. UnParUtilisateur'
    BY <1>2 DEF UnParUtilisateur
<1>7. RacineIntacte' /\ RienSansEntreprise'
    BY <1>1 DEF RacineIntacte, RienSansEntreprise, Present
<1> QED
    BY <1>3, <1>4, <1>5, <1>6, <1>7

\* A link is used: it is dead, and the other requests that carry it have missed it.
LEMMA AppliquerInv ==
    ASSUME ComptesInv, NEW s \in Sessions, Appliquer(s)
    PROVE  ComptesInv'
<1> USE DEF ComptesInv
<1> DEFINE i == demande[s].jeton
           T == {t \in Sessions : demande[t].op = "appliquer" /\ demande[t].jeton = i}
<1>1. i \in Ids /\ jetons[i].etat # "futur"
    BY DEF Appliquer, Adressee, EnCours
<1>2. Ferme(s) /\ \A t \in Sessions \ {s} : t \in T => "usage" \in vus'[t]
  <2>1. Clore(s) /\ Signaler(s, "usage", T)
      BY DEF Appliquer
  <2> HIDE DEF T
  <2> QED
      BY <2>1, Fermeture
<1>3. /\ UNCHANGED <<comptes, entreprise, coupure, recus>>
      /\ morts' = morts \cup {i} /\ survivants' = survivants \ {i}
    BY DEF Appliquer, base
<1>4. /\ jetons' \in [Ids -> Jetons] /\ usages' \in [Ids -> Nat]
      /\ jetons'[i].etat = "utilise" /\ jetons'[i].de = jetons[i].de
      /\ \A j \in Ids \ {i} : jetons'[j] = jetons[j]
    BY <1>1 DEF Appliquer, Types, Jetons
<1>5. Types'
    BY <1>1, <1>2, <1>3, <1>4 DEF Types, Ferme
<1>6. \A j \in Ids : /\ jetons'[j].etat = "futur" <=> jetons[j].etat = "futur"
                     /\ jetons'[j].de = jetons[j].de
                     /\ jetons'[j].etat \in {"valable", "echu"}
                        => jetons[j].etat \in {"valable", "echu"}
    BY <1>1, <1>4
<1>7. Adressee' /\ Suite' /\ UnParUtilisateur'
    BY <1>2, <1>6 DEF Adressee, Suite, UnParUtilisateur, Ferme
<1>8. LiensMorts'
  <2>1. ASSUME NEW j \in Ids
        PROVE  /\ jetons'[j].etat \in {"futur", "valable", "echu"} => j \notin morts' \ survivants'
               /\ jetons'[j].etat = "utilise" => j \in morts'
      BY <1>3, <1>4 DEF LiensMorts
  <2>2. ASSUME NEW t \in Sessions, EnCours(t, "appliquer")', demande'[t].jeton \in morts' \ survivants',
               jetons'[demande'[t].jeton].etat # "supprime"
        PROVE  "usage" \in vus'[t]
    <3>1. /\ t # s /\ EnCours(t, "appliquer") /\ demande'[t] = demande[t]
          /\ vus[t] \subseteq vus'[t]
        BY <1>2, <2>2 DEF EnCours, Ferme
    <3>2. CASE demande[t].jeton = i
        BY <1>2, <3>1, <3>2 DEF EnCours
    <3>3. CASE demande[t].jeton # i
      <4>1. demande[t].jeton \in Ids
          BY <3>1 DEF Adressee, EnCours
      <4> QED
          BY <1>3, <1>4, <2>2, <3>1, <3>3, <4>1 DEF LiensMorts
    <3> QED
        BY <3>2, <3>3
  <2> QED
      BY <2>1, <2>2 DEF LiensMorts
<1>9. RacineIntacte' /\ RienSansEntreprise'
    BY <1>2, <1>3 DEF RacineIntacte, RienSansEntreprise, Present, Ferme
<1> QED
    BY <1>5, <1>7, <1>8, <1>9

\* The next id follows the last one given.
LEMMA Suivant ==
    ASSUME ComptesInv, \E j \in Ids : jetons[j].etat = "futur"
    PROVE  /\ JetonSuivant \in Ids
           /\ \A j \in Ids : jetons[j].etat = "futur" <=> j >= JetonSuivant
<1>1. PICK k \in 0..MaxJetons : \A j \in Ids : jetons[j].etat = "futur" <=> j > k
    BY DEF ComptesInv, Suite
<1>2. k + 1 \in Ids
    BY <1>1, HypJetons DEF Ids
<1> DEFINE F == {j \in Ids : jetons[j].etat = "futur"}
<1>3. F = {j \in Ids : j >= k + 1}
    BY <1>1, HypJetons DEF Ids
<1>4. k + 1 \in F /\ \A j \in F : k + 1 <= j
    BY <1>2, <1>3, HypJetons DEF Ids
<1>5. \A m \in F : (\A j \in F : m <= j) => m = k + 1
    BY <1>3, <1>4, HypJetons DEF Ids
<1>6. Min(F) = k + 1
  <2> HIDE DEF F
  <2> QED
      BY <1>4, <1>5 DEF Min
<1>7. JetonSuivant = k + 1
    BY <1>6 DEF JetonSuivant
<1> QED
    BY <1>1, <1>2, <1>7, HypJetons DEF Ids

\* The new link takes the place of those in circulation.
LEMMA DemanderInv ==
    ASSUME ComptesInv, NEW s \in Sessions, Demander(s)
    PROVE  ComptesInv'
<1> USE DEF ComptesInv
<1> DEFINE u == demande[s].cible
           k == JetonSuivant
<1>1. k \in Ids /\ \A j \in Ids : jetons[j].etat = "futur" <=> j >= k
    BY Suivant DEF Demander
<1>2. u \in Utilisateurs /\ etape[s] = "lue" /\ demande[s].op = "demander"
    BY DEF Demander, Adressee, EnCours
<1>3. UNCHANGED <<comptes, entreprise, coupure, recus, usages, survivants, vus>>
    BY DEF Demander, base
<1>4. /\ jetons' = [SansEnAttente(u) EXCEPT ![k] = [etat |-> "valable", de |-> u]]
      /\ morts' = morts \cup {j \in Ids : jetons[j].de = u}
      /\ etape' = [etape EXCEPT ![s] = "engagee"]
      /\ demande' = [demande EXCEPT ![s].jeton = k]
    BY DEF Demander
<1> HIDE DEF u, k
<1>5. /\ jetons' \in [Ids -> Jetons]
      /\ jetons'[k].etat = "valable" /\ jetons'[k].de = u
      /\ \A j \in Ids \ {k} :
            /\ jetons'[j].de = jetons[j].de
            /\ jetons'[j].etat = IF j \in EnAttente(u) THEN "supprime" ELSE jetons[j].etat
  <2>1. [etat |-> "valable", de |-> u] \in Jetons
      BY <1>2 DEF Jetons
  <2>2. /\ SansEnAttente(u) \in [Ids -> Jetons]
        /\ \A j \in Ids :
              /\ SansEnAttente(u)[j].de = jetons[j].de
              /\ SansEnAttente(u)[j].etat =
                    IF j \in EnAttente(u) THEN "supprime" ELSE jetons[j].etat
      BY DEF SansEnAttente, Types, Jetons
  <2> QED
      BY <1>1, <1>4, <2>1, <2>2
<1>6. /\ etape' \in [Sessions -> {"libre", "lue", "engagee"}] /\ etape'[s] = "engagee"
      /\ \A t \in Sessions \ {s} : etape'[t] = etape[t]
    BY <1>4 DEF Types
<1>7. /\ demande' \in [Sessions -> Demandes]
      /\ demande'[s].jeton = k /\ demande'[s].op = "demander" /\ demande'[s].cible = u
      /\ \A t \in Sessions \ {s} : demande'[t] = demande[t]
  <2>1. demande[s] \in Demandes /\ demande' = [demande EXCEPT ![s] = [demande[s] EXCEPT !.jeton = k]]
      BY <1>4 DEF Types
  <2>2. /\ [demande[s] EXCEPT !.jeton = k] \in Demandes
        /\ [demande[s] EXCEPT !.jeton = k].op = demande[s].op
        /\ [demande[s] EXCEPT !.jeton = k].cible = demande[s].cible
        /\ [demande[s] EXCEPT !.jeton = k].jeton = k
      BY <1>1, <2>1 DEF Demandes, Appels
  <2> QED
      BY <1>2, <2>1, <2>2 DEF Types, u
<1>8. Types'
    BY <1>3, <1>4, <1>5, <1>6, <1>7 DEF Types
<1>9. k \notin EnAttente(u) /\ jetons[k].etat = "futur" /\ jetons[k].de = Aucun
    BY <1>1, <1>2, HypComptes, HypJetons DEF EnAttente, Suite, Ids
<1>10. \A j \in Ids : jetons'[j].etat = "futur" <=> j # k /\ jetons[j].etat = "futur"
    BY <1>5 DEF EnAttente
<1>11. Adressee'
  <2>1. \A t \in Sessions \ {s} :
              etape[t] # "libre" /\ (demande[t].op = "appliquer" \/ etape[t] = "engagee") =>
              jetons'[demande[t].jeton].etat # "futur" /\ demande[t].jeton \in Ids
      BY <1>10 DEF Adressee
  <2> QED
      BY <1>1, <1>2, <1>6, <1>7, <1>10, <2>1 DEF Adressee
<1>12. Suite'
  <2>1. k \in 0..MaxJetons /\ \A j \in Ids : jetons'[j].etat = "futur" <=> j > k
      BY <1>1, <1>10, HypJetons DEF Ids
  <2>2. \A j \in Ids : jetons'[j].etat = "futur" <=> jetons'[j].de = Aucun
      BY <1>2, <1>5, <1>10, HypComptes DEF Suite
  <2> QED
      BY <2>1, <2>2 DEF Suite
<1>13. \A j \in Ids \ {k} : jetons'[j].etat \in {"valable", "echu"} =>
          jetons[j].etat \in {"valable", "echu"} /\ jetons[j].de # u
    BY <1>5 DEF EnAttente
<1>14. UnParUtilisateur'
    BY <1>5, <1>13 DEF UnParUtilisateur
<1>15. LiensMorts'
  <2>1. k \notin morts' \ survivants'
    <3>1. k \notin morts \ survivants /\ jetons[k].de # u
        BY <1>1, <1>2, <1>9, HypComptes DEF LiensMorts
    <3> QED
        BY <1>3, <1>4, <3>1
  <2>2. ASSUME NEW j \in Ids
        PROVE  /\ jetons'[j].etat \in {"futur", "valable", "echu"} => j \notin morts' \ survivants'
               /\ jetons'[j].etat = "utilise" => j \in morts'
    <3>1. CASE j = k
        BY <1>5, <2>1, <3>1
    <3>2. CASE j # k
      <4>1. jetons'[j].etat \in {"valable", "echu"} => jetons[j].de # u /\ j \notin morts \ survivants
          BY <1>13, <3>2 DEF LiensMorts
      <4>2. jetons'[j].etat = "futur" => jetons[j].de = Aucun /\ j \notin morts \ survivants
          BY <1>10 DEF Suite, LiensMorts
      <4>3. jetons'[j].etat = "utilise" => j \in morts
          BY <1>5, <3>2 DEF LiensMorts
      <4> QED
          BY <1>2, <1>3, <1>4, <4>1, <4>2, <4>3, HypComptes
    <3> QED
        BY <3>1, <3>2
  <2>3. ASSUME NEW t \in Sessions, EnCours(t, "appliquer")', demande'[t].jeton \in morts' \ survivants',
               jetons'[demande'[t].jeton].etat # "supprime"
        PROVE  "usage" \in vus'[t]
    <3>1. t # s /\ EnCours(t, "appliquer") /\ demande'[t] = demande[t]
        BY <1>6, <1>7, <2>3 DEF EnCours
    <3> DEFINE j == demande[t].jeton
    <3>2. j \in Ids /\ j # k /\ j \in morts' \ survivants
        BY <1>3, <1>9, <2>3, <3>1 DEF Adressee, EnCours
    <3>3. jetons[j].etat # "supprime" /\ j \notin EnAttente(u)
        BY <1>5, <2>3, <3>1, <3>2
    <3>4. j \in morts \ survivants
      <4>1. CASE jetons[j].de = u
        <5>1. jetons[j] \in Jetons /\ jetons[j].etat \notin {"futur", "valable", "echu", "supprime"}
            BY <1>2, <3>2, <3>3, <4>1, HypComptes DEF Types, Suite, EnAttente
        <5> QED
            BY <3>2, <5>1 DEF Jetons, LiensMorts
      <4>2. CASE jetons[j].de # u
          BY <1>4, <3>2, <4>2
      <4> QED
          BY <4>1, <4>2
    <3> QED
        BY <1>3, <3>1, <3>3, <3>4 DEF LiensMorts
  <2> QED
      BY <2>2, <2>3 DEF LiensMorts
<1>16. RacineIntacte'
    BY <1>3, <1>6, <1>7 DEF RacineIntacte, Decheances
<1>17. RienSansEntreprise'
    BY <1>3 DEF RienSansEntreprise, Present
<1> QED
    BY <1>8, <1>11, <1>12, <1>14, <1>15, <1>16, <1>17
-----------------------------------------------------------------------------
(* Every step *)

LEMMA InvInitiale == Init => ComptesInv
<1> SUFFICES ASSUME Init
             PROVE  ComptesInv
    OBVIOUS
<1>1. Racine \in Utilisateurs
    BY HypComptes
<1> DEFINE ligne(u, f) == [Nouveau(IF u = f THEN "admin" ELSE "aucun") EXCEPT
                             !.plateforme = u = Racine,
                             !.etat = IF u \in {Racine, f} THEN "present" ELSE "futur"]
<1>2. PICK f \in Fondateurs : comptes = [u \in Utilisateurs |-> ligne(u, f)]
    BY DEF Init
<1>3. \A u \in Utilisateurs :
         /\ ligne(u, f) \in Comptes /\ ligne(u, f).actif /\ ~ligne(u, f).auteur
         /\ u = Racine => ligne(u, f).etat = "present" /\ ligne(u, f).plateforme
         /\ ligne(u, f).lien # "aucun" => ligne(u, f).etat = "present"
  <2> SUFFICES ASSUME NEW u \in Utilisateurs
               PROVE  /\ ligne(u, f) \in Comptes /\ ligne(u, f).actif /\ ~ligne(u, f).auteur
                      /\ u = Racine => ligne(u, f).etat = "present" /\ ligne(u, f).plateforme
                      /\ ligne(u, f).lien # "aucun" => ligne(u, f).etat = "present"
      OBVIOUS
  <2> QED
      BY DEF Nouveau, Comptes
<1> HIDE DEF ligne
<1>4. /\ comptes \in [Utilisateurs -> Comptes]
      /\ \A u \in Utilisateurs : comptes[u] = ligne(u, f)
    BY <1>2, <1>3
<1>5. /\ etape \in [Sessions -> {"libre", "lue", "engagee"}] /\ \A s \in Sessions : etape[s] = "libre"
      /\ demande \in [Sessions -> Demandes] /\ vus \in [Sessions -> SUBSET {"equipe", "usage"}]
    BY SansDemandeType DEF Init
<1>6. /\ jetons \in [Ids -> Jetons] /\ usages \in [Ids -> Nat]
      /\ \A j \in Ids : jetons[j].etat = "futur" /\ jetons[j].de = Aucun
    BY DEF Init, Jetons
<1>7. Types
    BY <1>4, <1>5, <1>6 DEF Init, Types
<1>8. Adressee /\ RacineIntacte
    BY <1>1, <1>3, <1>4, <1>5 DEF Adressee, RacineIntacte
<1>9. RienSansEntreprise
  <2> SUFFICES ASSUME NEW u \in Utilisateurs
               PROVE  (comptes[u].lien # "aucun" => comptes[u].etat = "present") /\ ~comptes[u].auteur
      BY DEF RienSansEntreprise, Present, Init
  <2> QED
      BY <1>3, <1>4
<1>10. Suite
  <2>1. MaxJetons \in 0..MaxJetons /\ 0 \in 0..MaxJetons /\ \A j \in Ids : j > 0
      BY HypJetons DEF Ids
  <2> QED
      BY <1>6, <2>1 DEF Suite
<1>11. UnParUtilisateur /\ LiensMorts
    BY <1>5, <1>6 DEF Init, UnParUtilisateur, LiensMorts, EnCours
<1> QED
    BY <1>7, <1>8, <1>9, <1>10, <1>11 DEF ComptesInv

LEMMA InvConservee == ComptesInv /\ [Next]_vars => ComptesInv'
<1> SUFFICES ASSUME ComptesInv, [Next]_vars
             PROVE  ComptesInv'
    OBVIOUS
<1>1. CASE UNCHANGED vars
    BY <1>1 DEF vars, base, liens, requete, ComptesInv, Types, Adressee, RacineIntacte,
                RienSansEntreprise, Present, Suite, UnParUtilisateur, LiensMorts, EnCours
<1>2. ASSUME NEW s \in Sessions, Recevoir(s)
      PROVE  ComptesInv'
    BY <1>2, RecevoirInv
<1>3. ASSUME NEW s \in Sessions,
             \/ Promouvoir(s) \/ Revoquer(s) \/ Activer(s) \/ Desactiver(s)
             \/ Supprimer(s) \/ SupprimerEntreprise(s)
             \/ Creer(s) \/ ModifierMembre(s) \/ Retirer(s) \/ Produire(s)
             \/ Demander(s) \/ Envoyer(s) \/ Appliquer(s) \/ ChangerMotDePasse(s)
             \/ Abandonner(s)
      PROVE  ComptesInv'
    BY <1>3, PlateformeInv, SupprimerInv, SupprimerEntrepriseInv, CreerInv, ModifierMembreInv,
       ProduireInv, DemanderInv, EnvoyerInv, AppliquerInv, ChangerMotDePasseInv, AbandonnerInv
<1>4. ASSUME NEW u \in Utilisateurs, Inscrire(u)
      PROVE  ComptesInv'
    BY <1>4, InscrireInv
<1>5. ASSUME NEW j \in Ids, Expirer(j)
      PROVE  ComptesInv'
    BY <1>5, ExpirerInv
<1> QED
    BY <1>1, <1>2, <1>3, <1>4, <1>5 DEF Next

LEMMA Invariance == Spec => []ComptesInv
<1> QED
    BY InvInitiale, InvConservee, PTL DEF Spec
-----------------------------------------------------------------------------
(* Results *)

\* An administrator always remains, whatever requests cross, and one who can act as
\* long as the team of the root has not deactivated it
\* (utilisateurs/services.py:163-196, administration/services.py:870-1010,
\* utilisateurs/router.py:361-447): the counts are read before the commit and prove
\* nothing, the protected account does.
THEOREM AdministrateurPermanent == Spec => []AdminPresent
<1>1. ComptesInv => AdminPresent
    BY HypComptes DEF ComptesInv, RacineIntacte, AdminPresent, Admins
<1> QED
    BY <1>1, Invariance, PTL

\* No membership and no data without their company and their user
\* (administration/services.py:1045-1136), for any number of concurrent requests.
THEOREM DonneesRattachees == Spec => []RienSansEntreprise
<1>1. ComptesInv => RienSansEntreprise
    BY DEF ComptesInv
<1> QED
    BY <1>1, Invariance, PTL

\* At most one link in circulation per user (auth/service.py:45-82), whatever
\* requests for a link and changes of password cross.
THEOREM LienUnique == Spec => []UnSeulLien
<1>1. ComptesInv => UnSeulLien
  <2> SUFFICES ASSUME ComptesInv, NEW u \in Utilisateurs
               PROVE  Cardinality(EnAttente(u)) <= 1
      BY DEF UnSeulLien
  <2>1. \A i, j \in EnAttente(u) : i = j
      BY DEF ComptesInv, UnParUtilisateur, EnAttente
  <2>2. CASE EnAttente(u) = {}
      BY <2>2, FS_EmptySet
  <2>3. CASE EnAttente(u) # {}
    <3>1. PICK i \in EnAttente(u) : TRUE
        BY <2>3
    <3>2. EnAttente(u) = {i}
        BY <2>1, <3>1
    <3>3. Cardinality({i}) = 1
        BY FS_Singleton
    <3> QED
        BY <3>2, <3>3
  <2> QED
      BY <2>2, <2>3
<1> QED
    BY <1>1, Invariance, PTL

\* A dead link replaces a password only in a request that overlapped another use
\* of it, or when the team, which deletes no link, made the last change
\* (auth/service.py:72-130, utilisateurs/router.py:409-411).
THEOREM LienMortSansEffet == Spec => LienMortInutile
<1> DEFINE Usage == \A j \in Ids : usages'[j] > usages[j] /\ j \in morts \ survivants =>
          \E s \in Sessions : /\ EnCours(s, "appliquer") /\ etape'[s] = "libre"
                              /\ demande[s].jeton = j /\ "usage" \in vus[s]
<1>1. ComptesInv /\ [Next]_vars => [Usage]_vars
  <2> SUFFICES ASSUME ComptesInv, [Next]_vars,
                      NEW j \in Ids, usages'[j] > usages[j], j \in morts \ survivants
               PROVE  \E s \in Sessions : /\ EnCours(s, "appliquer") /\ etape'[s] = "libre"
                                          /\ demande[s].jeton = j /\ "usage" \in vus[s]
      OBVIOUS
  <2>1. usages[j] \in Nat /\ usages' # usages
      BY DEF ComptesInv, Types
  <2>2. PICK s \in Sessions : Appliquer(s)
    <3>1. ASSUME NEW s \in Sessions, Supprimer(s) \/ Retirer(s)
          PROVE  UNCHANGED usages
        BY <3>1 DEF Supprimer, Retirer, SupprimerLigne
    <3>2. ASSUME NEW s \in Sessions, Promouvoir(s) \/ Revoquer(s) \/ Activer(s) \/ Desactiver(s)
                                     \/ ModifierMembre(s) \/ Produire(s)
          PROVE  UNCHANGED usages
        BY <3>2 DEF Promouvoir, Revoquer, Activer, Desactiver, ModifierMembre, Produire, Modifier, liens
    <3>3. ASSUME NEW s \in Sessions, SupprimerEntreprise(s) \/ Creer(s) \/ Demander(s)
                                     \/ Envoyer(s) \/ ChangerMotDePasse(s) \/ Abandonner(s)
          PROVE  UNCHANGED usages
        BY <3>3 DEF SupprimerEntreprise, Creer, Demander, Envoyer, ChangerMotDePasse,
                    Abandonner, liens
    <3>4. ASSUME NEW s \in Sessions, Recevoir(s)
          PROVE  UNCHANGED usages
        BY <3>4 DEF Recevoir, liens
    <3>5. ASSUME NEW u \in Utilisateurs, Inscrire(u)
          PROVE  UNCHANGED usages
        BY <3>5 DEF Inscrire, liens
    <3>6. ASSUME NEW i \in Ids, Expirer(i)
          PROVE  UNCHANGED usages
        BY <3>6 DEF Expirer
    <3>7. UNCHANGED vars => UNCHANGED usages
        BY DEF vars, liens
    <3> QED
        BY <2>1, <3>1, <3>2, <3>3, <3>4, <3>5, <3>6, <3>7 DEF Next
  <2>3. demande[s].jeton \in Ids /\ EnCours(s, "appliquer")
        /\ jetons[demande[s].jeton].etat # "supprime"
      BY <2>2 DEF Appliquer, ComptesInv, Adressee, EnCours
  <2>4. demande[s].jeton = j
      BY <2>1, <2>2, <2>3 DEF Appliquer, ComptesInv, Types
  <2>5. etape'[s] = "libre"
      BY <2>2 DEF Appliquer, Clore, ComptesInv, Types
  <2> QED
      BY <2>3, <2>4, <2>5 DEF ComptesInv, LiensMorts
<1>2. Spec => [][Usage]_vars
    BY <1>1, Invariance, PTL DEF Spec
<1> QED
    BY <1>2 DEF LienMortInutile
-----------------------------------------------------------------------------
(* The team *)

\* A deletion under way that has missed neither a loss of an administrator nor a
\* new member is still not about the only administrator of other members.
SuppressionsSures ==
    \A s \in Sessions : EnCours(s, "supprimer") /\ "equipe" \notin vus[s] =>
        ~SeulAdmin(demande[s].cible)

\* The members are counted, so they have to be finitely many.
EquipeInv == ComptesInv /\ IsFiniteSet(Membres(comptes)) /\ SuppressionsSures

\* No request that is still deciding on a deletion is new.
Decidees ==
    \A t \in Sessions : EnCours(t, "supprimer")' =>
        EnCours(t, "supprimer") /\ demande'[t] = demande[t] /\ vus[t] \subseteq vus'[t]

\* A step that keeps every membership, or removes them all.
LEMMA EquipeStable ==
    ASSUME EquipeInv, Decidees,
           \/ \A u \in Utilisateurs : comptes'[u].lien = comptes[u].lien
           \/ \A u \in Utilisateurs : comptes'[u].lien = "aucun"
    PROVE  IsFiniteSet(Membres(comptes')) /\ SuppressionsSures'
<1>1. CASE \A u \in Utilisateurs : comptes'[u].lien = comptes[u].lien
  <2>1. Membres(comptes') = Membres(comptes) /\ AdminsEquipe(comptes') = AdminsEquipe(comptes)
      BY <1>1 DEF Membres, AdminsEquipe
  <2>2. \A t \in Sessions : EnCours(t, "supprimer") => demande[t].cible \in Utilisateurs
      BY DEF EquipeInv, ComptesInv, Adressee, EnCours
  <2> QED
      BY <1>1, <2>1, <2>2 DEF EquipeInv, SuppressionsSures, Decidees, SeulAdmin
<1>2. CASE \A u \in Utilisateurs : comptes'[u].lien = "aucun"
  <2>1. Membres(comptes') = {}
      BY <1>2 DEF Membres
  <2>2. \A t \in Sessions : EnCours(t, "supprimer") => demande[t].cible \in Utilisateurs
      BY DEF EquipeInv, ComptesInv, Adressee, EnCours
  <2> QED
      BY <1>2, <2>1, <2>2, FS_EmptySet DEF SuppressionsSures, Decidees, SeulAdmin
<1> QED
    BY <1>1, <1>2

\* A step that changes one membership warns every deletion under way.
LEMMA EquipeChangee ==
    ASSUME EquipeInv, NEW s \in Sessions, FinirEquipe(s), NEW u \in Utilisateurs,
           \A v \in Utilisateurs \ {u} : comptes'[v].lien = comptes[v].lien
    PROVE  IsFiniteSet(Membres(comptes')) /\ SuppressionsSures'
<1>1. IsFiniteSet(Membres(comptes'))
  <2>1. Membres(comptes') \subseteq Membres(comptes) \cup {u}
      BY DEF Membres
  <2>2. IsFiniteSet(Membres(comptes) \cup {u})
      BY FS_AddElement DEF EquipeInv
  <2> QED
      BY <2>1, <2>2, FS_Subset
<1>2. SuppressionsSures'
  <2>1. Types
      BY DEF EquipeInv, ComptesInv
  <2> DEFINE T == {t \in Sessions : demande[t].op = "supprimer"}
  <2>2. Clore(s) /\ Signaler(s, "equipe", T)
      BY DEF FinirEquipe
  <2>3. Ferme(s) /\ \A t \in Sessions \ {s} : t \in T => "equipe" \in vus'[t]
    <3> HIDE DEF T
    <3> QED
        BY <2>1, <2>2, Fermeture
  <2> QED
      BY <2>3 DEF SuppressionsSures, EnCours, Ferme
<1> QED
    BY <1>1, <1>2

\* When s ends, the other deletions are those that were under way.
LEMMA DecideesFerme ==
    ASSUME NEW s \in Sessions, Ferme(s)
    PROVE  Decidees
    BY DEF Ferme, Decidees, EnCours

LEMMA EquipePlateforme ==
    ASSUME EquipeInv, NEW s \in Sessions,
           \/ Promouvoir(s) \/ Revoquer(s) \/ Activer(s) \/ Desactiver(s) \/ Produire(s)
    PROVE  IsFiniteSet(Membres(comptes')) /\ SuppressionsSures'
<1>1. Types /\ ComptesInv
    BY DEF EquipeInv, ComptesInv
<1>2. Finir(s) /\ etape[s] = "lue" /\ demande[s].op # "supprimer_entreprise"
    BY DEF Promouvoir, Revoquer, Activer, Desactiver, Produire, Modifier, EnCours
<1>3. Decidees
    BY <1>1, <1>2, Fins, DecideesFerme
<1>4. Cible(s) \in Comptes /\ demande[s].cible \in Utilisateurs
    BY <1>1, <1>2, CibleType DEF ComptesInv, Adressee
<1>5. PICK l : l.lien = Cible(s).lien /\ comptes' = [comptes EXCEPT ![demande[s].cible] = l]
  <2>1. /\ [Cible(s) EXCEPT !.plateforme = TRUE].lien = Cible(s).lien
        /\ [Cible(s) EXCEPT !.plateforme = FALSE].lien = Cible(s).lien
        /\ [Cible(s) EXCEPT !.actif = TRUE].lien = Cible(s).lien
        /\ [Cible(s) EXCEPT !.actif = FALSE].lien = Cible(s).lien
        /\ [Cible(s) EXCEPT !.auteur = TRUE].lien = Cible(s).lien
      BY <1>4 DEF Comptes
  <2> QED
      BY <2>1 DEF Promouvoir, Revoquer, Activer, Desactiver, Produire, Modifier
<1>6. \A u \in Utilisateurs : comptes'[u].lien = comptes[u].lien
  <2>1. \A u \in Utilisateurs : comptes'[u] = IF u = demande[s].cible THEN l ELSE comptes[u]
      BY <1>1, <1>5 DEF Types
  <2> QED
      BY <1>5, <2>1 DEF Cible
<1> QED
    BY <1>3, <1>6, EquipeStable

LEMMA EquipeTeam ==
    ASSUME EquipeInv, NEW s \in Sessions,
           Supprimer(s) \/ Creer(s) \/ ModifierMembre(s) \/ Retirer(s)
    PROVE  IsFiniteSet(Membres(comptes')) /\ SuppressionsSures'
<1>1. FinirEquipe(s) /\ etape[s] = "lue" /\ demande[s].op # "supprimer_entreprise"
    BY DEF Supprimer, Creer, ModifierMembre, Retirer, Modifier, EnCours
<1>2. demande[s].cible \in Utilisateurs /\ Types
    BY <1>1 DEF EquipeInv, ComptesInv, Adressee
<1>3. \E l : comptes' = [comptes EXCEPT ![demande[s].cible] = l]
    BY DEF Supprimer, Creer, ModifierMembre, Retirer, SupprimerLigne, Modifier
<1>4. \A v \in Utilisateurs \ {demande[s].cible} : comptes'[v].lien = comptes[v].lien
    BY <1>2, <1>3 DEF Types
<1> QED
    BY <1>1, <1>2, <1>4, EquipeChangee

\* A deletion is decided about a user who is not the only administrator.
LEMMA EquipeRecevoir ==
    ASSUME EquipeInv, NEW s \in Sessions, Recevoir(s)
    PROVE  IsFiniteSet(Membres(comptes')) /\ SuppressionsSures'
<1>0. PICK d \in Recevables(droits[s]), agent \in Utilisateurs :
         ~Refus(agent, d) /\ demande' = [demande EXCEPT ![s] = d]
    BY DEF Recevoir
<1>1. comptes' = comptes /\ vus' = vus
    BY DEF Recevoir, base
<1>2. /\ etape'[s] = "lue" /\ demande'[s] = d
      /\ \A t \in Sessions \ {s} : etape'[t] = etape[t] /\ demande'[t] = demande[t]
    BY <1>0 DEF Recevoir, EquipeInv, ComptesInv, Types
<1>3. d.op = "supprimer" => ~SeulAdmin(d.cible)
    BY <1>0 DEF Refus, RefusSupprimer
<1>4. \A t \in Sessions : EnCours(t, "supprimer")' /\ "equipe" \notin vus'[t] =>
         ~SeulAdmin(demande'[t].cible)
  <2> SUFFICES ASSUME NEW t \in Sessions, EnCours(t, "supprimer")', "equipe" \notin vus'[t]
               PROVE  ~SeulAdmin(demande'[t].cible)
      OBVIOUS
  <2>1. CASE t = s
      BY <1>2, <1>3, <2>1 DEF EnCours
  <2>2. CASE t # s
      BY <1>1, <1>2, <2>2 DEF EnCours, EquipeInv, SuppressionsSures
  <2> QED
      BY <2>1, <2>2
<1>5. \A u : SeulAdmin(u)' <=> SeulAdmin(u)
    BY <1>1 DEF SeulAdmin
<1> QED
    BY <1>1, <1>4, <1>5 DEF EquipeInv, SuppressionsSures

LEMMA EquipeEtape == EquipeInv /\ [Next]_vars => EquipeInv'
<1> SUFFICES ASSUME EquipeInv, [Next]_vars
             PROVE  EquipeInv'
    OBVIOUS
<1> DEFINE But == IsFiniteSet(Membres(comptes')) /\ SuppressionsSures'
<1>1. ComptesInv /\ ComptesInv' /\ Types
    BY InvConservee DEF EquipeInv, ComptesInv
<1>2. ASSUME comptes' = comptes, Decidees
      PROVE  But
    BY <1>2, EquipeStable
<1>3. ASSUME UNCHANGED vars
      PROVE  But
    BY <1>2, <1>3 DEF vars, base, requete, Decidees, EnCours
<1>4. ASSUME NEW s \in Sessions, Recevoir(s)
      PROVE  But
    BY <1>4, EquipeRecevoir
<1>5. ASSUME NEW s \in Sessions, SupprimerEntreprise(s)
      PROVE  But
  <2>1. Decidees
      BY <1>1, <1>5, Fins, DecideesFerme DEF SupprimerEntreprise
  <2>2. \A u \in Utilisateurs : comptes'[u].lien = "aucun"
      BY <1>1, <1>5 DEF SupprimerEntreprise, Types, Comptes
  <2> QED
      BY <2>1, <2>2, EquipeStable
<1>6. ASSUME NEW s \in Sessions, Envoyer(s) \/ Appliquer(s) \/ ChangerMotDePasse(s) \/ Abandonner(s)
      PROVE  But
  <2>1. comptes' = comptes
      BY <1>6 DEF Envoyer, Appliquer, ChangerMotDePasse, Abandonner, base
  <2>2. Ferme(s)
    <3>1. CASE Appliquer(s)
      <4>1. PICK T : Clore(s) /\ Signaler(s, "usage", T)
          BY <3>1 DEF Appliquer
      <4> QED
          BY <1>1, <4>1, Fermeture
    <3> QED
        BY <1>1, <1>6, <3>1, Fins DEF Envoyer, ChangerMotDePasse, Abandonner
  <2> QED
      BY <1>2, <2>1, <2>2, DecideesFerme
<1>7. ASSUME NEW s \in Sessions, Demander(s)
      PROVE  But
  <2>1. comptes' = comptes /\ vus' = vus
      BY <1>7 DEF Demander, base
  <2>2. /\ etape'[s] = "engagee"
        /\ \A t \in Sessions \ {s} : etape'[t] = etape[t] /\ demande'[t] = demande[t]
      BY <1>1, <1>7 DEF Demander, Types
  <2>3. Decidees
      BY <2>1, <2>2 DEF Decidees, EnCours
  <2> QED
      BY <1>2, <2>1, <2>3
<1>8. ASSUME NEW u \in Utilisateurs, Inscrire(u)
      PROVE  But
  <2>1. Decidees
      BY <1>8 DEF Inscrire, requete, Decidees, EnCours
  <2>2. PICK champs \in {{}, {"inactif"}} :
           comptes' = [comptes EXCEPT ![u] = Ecrits(Nouveau("aucun"), champs)]
      BY <1>8 DEF Inscrire
  <2>3. comptes[u].lien = "aucun" /\ Ecrits(Nouveau("aucun"), champs).lien = "aucun"
      BY <1>1, <1>8, NouveauType, EcritsType
         DEF ComptesInv, RienSansEntreprise, Present, Inscrire, Nouveau
  <2>4. \A v \in Utilisateurs : comptes'[v].lien = comptes[v].lien
      BY <1>1, <2>2, <2>3 DEF Types
  <2> QED
      BY <2>1, <2>4, EquipeStable
<1>9. ASSUME NEW j \in Ids, Expirer(j)
      PROVE  But
    BY <1>2, <1>9 DEF Expirer, base, requete, Decidees, EnCours
<1>10. But
    BY <1>3, <1>4, <1>5, <1>6, <1>7, <1>8, <1>9, EquipePlateforme, EquipeTeam DEF Next
<1> QED
    BY <1>1, <1>10 DEF EquipeInv

LEMMA EquipeInit == Init => EquipeInv
<1> SUFFICES ASSUME Init
             PROVE  EquipeInv
    OBVIOUS
<1>1. PICK f \in Fondateurs : Membres(comptes) \subseteq {f}
  <2>1. PICK f \in Fondateurs :
           comptes = [u \in Utilisateurs |->
                        [Nouveau(IF u = f THEN "admin" ELSE "aucun") EXCEPT
                           !.plateforme = u = Racine,
                           !.etat = IF u \in {Racine, f} THEN "present" ELSE "futur"]]
      BY DEF Init
  <2>2. \A u \in Utilisateurs : u # f => comptes[u].lien = "aucun"
      BY <2>1 DEF Nouveau
  <2> QED
      BY <2>2 DEF Membres
<1>2. IsFiniteSet(Membres(comptes))
    BY <1>1, FS_Singleton, FS_Subset
<1> QED
    BY <1>2, InvInitiale DEF Init, EquipeInv, SuppressionsSures, EnCours

\* Whoever ends a deletion by a write to the accounts has deleted its user.
LEMMA FinDeSuppression ==
    ASSUME ComptesInv, Next, NEW s \in Sessions, EnCours(s, "supprimer"),
           etape'[s] = "libre", comptes' # comptes
    PROVE  Supprimer(s)
<1>1. Types
    BY DEF ComptesInv
<1>2. ASSUME NEW t \in Sessions, t # s, Ferme(t)
      PROVE  FALSE
    BY <1>2 DEF Ferme, EnCours
<1>3. ASSUME NEW t \in Sessions, Finir(t) \/ FinirEquipe(t)
      PROVE  t = s
    BY <1>1, <1>2, <1>3, Fins
<1>4. ASSUME NEW t \in Sessions,
             \/ Promouvoir(t) \/ Revoquer(t) \/ Activer(t) \/ Desactiver(t)
             \/ SupprimerEntreprise(t) \/ Creer(t) \/ ModifierMembre(t) \/ Retirer(t) \/ Produire(t)
      PROVE  FALSE
  <2>1. t = s
      BY <1>3, <1>4 DEF Promouvoir, Revoquer, Activer, Desactiver, SupprimerEntreprise,
                        Creer, ModifierMembre, Retirer, Produire
  <2> QED
      BY <1>4, <2>1 DEF Promouvoir, Revoquer, Activer, Desactiver, SupprimerEntreprise,
                        Creer, ModifierMembre, Retirer, Produire, Modifier, EnCours
<1>5. ASSUME NEW t \in Sessions, Supprimer(t)
      PROVE  Supprimer(s)
    BY <1>3, <1>5 DEF Supprimer
<1>6. ASSUME NEW u \in Utilisateurs, Inscrire(u)
      PROVE  FALSE
    BY <1>6 DEF Inscrire, requete, EnCours
<1>7. ASSUME NEW t \in Sessions,
             \/ Demander(t) \/ Envoyer(t) \/ Appliquer(t) \/ ChangerMotDePasse(t)
             \/ Abandonner(t)
      PROVE  FALSE
    BY <1>7 DEF Demander, Envoyer, Appliquer, ChangerMotDePasse, Abandonner, base
<1>8. ASSUME NEW t \in Sessions, Recevoir(t)
      PROVE  FALSE
    BY <1>8 DEF Recevoir, base
<1>9. ASSUME NEW j \in Ids, Expirer(j)
      PROVE  FALSE
    BY <1>9 DEF Expirer, base
<1> QED
    BY <1>4, <1>5, <1>6, <1>7, <1>8, <1>9 DEF Next

\* A deletion by the platform leaves members without an administrator only if the
\* team lost an administrator or gained a member since it was decided
\* (administration/services.py:901-945, 1000-1010), for every number of users,
\* sessions and crossing requests.
THEOREM EquipeGardee == Spec => EquipeAdministree
<1> DEFINE Pas == \A s \in Sessions :
          /\ EnCours(s, "supprimer") /\ comptes' # comptes /\ etape'[s] = "libre"
          /\ "equipe" \notin vus[s]
          /\ AdminsEquipe(comptes) # {}
          => Membres(comptes') = {} \/ AdminsEquipe(comptes') # {}
<1>1. EquipeInv /\ [Next]_vars => [Pas]_vars
  <2> SUFFICES ASSUME EquipeInv, Next, NEW s \in Sessions,
                      EnCours(s, "supprimer"), comptes' # comptes, etape'[s] = "libre",
                      "equipe" \notin vus[s], AdminsEquipe(comptes) # {}
               PROVE  Membres(comptes') = {} \/ AdminsEquipe(comptes') # {}
      OBVIOUS
  <2> DEFINE u == demande[s].cible
  <2>1. Types /\ u \in Utilisateurs
      BY DEF EquipeInv, ComptesInv, Adressee, EnCours
  <2>2. Supprimer(s)
      BY FinDeSuppression DEF EquipeInv
  <2>3. \A v \in Utilisateurs : comptes'[v] = IF v = u THEN Parti ELSE comptes[v]
      BY <2>1, <2>2 DEF Supprimer, SupprimerLigne, Types
  <2>4. Parti.lien = "aucun"
      BY DEF Parti, Nouveau
  <2>5. /\ Membres(comptes') = Membres(comptes) \ {u}
        /\ AdminsEquipe(comptes') = AdminsEquipe(comptes) \ {u}
    <3> HIDE DEF u
    <3> QED
        BY <2>1, <2>3, <2>4 DEF Membres, AdminsEquipe
  <2>6. ~SeulAdmin(u)
      BY DEF EquipeInv, SuppressionsSures
  <2>7. CASE comptes[u].lien # "admin" \/ AdminsEquipe(comptes) # {u}
    <3>1. AdminsEquipe(comptes) \ {u} # {}
        BY <2>7 DEF AdminsEquipe
    <3> QED
        BY <2>5, <3>1
  <2>8. CASE comptes[u].lien = "admin" /\ ~(Cardinality(Membres(comptes)) > 1)
    <3>1. u \in Membres(comptes) /\ IsFiniteSet(Membres(comptes))
        BY <2>1, <2>8 DEF Membres, EquipeInv
    <3>2. IsFiniteSet(Membres(comptes) \ {u})
          /\ Cardinality(Membres(comptes) \ {u}) = Cardinality(Membres(comptes)) - 1
        BY <3>1, FS_RemoveElement
    <3>3. Cardinality(Membres(comptes)) \in Nat /\ Cardinality(Membres(comptes) \ {u}) \in Nat
        BY <3>1, <3>2, FS_CardinalityType
    <3>4. Cardinality(Membres(comptes) \ {u}) = 0
        BY <2>8, <3>2, <3>3
    <3>5. Membres(comptes) \ {u} = {}
        BY <3>2, <3>4, FS_EmptySet
    <3> QED
        BY <2>5, <3>5
  <2> QED
      BY <2>6, <2>7, <2>8 DEF SeulAdmin
<1>2. Spec => [][Pas]_vars
    BY <1>1, EquipeInit, EquipeEtape, PTL DEF Spec
<1> QED
    BY <1>2 DEF EquipeAdministree
-----------------------------------------------------------------------------
(* The uses of a link *)

Neufs == {"futur", "valable", "echu"}
Applicants(j) == {s \in Sessions : EnCours(s, "appliquer") /\ demande[s].jeton = j}

\* A link is used at most once by each request that was deciding at its first use.
UsagesBornes ==
    \A j \in Ids :
        /\ usages[j] + Cardinality(Applicants(j)) <= Cardinality(Sessions)
        /\ jetons[j].etat \in Neufs => usages[j] = 0

UsageInv == ComptesInv /\ UsagesBornes /\ droits \in Profils

LEMMA ApplicantsFinis ==
    ASSUME NEW S, S \subseteq Sessions
    PROVE  /\ IsFiniteSet(S) /\ Cardinality(S) \in Nat /\ Cardinality(Sessions) \in Nat
           /\ Cardinality(S) <= Cardinality(Sessions)
<1>1. IsFiniteSet(S) /\ Cardinality(S) <= Cardinality(Sessions)
    BY HypSessions, FS_Subset
<1> QED
    BY <1>1, HypSessions, FS_CardinalityType

\* A step that uses no link and lets nobody decide on one.
LEMMA UsagesStables ==
    ASSUME UsageInv, usages' = usages,
           \A t \in Sessions : EnCours(t, "appliquer")' =>
               EnCours(t, "appliquer") /\ demande'[t].jeton = demande[t].jeton,
           \A j \in Ids : jetons'[j].etat \in Neufs => jetons[j].etat \in Neufs
    PROVE  UsagesBornes'
<1> SUFFICES ASSUME NEW j \in Ids
             PROVE  /\ usages[j] + Cardinality(Applicants(j)') <= Cardinality(Sessions)
                    /\ jetons'[j].etat \in Neufs => usages[j] = 0
    BY DEF UsagesBornes
<1>1. Applicants(j)' \subseteq Applicants(j) /\ Applicants(j) \subseteq Sessions
    BY DEF Applicants
<1>2. IsFiniteSet(Applicants(j))
    BY <1>1, ApplicantsFinis
<1>3. /\ Cardinality(Applicants(j)') <= Cardinality(Applicants(j))
      /\ Cardinality(Applicants(j)') \in Nat /\ Cardinality(Applicants(j)) \in Nat
      /\ Cardinality(Sessions) \in Nat
    BY <1>1, <1>2, ApplicantsFinis, FS_Subset
<1>4. usages[j] \in Nat /\ usages[j] + Cardinality(Applicants(j)) <= Cardinality(Sessions)
    BY DEF UsageInv, UsagesBornes, ComptesInv, Types
<1>5. usages[j] + Cardinality(Applicants(j)') <= Cardinality(Sessions)
    BY <1>3, <1>4
<1> QED
    BY <1>5 DEF UsageInv, UsagesBornes

\* The use of a link takes its request off those that decide on it.
LEMMA UsageAppliquer ==
    ASSUME UsageInv, NEW s \in Sessions, Appliquer(s)
    PROVE  UsagesBornes'
<1> DEFINE i == demande[s].jeton
<1>1. Types /\ i \in Ids /\ EnCours(s, "appliquer")
    BY DEF UsageInv, ComptesInv, Adressee, Appliquer, EnCours
<1>2. PICK T : Clore(s) /\ Signaler(s, "usage", T)
    BY DEF Appliquer
<1>3. Ferme(s)
    BY <1>1, <1>2, Fermeture
<1>4. \A j \in Ids : usages'[j] = IF j = i THEN usages[j] + 1 ELSE usages[j]
    BY <1>1 DEF Appliquer, Types
<1>5. \A j \in Ids : jetons'[j].etat = IF j = i THEN "utilise" ELSE jetons[j].etat
  <2>1. jetons' = [jetons EXCEPT ![i].etat = "utilise"]
      BY DEF Appliquer
  <2>2. jetons[i] \in Jetons
      BY <1>1 DEF Types
  <2>3. [jetons[i] EXCEPT !.etat = "utilise"].etat = "utilise"
      BY <2>2 DEF Jetons
  <2> QED
      BY <1>1, <2>1, <2>3 DEF Types
<1>6. \A j \in Ids : Applicants(j)' = Applicants(j) \ {s}
    BY <1>3 DEF Ferme, Applicants, EnCours
<1> SUFFICES ASSUME NEW j \in Ids
             PROVE  /\ usages'[j] + Cardinality(Applicants(j)') <= Cardinality(Sessions)
                    /\ jetons'[j].etat \in Neufs => usages'[j] = 0
    BY DEF UsagesBornes
<1>7. /\ usages[j] \in Nat /\ usages[j] + Cardinality(Applicants(j)) <= Cardinality(Sessions)
      /\ jetons[j].etat \in Neufs => usages[j] = 0
    BY DEF UsageInv, UsagesBornes, ComptesInv, Types
<1>8. IsFiniteSet(Applicants(j)) /\ Cardinality(Applicants(j)) \in Nat
      /\ Cardinality(Sessions) \in Nat
    BY ApplicantsFinis DEF Applicants
<1>9. CASE j = i
  <2>1. s \in Applicants(j)
      BY <1>1, <1>9 DEF Applicants
  <2>2. Cardinality(Applicants(j)') = Cardinality(Applicants(j)) - 1
      BY <1>6, <1>8, <2>1, FS_RemoveElement
  <2>3. usages'[j] = usages[j] + 1 /\ jetons'[j].etat = "utilise"
      BY <1>4, <1>5, <1>9
  <2>4. usages'[j] + Cardinality(Applicants(j)') <= Cardinality(Sessions)
      BY <1>7, <1>8, <2>2, <2>3
  <2> QED
      BY <2>3, <2>4 DEF Neufs
<1>10. CASE j # i
  <2>1. s \notin Applicants(j)
      BY <1>10 DEF Applicants
  <2>2. Applicants(j)' = Applicants(j)
      BY <1>6, <2>1
  <2> QED
      BY <1>4, <1>5, <1>7, <1>10, <2>2
<1> QED
    BY <1>9, <1>10

\* Whoever decides on a link has found it unused.
LEMMA UsageRecevoir ==
    ASSUME UsageInv, NEW s \in Sessions, Recevoir(s)
    PROVE  UsagesBornes'
<1>0. PICK d \in Recevables(droits[s]), agent \in Utilisateurs :
         ~Refus(agent, d) /\ demande' = [demande EXCEPT ![s] = d]
    BY DEF Recevoir
<1>1. jetons' = jetons /\ usages' = usages
    BY DEF Recevoir, liens
<1>2. /\ etape'[s] = "lue" /\ demande'[s] = d
      /\ \A t \in Sessions \ {s} : etape'[t] = etape[t] /\ demande'[t] = demande[t]
    BY <1>0 DEF Recevoir, UsageInv, ComptesInv, Types
<1>3. etape[s] = "libre"
    BY DEF Recevoir
<1> SUFFICES ASSUME NEW j \in Ids
             PROVE  usages[j] + Cardinality(Applicants(j)') <= Cardinality(Sessions)
    BY <1>1 DEF UsagesBornes, UsageInv
<1>4. CASE d.op = "appliquer" /\ d.jeton = j
  <2>1. jetons[j].etat = "valable"
      BY <1>0, <1>4 DEF Refus, RefusAppliquer
  <2>2. usages[j] = 0
      BY <2>1 DEF UsageInv, UsagesBornes, Neufs
  <2>3. Cardinality(Applicants(j)') <= Cardinality(Sessions) /\ Cardinality(Applicants(j)') \in Nat
      BY ApplicantsFinis DEF Applicants
  <2> QED
      BY <2>2, <2>3
<1>5. CASE ~(d.op = "appliquer" /\ d.jeton = j)
  <2>1. Applicants(j)' = Applicants(j)
      BY <1>2, <1>3, <1>5 DEF Applicants, EnCours
  <2> QED
      BY <2>1 DEF UsageInv, UsagesBornes
<1> QED
    BY <1>4, <1>5

LEMMA UsageDemander ==
    ASSUME UsageInv, NEW s \in Sessions, Demander(s)
    PROVE  UsagesBornes'
<1>1. Types /\ Suite
    BY DEF UsageInv, ComptesInv
<1>2. JetonSuivant \in Ids /\ jetons[JetonSuivant].etat = "futur"
  <2>1. JetonSuivant \in Ids /\ \A j \in Ids : jetons[j].etat = "futur" <=> j >= JetonSuivant
      BY Suivant DEF Demander, UsageInv
  <2>2. JetonSuivant >= JetonSuivant
      BY <2>1, HypJetons DEF Ids
  <2> QED
      BY <2>1, <2>2
<1>3. usages' = usages /\ EnCours(s, "demander")
    BY DEF Demander
<1>4. /\ etape'[s] = "engagee"
      /\ \A t \in Sessions \ {s} : etape'[t] = etape[t] /\ demande'[t] = demande[t]
    BY <1>1 DEF Demander, Types
<1>5. \A j \in Ids : jetons'[j].etat \in Neufs => jetons[j].etat \in Neufs
  <2> DEFINE u == demande[s].cible
  <2>1. \A j \in Ids : SansEnAttente(u)[j] = jetons[j] \/ SansEnAttente(u)[j].etat = "supprime"
    <3>1. \A j \in Ids : [jetons[j] EXCEPT !.etat = "supprime"].etat = "supprime"
        BY <1>1 DEF Types, Jetons
    <3> QED
        BY <3>1 DEF SansEnAttente
  <2>2. jetons' = [SansEnAttente(u) EXCEPT ![JetonSuivant] = [etat |-> "valable", de |-> u]]
      BY DEF Demander
  <2>3. \A j \in Ids \ {JetonSuivant} : jetons'[j] = SansEnAttente(u)[j]
      BY <2>2 DEF SansEnAttente
  <2> QED
      BY <1>2, <2>1, <2>3 DEF Neufs
<1> QED
    BY <1>3, <1>4, <1>5, UsagesStables DEF EnCours

\* Deletions of links, by a new one, a change of password or the end of a user.
LEMMA UsagesElagues ==
    ASSUME UsageInv, usages' = usages, NEW s \in Sessions, Ferme(s), NEW S,
           jetons' = [j \in Ids |-> IF j \in S THEN [jetons[j] EXCEPT !.etat = "supprime"]
                                               ELSE jetons[j]]
    PROVE  UsagesBornes'
<1>1. \A j \in Ids : jetons'[j].etat \in Neufs => jetons[j].etat \in Neufs
  <2>1. \A j \in Ids : [jetons[j] EXCEPT !.etat = "supprime"].etat = "supprime"
      BY DEF UsageInv, ComptesInv, Types, Jetons
  <2> QED
      BY <2>1 DEF Neufs
<1> QED
    BY <1>1, UsagesStables DEF Ferme, EnCours

LEMMA UsageEtape == UsageInv /\ [Next]_vars => UsageInv'
<1> SUFFICES ASSUME UsageInv, [Next]_vars
             PROVE  UsageInv'
    OBVIOUS
<1> DEFINE But == UsagesBornes' /\ droits' \in Profils
<1>1. ComptesInv /\ ComptesInv' /\ Types /\ droits \in Profils
    BY InvConservee DEF UsageInv, ComptesInv
<1>2. ASSUME NEW s \in Sessions, Ferme(s), jetons' = jetons, usages' = usages, droits' = droits
      PROVE  But
    BY <1>1, <1>2, UsagesStables DEF Ferme, EnCours
<1>3. ASSUME UNCHANGED <<jetons, usages, droits, etape, demande>>
      PROVE  But
    BY <1>1, <1>3, UsagesStables DEF EnCours
<1>4. ASSUME NEW s \in Sessions, Recevoir(s)
      PROVE  But
    BY <1>1, <1>4, UsageRecevoir DEF Recevoir
<1>5. ASSUME NEW s \in Sessions,
             \/ Promouvoir(s) \/ Revoquer(s) \/ Activer(s) \/ Desactiver(s)
             \/ SupprimerEntreprise(s) \/ Creer(s) \/ ModifierMembre(s) \/ Produire(s)
             \/ Envoyer(s) \/ Abandonner(s)
      PROVE  But
  <2>1. Finir(s) \/ FinirEquipe(s)
      BY <1>5 DEF Promouvoir, Revoquer, Activer, Desactiver, SupprimerEntreprise, Creer,
                  ModifierMembre, Produire, Envoyer, Abandonner
  <2>2. jetons' = jetons /\ usages' = usages /\ droits' = droits
      BY <1>5 DEF Promouvoir, Revoquer, Activer, Desactiver, SupprimerEntreprise, Creer,
                  ModifierMembre, Produire, Envoyer, Abandonner, Modifier, liens
  <2> QED
      BY <1>1, <1>2, <2>1, <2>2, Fins
<1>6. ASSUME NEW s \in Sessions, Supprimer(s) \/ Retirer(s)
      PROVE  But
  <2>1. Ferme(s)
      BY <1>1, <1>6, Fins DEF Supprimer, Retirer
  <2>2. PICK S : S = {j \in Ids : jetons[j].de = demande[s].cible}
      OBVIOUS
  <2>3. /\ usages' = usages /\ droits' = droits
        /\ jetons' = [j \in Ids |-> IF j \in S THEN [jetons[j] EXCEPT !.etat = "supprime"]
                                               ELSE jetons[j]]
      BY <1>6, <2>2 DEF Supprimer, Retirer, SupprimerLigne
  <2> QED
      BY <1>1, <2>1, <2>3, UsagesElagues
<1>7. ASSUME NEW s \in Sessions, ChangerMotDePasse(s)
      PROVE  But
  <2>1. Ferme(s)
      BY <1>1, <1>7, Fins DEF ChangerMotDePasse
  <2>2. /\ usages' = usages /\ droits' = droits
        /\ jetons' = [j \in Ids |-> IF j \in EnAttente(demande[s].cible)
                                    THEN [jetons[j] EXCEPT !.etat = "supprime"] ELSE jetons[j]]
      BY <1>7 DEF ChangerMotDePasse, SansEnAttente
  <2> QED
      BY <1>1, <2>1, <2>2, UsagesElagues
<1>8. ASSUME NEW s \in Sessions, Appliquer(s)
      PROVE  But
    BY <1>1, <1>8, UsageAppliquer DEF Appliquer
<1>9. ASSUME NEW s \in Sessions, Demander(s)
      PROVE  But
    BY <1>1, <1>9, UsageDemander DEF Demander
<1>10. ASSUME NEW u \in Utilisateurs, Inscrire(u)
      PROVE  But
    BY <1>3, <1>10 DEF Inscrire, liens, requete
<1>11. ASSUME NEW j \in Ids, Expirer(j)
      PROVE  But
  <2>1. \A i \in Ids : jetons'[i].etat \in Neufs => jetons[i].etat \in Neufs
      BY <1>1, <1>11 DEF Expirer, Types, Neufs
  <2> QED
      BY <1>1, <1>11, <2>1, UsagesStables DEF Expirer, requete, EnCours
<1>12. ASSUME UNCHANGED vars
      PROVE  But
    BY <1>3, <1>12 DEF vars, liens, requete
<1>13. But
    BY <1>4, <1>5, <1>6, <1>7, <1>8, <1>9, <1>10, <1>11, <1>12 DEF Next
<1> QED
    BY <1>1, <1>13 DEF UsageInv

LEMMA UsageInit == Init => UsageInv
<1> SUFFICES ASSUME Init
             PROVE  UsageInv
    OBVIOUS
<1>1. \A j \in Ids : /\ Cardinality(Applicants(j)) <= Cardinality(Sessions)
                     /\ Cardinality(Applicants(j)) \in Nat
    BY ApplicantsFinis DEF Applicants
<1>2. \A j \in Ids : usages[j] = 0
    BY DEF Init
<1>3. UsagesBornes
    BY <1>1, <1>2 DEF UsagesBornes
<1> QED
    BY <1>3, InvInitiale DEF Init, UsageInv

\* The variables keep their types; above all, a link replaces at most as many
\* passwords as requests are served at the same time (auth/service.py:90-130).
THEOREM TypesCorrects == Spec => []TypeOK
<1>1. UsageInv => TypeOK
  <2> SUFFICES ASSUME UsageInv
               PROVE  TypeOK
      OBVIOUS
  <2>1. Types /\ droits \in Profils
      BY DEF UsageInv, ComptesInv
  <2>2. ASSUME NEW j \in Ids
        PROVE  usages[j] \in 0..Cardinality(Sessions)
    <3>1. usages[j] \in Nat /\ usages[j] + Cardinality(Applicants(j)) <= Cardinality(Sessions)
        BY <2>1 DEF UsageInv, UsagesBornes, Types
    <3>2. Cardinality(Applicants(j)) \in Nat /\ Cardinality(Sessions) \in Nat
        BY ApplicantsFinis DEF Applicants
    <3> QED
        BY <3>1, <3>2
  <2>3. usages \in [Ids -> 0..Cardinality(Sessions)]
      BY <2>1, <2>2 DEF Types
  <2> QED
      BY <2>1, <2>3 DEF TypeOK, Types
<1> QED
    BY <1>1, UsageInit, UsageEtape, PTL DEF Spec
=============================================================================
