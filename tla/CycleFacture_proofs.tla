------------------------ MODULE CycleFacture_proofs ------------------------
(***************************************************************************)
(* Proofs about CycleFacture, for any number of invoices and sessions.     *)
(*                                                                         *)
(* First the types; then how rows and requests evolve, and what follows    *)
(* for credit notes: their original stays emitted, they stay in the AV     *)
(* series and carry the details of their original.                         *)
(*                                                                         *)
(* Then the numbers: "max + 1" without a lock gives continuous series and  *)
(* irrevocable numbers as long as no stale write hits a validated invoice  *)
(* (Intact); CycleFacture implements RegistreFactures under the mapping    *)
(* registre <- PiecesEmises, fiable <- Intact; and attempts only fail      *)
(* under load.                                                             *)
(***************************************************************************)
EXTENDS CycleFacture, FiniteSetTheorems, TLAPS

\* Every part of R that is not empty has a last text: what makes "ORDER BY
\* numero_facture DESC ... first()" defined.
Ordonne(R) ==
    \A T \in SUBSET R : T # {} =>
        \E r \in T : \A q \in T : CleTexte(q) <= CleTexte(r)

Rangs(b, e, p, m) == RangsDuMois(NumerosEmis(b, e, p), m)

\* A request under way names an invoice and a tenant.
Adressee ==
    \A s \in Sessions : etape[s] # "libre" =>
        /\ demande[s].cible \in Factures
        /\ demande[s].ent \in Entreprises

\* The numbers of a series, in the table and as they were read, are ordered.
SeriesOrdonnees ==
    /\ \A e \in Entreprises, p \in {"FAC", "AV"}, m \in 1..MaxMois :
          Ordonne(Rangs(base, e, p, m))
    /\ \A s \in Sessions, m \in 1..MaxMois : Ordonne(RangsDuMois(lu[s].numeros, m))

TypeInv == TypeOK /\ Adressee /\ SeriesOrdonnees

-----------------------------------------------------------------------------
(* Ordered sets of numbers *)

\* The last rank of an ordered set is one of its ranks.
LEMMA DernierDansSerie ==
    ASSUME NEW R, R \subseteq Nat, Ordonne(R)
    PROVE  /\ DernierRang(R) \in Nat
           /\ R # {} => DernierRang(R) \in R
<1>1. CASE R = {}
  BY <1>1 DEF DernierRang
<1>2. CASE R # {}
  <2>1. \E r \in R : \A q \in R : CleTexte(q) <= CleTexte(r)
    BY <1>2 DEF Ordonne
  <2>2. DernierRang(R) \in R
    BY <1>2, <2>1 DEF DernierRang
  <2>. QED  BY <2>2
<1>. QED  BY <1>1, <1>2

\* An ordered set stays ordered when one number is added and others are removed.
LEMMA OrdreAjout ==
    ASSUME NEW R, R \subseteq Nat, Ordonne(R), NEW x \in Nat,
           NEW T, T \subseteq R \cup {x}
    PROVE  Ordonne(T)
<1>0. \A q \in Nat : CleTexte(q) \in Int
  BY HypTexte DEF CleTexte
<1> SUFFICES ASSUME NEW U \in SUBSET T, U # {}
             PROVE  \E r \in U : \A q \in U : CleTexte(q) <= CleTexte(r)
  BY DEF Ordonne
<1>1. CASE U \subseteq R
  BY <1>1 DEF Ordonne
<1>2. CASE U = {x}
  BY <1>0, <1>2
<1>3. CASE x \in U /\ U # {x}
  <2>1. U \ {x} \in SUBSET R /\ U \ {x} # {}
    BY <1>3
  <2>2. PICK r \in U \ {x} : \A q \in U \ {x} : CleTexte(q) <= CleTexte(r)
    BY <2>1 DEF Ordonne
  <2>3. CASE CleTexte(x) <= CleTexte(r)
    BY <2>2, <2>3
  <2>4. CASE CleTexte(r) <= CleTexte(x)
    <3>1. \A q \in U : CleTexte(q) \in Int /\ CleTexte(r) \in Int
      BY <1>0, <2>1, <2>2
    <3>2. \A q \in U : CleTexte(q) <= CleTexte(x)
      BY <1>0, <2>2, <2>4, <3>1
    <3>. QED  BY <1>3, <3>2
  <2>5. CleTexte(x) \in Int /\ CleTexte(r) \in Int
    BY <1>0, <2>1, <2>2
  <2>. QED  BY <2>3, <2>4, <2>5
<1>. QED  BY <1>1, <1>2, <1>3
-----------------------------------------------------------------------------
(* Types *)

\* A row taken from the table, with the values a handler gives it, is a row.
LEMMA LigneDeTable ==
    ASSUME NEW l \in Lignes
    PROVE  /\ l.etat \in {"absente", "brouillon", "emise", "supprimee"}
           /\ l.ent \in Entreprises \cup {Aucun}
           /\ l.type \in {"facture", "avoir"}
           /\ l.origine \in Factures \cup {Aucun}
           /\ l.client \in Clients \cup {Aucun}
           /\ l.numero \in Numeros
           /\ l.fige \in Clients \cup {Aucun}
BY DEF Lignes

LEMMA TypeVide ==
    /\ Provisoire \in Numeros
    /\ Vide \in Lignes
    /\ SansSaisie \in Saisies
    /\ SansDemande \in Demandes
    /\ SansLecture \in Lectures
<1>1. Provisoire \in Numeros
  BY DEF Provisoire, Numeros
<1>2. Vide \in Lignes
  BY <1>1 DEF Vide, Lignes
<1>3. SansSaisie \in Saisies
  BY DEF SansSaisie, Saisies
<1>4. SansDemande \in Demandes
  BY <1>3 DEF SansDemande, Demandes, Operations
<1>5. SansLecture \in Lectures
  BY <1>2 DEF SansLecture, Lectures
<1>. QED  BY <1>1, <1>2, <1>3, <1>4, <1>5

\* The ranks of a set of numbers are numbers.
LEMMA RangsEntiers ==
    ASSUME NEW N \in SUBSET Numeros, NEW m
    PROVE  RangsDuMois(N, m) \subseteq Nat
BY DEF RangsDuMois, Numeros, Provisoire

LEMMA NumerosEmisType ==
    ASSUME NEW b \in [Factures -> Lignes], NEW e, NEW p
    PROVE  NumerosEmis(b, e, p) \subseteq Numeros
BY LigneDeTable DEF NumerosEmis

\* What a transaction reads has its type, and its numbers are ordered.
LEMMA LectureType ==
    ASSUME TypeInv, NEW d \in Demandes, d.cible \in Factures, d.ent \in Entreprises
    PROVE  /\ Lecture(base, d) \in Lectures
           /\ \A m \in 1..MaxMois : Ordonne(RangsDuMois(Lecture(base, d).numeros, m))
<1>. DEFINE ligne == base[d.cible]
<1>1. ligne \in Lignes /\ base \in [Factures -> Lignes]
  BY DEF TypeInv, TypeOK
<1>2. Prefixe(ligne.type) \in {"FAC", "AV"}
  BY DEF Prefixe
<1>3. NumerosEmis(base, d.ent, Prefixe(ligne.type)) \subseteq Numeros
  BY <1>1, NumerosEmisType
<1>4. ligne.origine # Aucun => base[ligne.origine].fige \in Clients \cup {Aucun}
  BY <1>1, LigneDeTable
<1>5. Lecture(base, d) \in Lectures
  BY <1>1, <1>3, <1>4 DEF Lecture, Lectures
<1>6. ASSUME NEW m \in 1..MaxMois
      PROVE  Ordonne(RangsDuMois(Lecture(base, d).numeros, m))
  <2>1. CASE d.op = "valider"
    <3>1. RangsDuMois(Lecture(base, d).numeros, m)
            = Rangs(base, d.ent, Prefixe(ligne.type), m)
      BY <2>1 DEF Lecture, Rangs
    <3>. QED  BY <1>2, <3>1 DEF TypeInv, SeriesOrdonnees
  <2>2. CASE d.op # "valider"
    <3>1. RangsDuMois(Lecture(base, d).numeros, m) = {}
      BY <2>2 DEF Lecture, RangsDuMois
    <3>. QED  BY <3>1 DEF Ordonne
  <2>. QED  BY <2>1, <2>2
<1>. QED  BY <1>5, <1>6

\* The number an attempt computes is a number of the month, next after the last
\* one of its series as it was read.
LEMMA NumeroCalculeType ==
    ASSUME TypeInv, NEW s \in Sessions, NEW m \in ouvert[s]..mois
    PROVE  /\ m \in 1..MaxMois
           /\ NumeroCalcule(s, m) \in Numeros
<1>1. m \in 1..MaxMois
  BY HypMois DEF TypeInv, TypeOK
<1>2. lu[s] \in Lectures
  BY DEF TypeInv, TypeOK
<1>. DEFINE R == RangsDuMois(lu[s].numeros, m)
<1>3. R \subseteq Nat
  <2>1. lu[s].numeros \in SUBSET Numeros
    BY <1>2 DEF Lectures
  <2>. QED  BY <2>1, RangsEntiers
<1>4. Ordonne(R)
  BY <1>1 DEF TypeInv, SeriesOrdonnees
<1>5. DernierRang(R) \in Nat
  BY <1>3, <1>4, DernierDansSerie
<1>6. NumeroCalcule(s, m)
        = [prefixe |-> Prefixe(Lue(s).type), mois |-> m, rang |-> DernierRang(R) + 1]
  BY DEF NumeroCalcule, NouveauNumero
<1>7. Prefixe(Lue(s).type) \in {"FAC", "AV"} /\ DernierRang(R) + 1 \in Nat \ {0}
  BY <1>5 DEF Prefixe
<1>. QED  BY <1>1, <1>6, <1>7 DEF Numeros

\* Writing one row adds at most its number to the series.
LEMMA RangsApresEcriture ==
    ASSUME NEW b \in [Factures -> Lignes], NEW f \in Factures, NEW l \in Lignes,
           NEW e, NEW p, NEW m
    PROVE  Rangs([b EXCEPT ![f] = l], e, p, m) \subseteq Rangs(b, e, p, m) \cup {l.numero.rang}
BY DEF Rangs, RangsDuMois, NumerosEmis, Accessible, Existe

\* A step that writes at most one row keeps the series ordered.
LEMMA SeriesApresEcriture ==
    ASSUME TypeInv,
           \/ base' = base
           \/ \E f \in Factures, l \in Lignes : base' = [base EXCEPT ![f] = l]
    PROVE  /\ base' \in [Factures -> Lignes]
           /\ \A e \in Entreprises, p \in {"FAC", "AV"}, m \in 1..MaxMois :
                 Ordonne(Rangs(base', e, p, m))
<1>1. CASE base' = base
  BY <1>1 DEF TypeInv, TypeOK, SeriesOrdonnees
<1>2. ASSUME NEW f \in Factures, NEW l \in Lignes, base' = [base EXCEPT ![f] = l]
      PROVE  /\ base' \in [Factures -> Lignes]
             /\ \A e \in Entreprises, p \in {"FAC", "AV"}, m \in 1..MaxMois :
                   Ordonne(Rangs(base', e, p, m))
  <2>1. base \in [Factures -> Lignes]
    BY DEF TypeInv, TypeOK
  <2>2. l.numero.rang \in Nat
    BY LigneDeTable DEF Numeros, Provisoire
  <2>3. ASSUME NEW e \in Entreprises, NEW p \in {"FAC", "AV"}, NEW m \in 1..MaxMois
        PROVE  Ordonne(Rangs(base', e, p, m))
    <3>1. Rangs(base', e, p, m) \subseteq Rangs(base, e, p, m) \cup {l.numero.rang}
      BY <1>2, <2>1, RangsApresEcriture
    <3>2. Ordonne(Rangs(base, e, p, m))
      BY DEF TypeInv, SeriesOrdonnees
    <3>3. Rangs(base, e, p, m) \subseteq Nat
      BY <2>1, NumerosEmisType, RangsEntiers DEF Rangs
    <3>. QED  BY <2>2, <3>1, <3>2, <3>3, OrdreAjout
  <2>. QED  BY <1>2, <2>1, <2>3
<1>. QED  BY <1>1, <1>2

\* What is left of the invariant when a request has ended.
LEMMA TypeRepondre ==
    ASSUME TypeInv, NEW s \in Sessions, Repondre(s)
    PROVE  /\ etape' \in [Sessions -> {"libre", "lue", "reprise"}]
           /\ demande' \in [Sessions -> Demandes]
           /\ lu' \in [Sessions -> Lectures]
           /\ ouvert' \in [Sessions -> 1..MaxMois]
           /\ tentative' \in [Sessions -> 0..MAX_TENTATIVES_NUMEROTATION - 1]
           /\ Adressee'
           /\ \A t \in Sessions, m \in 1..MaxMois : Ordonne(RangsDuMois(lu'[t].numeros, m))
<1>1. etape' \in [Sessions -> {"libre", "lue", "reprise"}]
  BY DEF TypeInv, TypeOK, Repondre
<1>2. demande' \in [Sessions -> Demandes]
  BY TypeVide DEF TypeInv, TypeOK, Repondre
<1>3. lu' \in [Sessions -> Lectures]
  BY TypeVide DEF TypeInv, TypeOK, Repondre
<1>4. ouvert' \in [Sessions -> 1..MaxMois]
  BY HypMois DEF TypeInv, TypeOK, Repondre
<1>5. tentative' \in [Sessions -> 0..MAX_TENTATIVES_NUMEROTATION - 1]
  BY DEF TypeInv, TypeOK, Repondre, MAX_TENTATIVES_NUMEROTATION
<1>6. Adressee'
  BY DEF TypeInv, TypeOK, Adressee, Repondre
<1>7. ASSUME NEW t \in Sessions, NEW m \in 1..MaxMois
      PROVE  Ordonne(RangsDuMois(lu'[t].numeros, m))
  <2>1. CASE t = s
    <3>1. RangsDuMois(lu'[t].numeros, m) = {}
      BY <2>1 DEF TypeInv, TypeOK, Repondre, SansLecture, RangsDuMois
    <3>. QED  BY <3>1 DEF Ordonne
  <2>2. CASE t # s
    BY <2>2 DEF TypeInv, TypeOK, SeriesOrdonnees, Repondre
  <2>. QED  BY <2>1, <2>2
<1>. QED  BY <1>1, <1>2, <1>3, <1>4, <1>5, <1>6, <1>7

\* A request ends and at most one row is written.
LEMMA TypeFinDeRequete ==
    ASSUME TypeInv, NEW s \in Sessions, Repondre(s), mois' = mois,
           \/ base' = base
           \/ \E f \in Factures, l \in Lignes : base' = [base EXCEPT ![f] = l],
           concurrentes' \in [Sessions -> 0..MAX_TENTATIVES_NUMEROTATION],
           journal' \subseteq [facture : Factures, ent : Entreprises, numero : Numeros],
           tardif' \subseteq {"modification", "suppression", "renumerotation", "revalidation"}
    PROVE  TypeInv'
<1>1. mois' \in 1..MaxMois
  BY DEF TypeInv, TypeOK
<1>2. base' \in [Factures -> Lignes]
  BY SeriesApresEcriture
<1>3. TypeOK'
  BY <1>1, <1>2, TypeRepondre DEF TypeOK
<1>4. \A e \in Entreprises, p \in {"FAC", "AV"}, m \in 1..MaxMois :
         Ordonne(Rangs(base', e, p, m))
  BY SeriesApresEcriture
<1>5. SeriesOrdonnees'
  BY <1>4, TypeRepondre DEF SeriesOrdonnees, Rangs
<1>. QED  BY <1>3, <1>5, TypeRepondre DEF TypeInv

\* A request is read, for the first time or again.
LEMMA TypeLire ==
    ASSUME TypeInv, NEW s \in Sessions, NEW d \in Demandes,
           d.cible \in Factures, d.ent \in Entreprises, Lire(s, d),
           demande' = [demande EXCEPT ![s] = d],
           UNCHANGED <<base, mois, tentative, concurrentes, historique>>
    PROVE  TypeInv'
<1>1. /\ Lecture(base, d) \in Lectures
      /\ \A m \in 1..MaxMois : Ordonne(RangsDuMois(Lecture(base, d).numeros, m))
  BY LectureType
<1>2. TypeOK'
  BY <1>1 DEF TypeInv, TypeOK, Lire, historique
<1>3. Adressee'
  BY DEF TypeInv, TypeOK, Adressee, Lire
<1>4. SeriesOrdonnees'
  <2>1. ASSUME NEW t \in Sessions, NEW m \in 1..MaxMois
        PROVE  Ordonne(RangsDuMois(lu'[t].numeros, m))
    BY <1>1 DEF TypeInv, TypeOK, SeriesOrdonnees, Lire
  <2>. QED  BY <2>1 DEF TypeInv, SeriesOrdonnees, Rangs
<1>. QED  BY <1>2, <1>3, <1>4 DEF TypeInv

\* Ending the request and its count of validations.
LEMMA TypeClore ==
    ASSUME TypeInv, NEW s \in Sessions, Clore(s), mois' = mois,
           \/ base' = base
           \/ \E f \in Factures, l \in Lignes : base' = [base EXCEPT ![f] = l],
           journal' = journal,
           tardif' \subseteq {"modification", "suppression", "renumerotation", "revalidation"}
    PROVE  TypeInv'
<1>1. concurrentes' \in [Sessions -> 0..MAX_TENTATIVES_NUMEROTATION]
  BY DEF TypeInv, TypeOK, Clore, MAX_TENTATIVES_NUMEROTATION
<1>2. Repondre(s)
  BY DEF Clore
<1>3. journal' \subseteq [facture : Factures, ent : Entreprises, numero : Numeros]
  BY DEF TypeInv, TypeOK
<1>. QED  BY <1>1, <1>2, <1>3, TypeFinDeRequete

\* The values of the request of a session that is serving one.
LEMMA DemandeType ==
    ASSUME TypeInv, NEW s \in Sessions, etape[s] # "libre"
    PROVE  /\ demande[s] \in Demandes
           /\ demande[s].cible \in Factures
           /\ demande[s].ent \in Entreprises
           /\ demande[s].saisie \in Saisies
           /\ Lue(s) \in Lignes
           /\ Courante(s) \in Lignes
           /\ lu[s].figeOrigine \in Clients \cup {Aucun}
BY DEF TypeInv, TypeOK, Adressee, Demandes, Lectures, Lue, Courante

LEMMA LigneModifieeType ==
    ASSUME TypeInv, NEW s \in Sessions, etape[s] # "libre"
    PROVE  LigneModifiee(s) \in Lignes
<1>. DEFINE d == demande[s].saisie
<1>1. /\ d.type \in Types \cup {Inchange}
      /\ d.client \in Clients \cup {Aucun, Inchange}
  BY DemandeType DEF Saisies
<1>2. Courante(s) \in Lignes
  BY DemandeType
<1>3. Champ(d.type, Lue(s).type, Courante(s).type) \in {"facture", "avoir"}
  BY <1>1, <1>2, LigneDeTable, HypTypes DEF Champ, Ecrire
<1>4. Champ(d.client, Lue(s).client, Courante(s).client) \in Clients \cup {Aucun}
  BY <1>1, <1>2, LigneDeTable DEF Champ, Ecrire
<1>5. LigneModifiee(s) =
        [Courante(s) EXCEPT
            !.type = Champ(d.type, Lue(s).type, Courante(s).type),
            !.client = Champ(d.client, Lue(s).client, Courante(s).client)]
  BY DEF LigneModifiee
<1>. QED  BY <1>2, <1>3, <1>4, <1>5 DEF Lignes

LEMMA LigneValideeType ==
    ASSUME TypeInv, NEW s \in Sessions, etape[s] # "libre", NEW n \in Numeros
    PROVE  LigneValidee(s, n) \in Lignes
<1>1. Instantane(s) \in Clients \cup {Aucun}
  BY DemandeType, LigneDeTable DEF Instantane
<1>2. Courante(s) \in Lignes
  BY DemandeType
<1>3. Ecrire(Lue(s).fige, Instantane(s), Courante(s).fige) \in Clients \cup {Aucun}
  BY <1>1, <1>2, LigneDeTable DEF Ecrire
<1>4. LigneValidee(s, n) =
        [Courante(s) EXCEPT !.etat = "emise", !.numero = n,
            !.fige = Ecrire(Lue(s).fige, Instantane(s), Courante(s).fige)]
  BY DEF LigneValidee
<1>. QED  BY <1>2, <1>3, <1>4 DEF Lignes

\* The draft an endpoint inserts is a row, written where there was none.
LEMMA InsererType ==
    ASSUME NEW ligne \in Lignes, Inserer(ligne)
    PROVE  \E f \in Factures, l \in Lignes : base' = [base EXCEPT ![f] = l]
BY DEF Inserer

LEMMA RecevablesType ==
    ASSUME NEW d \in Recevables
    PROVE  d \in Demandes /\ d.cible \in Factures /\ d.ent \in Entreprises
BY DEF Recevables, Demandes

\* Every step keeps TypeInv.
LEMMA TypeEtape == TypeInv /\ [Next]_vars => TypeInv'
<1> SUFFICES ASSUME TypeInv, [Next]_vars PROVE TypeInv'
  OBVIOUS
<1>1. ASSUME NEW s \in Sessions, NEW d \in Demandes, d.cible \in Factures,
             d.ent \in Entreprises, Recevoir(s, d)
      PROVE  TypeInv'
  BY <1>1, TypeLire DEF Recevoir
<1>2. ASSUME NEW s \in Sessions, NEW e \in Entreprises, NEW type \in Types,
             NEW client \in Clients \cup {Aucun}, Creer(s, e, type, client)
      PROVE  TypeInv'
  <2>. DEFINE l == [Vide EXCEPT !.etat = "brouillon", !.ent = e, !.type = type,
                                !.client = client]
  <2>1. l \in Lignes
    BY TypeVide, HypTypes DEF Vide, Lignes
  <2>2. \E f \in Factures, k \in Lignes : base' = [base EXCEPT ![f] = k]
    BY <1>2, <2>1, InsererType DEF Creer
  <2>3. TypeOK'
    BY <1>2, <2>2, SeriesApresEcriture
    DEF Creer, TypeInv, TypeOK, requete, historique
  <2>4. Adressee'
    BY <1>2 DEF Creer, TypeInv, Adressee, requete
  <2>5. SeriesOrdonnees'
    BY <1>2, <2>2, SeriesApresEcriture
    DEF Creer, TypeInv, SeriesOrdonnees, requete, Rangs
  <2>. QED  BY <2>3, <2>4, <2>5 DEF TypeInv
<1>3. ASSUME NEW s \in Sessions, Abandonner(s)
      PROVE  TypeInv'
  BY <1>3, TypeClore DEF Abandonner, historique, TypeInv, TypeOK
<1>4. ASSUME NEW s \in Sessions, LigneDisparue(s)
      PROVE  TypeInv'
  BY <1>4, TypeClore DEF LigneDisparue, historique, TypeInv, TypeOK
<1>5. ASSUME NEW s \in Sessions, Modifier(s)
      PROVE  TypeInv'
  <2>1. etape[s] # "libre"
    BY <1>5 DEF Modifier, EnCours
  <2>2. LigneModifiee(s) \in Lignes /\ demande[s].cible \in Factures
    BY <2>1, LigneModifieeType, DemandeType
  <2>3. tardif' \subseteq {"modification", "suppression", "renumerotation", "revalidation"}
    BY <1>5 DEF Modifier, LigneDisparue, historique, TypeInv, TypeOK
  <2>. QED  BY <1>4, <1>5, <2>2, <2>3, TypeClore DEF Modifier
<1>6. ASSUME NEW s \in Sessions, Supprimer(s)
      PROVE  TypeInv'
  <2>1. etape[s] # "libre"
    BY <1>6 DEF Supprimer, EnCours
  <2>2. [Vide EXCEPT !.etat = "supprimee"] \in Lignes /\ demande[s].cible \in Factures
    BY <2>1, TypeVide, DemandeType DEF Vide, Lignes
  <2>3. tardif' \subseteq {"modification", "suppression", "renumerotation", "revalidation"}
    BY <1>6 DEF Supprimer, TypeInv, TypeOK
  <2>. QED  BY <1>6, <2>2, <2>3, TypeClore DEF Supprimer
<1>7. ASSUME NEW s \in Sessions, Valider(s)
      PROVE  TypeInv'
  <2>1. etape[s] # "libre"
    BY <1>7 DEF Valider, EnCours
  <2>2. demande[s].cible \in Factures /\ demande[s].ent \in Entreprises
    BY <2>1, DemandeType
  <2>3. ASSUME NEW n \in Numeros, Attribuer(s, n), mois' = mois
        PROVE  TypeInv'
    <3>1. LigneValidee(s, n) \in Lignes
      BY <2>1, LigneValideeType
    <3>2. concurrentes' \in [Sessions -> 0..MAX_TENTATIVES_NUMEROTATION]
      BY <2>3 DEF Attribuer, TypeInv, TypeOK, Borner, MAX_TENTATIVES_NUMEROTATION
    <3>3. journal' \subseteq [facture : Factures, ent : Entreprises, numero : Numeros]
      BY <2>2, <2>3 DEF Attribuer, TypeInv, TypeOK
    <3>4. tardif' \subseteq {"modification", "suppression", "renumerotation", "revalidation"}
      BY <2>3 DEF Attribuer, TypeInv, TypeOK, Revalidation
    <3>. QED  BY <2>2, <2>3, <3>1, <3>2, <3>3, <3>4, TypeFinDeRequete DEF Attribuer
  <2>4. ASSUME NEW n \in Numeros, Rejouer(s, n), mois' = mois
        PROVE  TypeInv'
    <3>1. TypeOK'
      BY <2>4, TypeVide, HypMois
      DEF Rejouer, TypeInv, TypeOK, historique, MAX_TENTATIVES_NUMEROTATION
    <3>2. Adressee'
      BY <2>1, <2>4 DEF Rejouer, TypeInv, TypeOK, Adressee
    <3>3. ASSUME NEW t \in Sessions, NEW m \in 1..MaxMois
          PROVE  Ordonne(RangsDuMois(lu'[t].numeros, m))
      <4>1. CASE t = s
        <5>1. RangsDuMois(lu'[t].numeros, m) = {}
          BY <2>4, <4>1 DEF Rejouer, TypeInv, TypeOK, SansLecture, RangsDuMois
        <5>. QED  BY <5>1 DEF Ordonne
      <4>2. CASE t # s
        BY <2>4, <4>2 DEF Rejouer, TypeInv, TypeOK, SeriesOrdonnees
      <4>. QED  BY <4>1, <4>2
    <3>4. SeriesOrdonnees'
      BY <2>4, <3>3 DEF Rejouer, TypeInv, SeriesOrdonnees, Rangs
    <3>. QED  BY <3>1, <3>2, <3>4 DEF TypeInv
  <2>5. ASSUME NEW n \in Numeros, Renoncer(s, n), mois' = mois
        PROVE  TypeInv'
    BY <2>5, TypeClore DEF Renoncer, historique, TypeInv, TypeOK
  <2>6. \A m \in ouvert[s]..mois : NumeroCalcule(s, m) \in Numeros
    BY NumeroCalculeType
  <2>. QED  BY <1>4, <1>7, <2>3, <2>4, <2>5, <2>6 DEF Valider
<1>8. ASSUME NEW s \in Sessions, Reprendre(s)
      PROVE  TypeInv'
  <2>1. etape[s] # "libre"
    BY <1>8 DEF Reprendre
  <2>2. CASE Refus(base, demande[s]) /\ Clore(s)
    BY <1>8, <2>2, TypeClore DEF Reprendre, historique, TypeInv, TypeOK
  <2>3. CASE Lire(s, demande[s]) /\ UNCHANGED <<demande, tentative, concurrentes>>
    <3>1. demande' = [demande EXCEPT ![s] = demande[s]]
      BY <2>3 DEF TypeInv, TypeOK
    <3>. QED  BY <1>8, <2>1, <2>3, <3>1, DemandeType, TypeLire DEF Reprendre, historique
  <2>. QED  BY <1>8, <2>2, <2>3 DEF Reprendre
<1>9. ASSUME NEW s \in Sessions, GenererAvoir(s)
      PROVE  TypeInv'
  <2>1. etape[s] # "libre"
    BY <1>9 DEF GenererAvoir, EnCours
  <2>. DEFINE l == [Vide EXCEPT !.etat = "brouillon", !.ent = demande[s].ent,
                                !.type = "avoir", !.origine = demande[s].cible,
                                !.client = Lue(s).client, !.fige = Lue(s).fige]
  <2>2. l \in Lignes
    BY <2>1, DemandeType, LigneDeTable, TypeVide DEF Vide, Lignes
  <2>3. Inserer(l) => \E f \in Factures, k \in Lignes : base' = [base EXCEPT ![f] = k]
    BY <2>2, InsererType
  <2>. QED  BY <1>4, <1>9, <2>3, TypeClore
            DEF GenererAvoir, historique, TypeInv, TypeOK
<1>10. CASE MoisSuivant
  <2>1. TypeOK'
    BY <1>10, HypMois DEF MoisSuivant, TypeInv, TypeOK, requete, historique
  <2>2. Adressee' /\ SeriesOrdonnees'
    BY <1>10 DEF MoisSuivant, TypeInv, Adressee, SeriesOrdonnees, Rangs, requete
  <2>. QED  BY <2>1, <2>2 DEF TypeInv
<1>11. CASE UNCHANGED vars
  <2>1. TypeOK'
    BY <1>11 DEF vars, TypeInv, TypeOK
  <2>2. Adressee' /\ SeriesOrdonnees'
    BY <1>11 DEF vars, TypeInv, Adressee, SeriesOrdonnees, Rangs
  <2>. QED  BY <2>1, <2>2 DEF TypeInv
<1>12. \A d \in Recevables : /\ d \in Demandes
                            /\ d.cible \in Factures
                            /\ d.ent \in Entreprises
  BY RecevablesType
<1>. QED
  BY <1>1, <1>2, <1>3, <1>5, <1>6, <1>7, <1>8, <1>9, <1>10, <1>11, <1>12
  DEF Next, Poursuivre

LEMMA TypeInit == Init => TypeInv
<1> SUFFICES ASSUME Init PROVE TypeInv
  OBVIOUS
<1>1. TypeOK
  BY TypeVide, HypMois
  DEF Init, TypeOK, BaseVide, MAX_TENTATIVES_NUMEROTATION
<1>2. Adressee
  BY DEF Init, Adressee
<1>3. \A e, p, m : Rangs(base, e, p, m) = {}
  BY DEF Init, BaseVide, Vide, Rangs, RangsDuMois, NumerosEmis, Accessible, Existe
<1>4. \A s \in Sessions : \A m : RangsDuMois(lu[s].numeros, m) = {}
  BY DEF Init, SansLecture, RangsDuMois
<1>5. SeriesOrdonnees
  BY <1>3, <1>4 DEF SeriesOrdonnees, Ordonne
<1>. QED  BY <1>1, <1>2, <1>5 DEF TypeInv

\* Every reachable state satisfies TypeInv, the invariant the other proofs use.
THEOREM InvariantDeType == Spec => []TypeInv
BY TypeInit, TypeEtape, PTL DEF Spec

\* The variables have their types, the numbers computed by "max + 1" included:
\* the last number of a series is always defined (service.py:447-464).
THEOREM TypesCorrects == Spec => []TypeOK
<1>1. TypeInv => TypeOK
  BY DEF TypeInv
<1>. QED  BY <1>1, InvariantDeType, PTL
-----------------------------------------------------------------------------
(* Evolution of rows and requests *)

\* What one step may do to the row of each invoice, whoever takes it.
Evolution ==
    \A f \in Factures : base[f].etat # "absente" =>
        /\ base'[f].etat # "absente"
        /\ Existe(base', f) =>
              /\ Existe(base, f)
              /\ base'[f].ent = base[f].ent
              /\ base'[f].origine = base[f].origine
              /\ base[f].etat = "emise" => base'[f].etat = "emise"

\* A fresh reading: the guards of the handler hold of the rows as they are.
Relue(s) ==
    /\ etape'[s] = "lue"
    /\ demande'[s] \in Demandes
    /\ demande'[s].cible \in Factures
    /\ demande'[s].ent \in Entreprises
    /\ ~Refus(base, demande'[s])
    /\ lu'[s] = Lecture(base, demande'[s])
    /\ UNCHANGED <<base, journal, tardif>>

\* What one step may do to the request of each session, whoever takes it.
SuiteRequete(s) ==
    \/ etape'[s] = "libre"
    \/ etape'[s] = etape[s] /\ demande'[s] = demande[s] /\ lu'[s] = lu[s]
    \/ etape'[s] = "reprise" /\ etape[s] # "libre" /\ demande'[s] = demande[s]
    \/ Relue(s)

-----------------------------------------------------------------------------
(* Invariants *)

\* The target of a request in progress has been in the table.
CibleConnue ==
    \A s \in Sessions : etape[s] # "libre" => base[demande[s].cible].etat # "absente"

\* What a request read of its invoice and can rely on if the row is still there.
LuFiable ==
    \A s \in Sessions : etape[s] = "lue" =>
        /\ Lue(s).origine # Aucun => Lue(s).type = "avoir"
        /\ demande[s].op = "modifier" => ~RefusModifier(Lue(s), demande[s].saisie)
        /\ Existe(base, demande[s].cible) =>
              /\ Courante(s).ent = demande[s].ent
              /\ Courante(s).origine = Lue(s).origine
              /\ demande[s].op = "avoir" => Courante(s).etat = "emise"

AvoirInv == TypeInv /\ CibleConnue /\ LuFiable /\ OrigineEmise /\ AvoirLieEnSerieAvoir

-----------------------------------------------------------------------------
(* Requests *)

\* When s ends its request, the others go on as they were.
LEMMA SuiteRepondre ==
    ASSUME TypeInv, NEW s \in Sessions, Repondre(s)
    PROVE  \A t \in Sessions : SuiteRequete(t)
BY DEF TypeInv, TypeOK, Repondre, SuiteRequete

LEMMA SuiteLire ==
    ASSUME TypeInv, NEW s \in Sessions, NEW d \in Demandes,
           d.cible \in Factures, d.ent \in Entreprises, Lire(s, d),
           demande' = [demande EXCEPT ![s] = d],
           UNCHANGED <<base, journal, tardif>>
    PROVE  \A t \in Sessions : SuiteRequete(t)
<1>1. SuiteRequete(s)
  BY DEF TypeInv, TypeOK, Lire, SuiteRequete, Relue
<1>2. ASSUME NEW t \in Sessions, t # s PROVE SuiteRequete(t)
  BY <1>2 DEF TypeInv, TypeOK, Lire, SuiteRequete
<1>. QED  BY <1>1, <1>2

LEMMA SuiteRejouer ==
    ASSUME TypeInv, NEW s \in Sessions, etape[s] # "libre", NEW n, Rejouer(s, n)
    PROVE  \A t \in Sessions : SuiteRequete(t)
BY DEF TypeInv, TypeOK, Rejouer, SuiteRequete

LEMMA SuiteEtape ==
    ASSUME TypeInv, [Next]_vars
    PROVE  \A t \in Sessions : SuiteRequete(t)
<1>1. CASE UNCHANGED requete
  BY <1>1 DEF requete, SuiteRequete
<1>2. ASSUME NEW s \in Sessions, Clore(s) PROVE \A t \in Sessions : SuiteRequete(t)
  BY <1>2, SuiteRepondre DEF Clore
<1>3. ASSUME NEW s \in Sessions, NEW d \in Recevables, Recevoir(s, d)
      PROVE  \A t \in Sessions : SuiteRequete(t)
  BY <1>3, RecevablesType, SuiteLire DEF Recevoir, historique
<1>4. ASSUME NEW s \in Sessions, Valider(s)
      PROVE  \A t \in Sessions : SuiteRequete(t)
  <2>1. etape[s] # "libre"
    BY <1>4 DEF Valider, EnCours
  <2>. QED  BY <1>2, <1>4, <2>1, SuiteRepondre, SuiteRejouer
            DEF Valider, LigneDisparue, Attribuer, Renoncer
<1>5. ASSUME NEW s \in Sessions, Reprendre(s)
      PROVE  \A t \in Sessions : SuiteRequete(t)
  <2>1. CASE Lire(s, demande[s]) /\ UNCHANGED <<demande, tentative, concurrentes>>
    <3>1. demande' = [demande EXCEPT ![s] = demande[s]]
      BY <2>1 DEF TypeInv, TypeOK
    <3>2. UNCHANGED <<base, journal, tardif>> /\ etape[s] # "libre"
      BY <1>5 DEF Reprendre, historique
    <3>. QED  BY <2>1, <3>1, <3>2, DemandeType, SuiteLire
  <2>. QED  BY <1>2, <1>5, <2>1 DEF Reprendre
<1>. QED
  BY <1>1, <1>2, <1>3, <1>4, <1>5
  DEF Next, Poursuivre, Creer, Abandonner, Modifier, LigneDisparue, Supprimer,
      GenererAvoir, MoisSuivant, vars, requete

-----------------------------------------------------------------------------
(* Rows *)

LEMMA EvolutionInserer ==
    ASSUME TypeInv, NEW ligne, Inserer(ligne)
    PROVE  Evolution
BY DEF TypeInv, TypeOK, Inserer, Evolution, Existe

\* A row of the table is written that was not absent, or is not from a deletion.
LEMMA EvolutionEcrire ==
    ASSUME TypeInv, NEW f \in Factures, NEW l, base' = [base EXCEPT ![f] = l],
           l.etat # "absente",
           l.etat \in {"brouillon", "emise"} =>
               /\ Existe(base, f)
               /\ l.ent = base[f].ent
               /\ l.origine = base[f].origine
               /\ base[f].etat = "emise" => l.etat = "emise"
    PROVE  Evolution
<1>1. \A g \in Factures : base'[g] = IF g = f THEN l ELSE base[g]
  BY DEF TypeInv, TypeOK
<1>. QED  BY <1>1 DEF Evolution, Existe

\* The draft fields a PATCH and a validation leave alone.
LEMMA LigneModifieeGarde ==
    ASSUME TypeInv, NEW s \in Sessions, etape[s] # "libre"
    PROVE  /\ LigneModifiee(s).etat = Courante(s).etat
           /\ LigneModifiee(s).ent = Courante(s).ent
           /\ LigneModifiee(s).origine = Courante(s).origine
           /\ LigneModifiee(s).numero = Courante(s).numero
           /\ LigneModifiee(s).type
                = Champ(demande[s].saisie.type, Lue(s).type, Courante(s).type)
<1>1. Courante(s) \in Lignes
  BY DemandeType
<1>. QED  BY <1>1 DEF LigneModifiee, Lignes

LEMMA LigneValideeGarde ==
    ASSUME TypeInv, NEW s \in Sessions, etape[s] # "libre", NEW n
    PROVE  /\ LigneValidee(s, n).etat = "emise"
           /\ LigneValidee(s, n).ent = Courante(s).ent
           /\ LigneValidee(s, n).origine = Courante(s).origine
           /\ LigneValidee(s, n).type = Courante(s).type
           /\ LigneValidee(s, n).numero = n
<1>1. Courante(s) \in Lignes
  BY DemandeType
<1>. QED  BY <1>1 DEF LigneValidee, Lignes

LEMMA EvolutionEtape ==
    ASSUME TypeInv, [Next]_vars
    PROVE  Evolution
<1>1. CASE base' = base
  BY <1>1 DEF Evolution
<1>2. ASSUME NEW s \in Sessions, Modifier(s) PROVE Evolution
  <2>1. etape[s] # "libre"
    BY <1>2 DEF Modifier, EnCours
  <2>2. demande[s].cible \in Factures
    BY <2>1, DemandeType
  <2>. QED  BY <1>1, <1>2, <2>1, <2>2, LigneModifieeGarde, EvolutionEcrire
            DEF Modifier, LigneDisparue, Existe, Courante
<1>3. ASSUME NEW s \in Sessions, Supprimer(s) PROVE Evolution
  <2>1. demande[s].cible \in Factures
    BY <1>3, DemandeType DEF Supprimer, EnCours
  <2>2. [Vide EXCEPT !.etat = "supprimee"].etat = "supprimee"
    BY DEF Vide
  <2>. QED  BY <1>1, <1>3, <2>1, <2>2, EvolutionEcrire DEF Supprimer
<1>4. ASSUME NEW s \in Sessions, Valider(s) PROVE Evolution
  <2>1. etape[s] # "libre"
    BY <1>4 DEF Valider, EnCours
  <2>2. demande[s].cible \in Factures
    BY <2>1, DemandeType
  <2>3. ASSUME NEW n, Attribuer(s, n), Existe(base, demande[s].cible)
        PROVE  Evolution
    BY <2>1, <2>2, <2>3, LigneValideeGarde, EvolutionEcrire
    DEF Attribuer, Courante
  <2>. QED  BY <1>1, <1>4, <2>3 DEF Valider, LigneDisparue, Rejouer, Renoncer
<1>5. ASSUME NEW s \in Sessions, GenererAvoir(s) PROVE Evolution
  BY <1>1, <1>5, EvolutionInserer DEF GenererAvoir, LigneDisparue
<1>. QED
  BY <1>1, <1>2, <1>3, <1>4, <1>5, EvolutionInserer
  DEF Next, Poursuivre, Recevoir, Creer, Abandonner, Reprendre, MoisSuivant, vars

\* An emitted invoice that a credit note references stays emitted.
LEMMA OrigineReste ==
    ASSUME TypeInv, [Next]_vars, NEW o \in Factures, base[o].etat = "emise", Reference(o)
    PROVE  base'[o].etat = "emise"
<1>1. Existe(base', o) => base'[o].etat = "emise"
  BY EvolutionEtape DEF Evolution
<1>2. base'[o].etat # "absente" /\ base'[o] \in Lignes
  <2>1. TypeInv'
    BY TypeEtape
  <2>. QED  BY <2>1, EvolutionEtape DEF Evolution, TypeInv, TypeOK
<1>3. base'[o].etat # "supprimee"
  <2>1. CASE base' = base
    BY <2>1
  <2>2. ASSUME NEW s \in Sessions, Modifier(s) PROVE base'[o].etat # "supprimee"
    <3>1. etape[s] # "libre"
      BY <2>2 DEF Modifier, EnCours
    <3>. QED  BY <2>1, <2>2, <3>1, LigneModifieeGarde
              DEF Modifier, LigneDisparue, Courante, Existe, TypeInv, TypeOK
  <2>3. ASSUME NEW s \in Sessions, Supprimer(s) PROVE base'[o].etat # "supprimee"
    BY <2>1, <2>3 DEF Supprimer, TypeInv, TypeOK
  <2>4. ASSUME NEW s \in Sessions, Valider(s) PROVE base'[o].etat # "supprimee"
    <3>1. etape[s] # "libre"
      BY <2>4 DEF Valider, EnCours
    <3>. QED  BY <2>1, <2>4, <3>1, LigneValideeGarde
              DEF Valider, LigneDisparue, Attribuer, Rejouer, Renoncer, TypeInv, TypeOK
  <2>5. ASSUME NEW ligne, Inserer(ligne) PROVE base'[o].etat # "supprimee"
    BY <2>5 DEF Inserer, TypeInv, TypeOK
  <2>. QED
    BY <2>1, <2>2, <2>3, <2>4, <2>5
    DEF Next, Poursuivre, Recevoir, Creer, Abandonner, Reprendre, GenererAvoir,
        LigneDisparue, MoisSuivant, vars
<1>. QED  BY <1>1, <1>2, <1>3, LigneDeTable DEF Existe

\* A row is born a draft; if it has an original, it is a credit note and its
\* original is emitted.
LEMMA Naissance ==
    ASSUME AvoirInv, [Next]_vars, NEW f \in Factures, base[f].etat = "absente",
           Existe(base', f)
    PROVE  /\ base'[f].etat = "brouillon"
           /\ base'[f].origine # Aucun =>
                 /\ base'[f].type = "avoir"
                 /\ base'[base'[f].origine].etat = "emise"
<1>. DEFINE Ne ==
         /\ base'[f].etat = "brouillon"
         /\ base'[f].origine # Aucun =>
               /\ base'[f].type = "avoir"
               /\ base'[base'[f].origine].etat = "emise"
<1>1. ~(base' = base)
  BY DEF Existe
<1>2. base \in [Factures -> Lignes]
  BY DEF AvoirInv, TypeInv, TypeOK
<1>3. ASSUME NEW ligne, Inserer(ligne) PROVE base' = [base EXCEPT ![f] = ligne]
  BY <1>2, <1>3 DEF Inserer, Existe
<1>4. ASSUME NEW s \in Sessions, NEW e \in Entreprises, NEW type \in Types,
             NEW client \in Clients \cup {Aucun}, Creer(s, e, type, client)
      PROVE  Ne
  <2>. DEFINE l == [Vide EXCEPT !.etat = "brouillon", !.ent = e, !.type = type,
                                !.client = client]
  <2>1. base' = [base EXCEPT ![f] = l]
    BY <1>3, <1>4 DEF Creer
  <2>2. l.etat = "brouillon" /\ l.origine = Aucun
    BY DEF Vide
  <2>. QED  BY <1>2, <2>1, <2>2
<1>5. ASSUME NEW s \in Sessions, GenererAvoir(s) PROVE Ne
  <2>1. etape[s] = "lue" /\ demande[s].op = "avoir" /\ etape[s] # "libre"
    BY <1>5 DEF GenererAvoir, EnCours
  <2>2. Existe(base, demande[s].cible)
    BY <1>1, <1>5 DEF GenererAvoir, LigneDisparue
  <2>3. base[demande[s].cible].etat = "emise" /\ demande[s].cible \in Factures
    BY <2>1, <2>2, DemandeType DEF AvoirInv, LuFiable, Courante
  <2>. DEFINE l == [Vide EXCEPT !.etat = "brouillon", !.ent = demande[s].ent,
                                !.type = "avoir", !.origine = demande[s].cible,
                                !.client = Lue(s).client, !.fige = Lue(s).fige]
  <2>4. base' = [base EXCEPT ![f] = l]
    BY <1>1, <1>3, <1>5 DEF GenererAvoir, LigneDisparue
  <2>5. l.etat = "brouillon" /\ l.type = "avoir" /\ l.origine = demande[s].cible
    BY DEF Vide
  <2>6. demande[s].cible # f
    BY <2>3
  <2>. QED  BY <1>2, <2>3, <2>4, <2>5, <2>6
<1>6. ASSUME NEW s \in Sessions, Modifier(s) PROVE FALSE
  BY <1>1, <1>2, <1>6, DemandeType
  DEF AvoirInv, CibleConnue, Modifier, EnCours, LigneDisparue, Existe
<1>7. ASSUME NEW s \in Sessions, Supprimer(s) PROVE FALSE
  BY <1>1, <1>2, <1>7, DemandeType
  DEF AvoirInv, CibleConnue, Supprimer, EnCours, Existe
<1>8. ASSUME NEW s \in Sessions, Valider(s) PROVE FALSE
  BY <1>1, <1>2, <1>8, DemandeType
  DEF AvoirInv, CibleConnue, Valider, EnCours, LigneDisparue, Attribuer, Rejouer,
      Renoncer, Existe
<1>. QED
  BY <1>1, <1>4, <1>5, <1>6, <1>7, <1>8
  DEF Next, Poursuivre, Recevoir, Abandonner, Reprendre, MoisSuivant, vars

\* A linked credit note keeps its type, and gets its number in the AV series.
LEMMA AvoirReste ==
    ASSUME AvoirInv, [Next]_vars, NEW f \in Factures, Existe(base, f),
           base[f].origine # Aucun, Existe(base', f)
    PROVE  /\ base'[f].type = "avoir"
           /\ base'[f].etat = "emise" => base'[f].numero.prefixe = "AV"
<1>. DEFINE But ==
         /\ base'[f].type = "avoir"
         /\ base'[f].etat = "emise" => base'[f].numero.prefixe = "AV"
<1>1. CASE base'[f] = base[f]
  BY <1>1 DEF AvoirInv, AvoirLieEnSerieAvoir
<1>2. base \in [Factures -> Lignes]
  BY DEF AvoirInv, TypeInv, TypeOK
<1>3. ASSUME NEW s \in Sessions, etape[s] = "lue", demande[s].cible = f
      PROVE  /\ Courante(s) = base[f]
             /\ Lue(s).type = "avoir"
             /\ Lue(s).origine # Aucun
             /\ demande[s].op = "modifier" => demande[s].saisie.type \in {Inchange, Lue(s).type}
  BY <1>3 DEF AvoirInv, LuFiable, Courante, RefusModifier
<1>4. ASSUME NEW s \in Sessions, Modifier(s) PROVE But
  <2>1. etape[s] = "lue" /\ etape[s] # "libre" /\ demande[s].op = "modifier"
    BY <1>4 DEF Modifier, EnCours
  <2>2. CASE demande[s].cible = f /\ base' = [base EXCEPT ![f] = LigneModifiee(s)]
    <3>1. Champ(demande[s].saisie.type, Lue(s).type, Courante(s).type) = "avoir"
      BY <1>3, <2>1, <2>2 DEF Champ, Ecrire, AvoirInv, AvoirLieEnSerieAvoir
    <3>2. /\ LigneModifiee(s).type = "avoir"
          /\ LigneModifiee(s).etat = base[f].etat
          /\ LigneModifiee(s).numero = base[f].numero
      BY <1>3, <2>1, <2>2, <3>1, LigneModifieeGarde DEF AvoirInv
    <3>. QED  BY <1>2, <2>2, <3>2 DEF AvoirInv, AvoirLieEnSerieAvoir
  <2>. QED  BY <1>1, <1>2, <1>4, <2>2 DEF Modifier, LigneDisparue
<1>5. ASSUME NEW s \in Sessions, Valider(s) PROVE But
  <2>1. etape[s] = "lue" /\ etape[s] # "libre"
    BY <1>5 DEF Valider, EnCours
  <2>2. ASSUME NEW m, demande[s].cible = f,
               base' = [base EXCEPT ![f] = LigneValidee(s, NumeroCalcule(s, m))]
        PROVE  But
    <3>1. NumeroCalcule(s, m).prefixe = "AV"
      BY <1>3, <2>1, <2>2 DEF NumeroCalcule, NouveauNumero, Prefixe
    <3>2. /\ LigneValidee(s, NumeroCalcule(s, m)).type = "avoir"
          /\ LigneValidee(s, NumeroCalcule(s, m)).numero = NumeroCalcule(s, m)
      BY <1>3, <2>1, <2>2, LigneValideeGarde DEF AvoirInv, AvoirLieEnSerieAvoir
    <3>. QED  BY <1>2, <2>2, <3>1, <3>2
  <2>. QED  BY <1>1, <1>2, <1>5, <2>2
            DEF Valider, LigneDisparue, Attribuer, Rejouer, Renoncer
<1>6. ASSUME NEW s \in Sessions, Supprimer(s) PROVE But
  <2>1. [Vide EXCEPT !.etat = "supprimee"].etat = "supprimee"
    BY DEF Vide
  <2>. QED  BY <1>1, <1>2, <1>6, <2>1 DEF Supprimer, Existe
<1>7. ASSUME NEW ligne, Inserer(ligne) PROVE But
  BY <1>1, <1>2, <1>7 DEF Inserer, Existe
<1>. QED
  BY <1>1, <1>4, <1>5, <1>6, <1>7
  DEF Next, Poursuivre, Recevoir, Creer, Abandonner, Reprendre, GenererAvoir,
      LigneDisparue, MoisSuivant, vars

-----------------------------------------------------------------------------
(* The inductive invariant *)

LEMMA AvoirEtape == AvoirInv /\ [Next]_vars => AvoirInv'
<1> SUFFICES ASSUME AvoirInv, [Next]_vars PROVE AvoirInv'
  OBVIOUS
<1>1. TypeInv /\ TypeInv'
  BY TypeEtape DEF AvoirInv
<1>2. Evolution /\ \A t \in Sessions : SuiteRequete(t)
  BY <1>1, EvolutionEtape, SuiteEtape
<1>3. CibleConnue'
  <2> SUFFICES ASSUME NEW t \in Sessions, etape'[t] # "libre"
               PROVE  base'[demande'[t].cible].etat # "absente"
    BY DEF CibleConnue
  <2>1. CASE Relue(t)
    BY <2>1 DEF Relue, Refus, Accessible, Existe
  <2>2. CASE demande'[t] = demande[t] /\ etape[t] # "libre"
    BY <1>1, <1>2, <2>2, DemandeType DEF AvoirInv, CibleConnue, Evolution
  <2>. QED  BY <1>2, <2>1, <2>2 DEF SuiteRequete
<1>4. LuFiable'
  <2> SUFFICES ASSUME NEW t \in Sessions, etape'[t] = "lue"
               PROVE  /\ Lue(t)'.origine # Aucun => Lue(t)'.type = "avoir"
                      /\ demande'[t].op = "modifier" => ~RefusModifier(Lue(t)', demande'[t].saisie)
                      /\ Existe(base', demande'[t].cible) =>
                            /\ Courante(t)'.ent = demande'[t].ent
                            /\ Courante(t)'.origine = Lue(t)'.origine
                            /\ demande'[t].op = "avoir" => Courante(t)'.etat = "emise"
    BY DEF LuFiable
  <2>1. CASE Relue(t)
    <3>1. Lue(t)' = base[demande'[t].cible] /\ Courante(t)' = base[demande'[t].cible]
      BY <2>1 DEF Relue, Lue, Lecture, Courante
    <3>2. Accessible(base, demande'[t].cible, demande'[t].ent)
      BY <2>1 DEF Relue, Refus
    <3>. QED  BY <2>1, <3>1, <3>2
              DEF Relue, Refus, RefusAvoir, Accessible, AvoirInv, AvoirLieEnSerieAvoir
  <2>2. CASE etape[t] = "lue" /\ demande'[t] = demande[t] /\ lu'[t] = lu[t]
    <3>1. demande[t].cible \in Factures /\ base[demande[t].cible].etat # "absente"
      BY <1>1, <2>2, DemandeType DEF AvoirInv, CibleConnue
    <3>2. Lue(t)' = Lue(t) /\ Courante(t)' = base'[demande[t].cible]
      BY <2>2 DEF Lue, Courante
    <3>. QED  BY <1>2, <2>2, <3>1, <3>2 DEF AvoirInv, LuFiable, Evolution, Courante
  <2>. QED  BY <1>2, <2>1, <2>2 DEF SuiteRequete
<1>5. ASSUME NEW f \in Factures, Existe(base', f), base'[f].origine # Aucun
      PROVE  /\ base'[base'[f].origine].etat = "emise"
             /\ base'[f].type = "avoir"
             /\ base'[f].etat = "emise" => base'[f].numero.prefixe = "AV"
  <2>1. CASE base[f].etat = "absente"
    BY <1>5, <2>1, Naissance
  <2>2. CASE base[f].etat # "absente"
    <3>1. Existe(base, f) /\ base[f].origine = base'[f].origine
      BY <1>2, <1>5, <2>2 DEF Evolution
    <3>2. base[base[f].origine].etat = "emise" /\ base[f].origine \in Factures
      BY <1>1, <1>5, <3>1, LigneDeTable DEF AvoirInv, OrigineEmise, TypeInv, TypeOK
    <3>3. base'[base[f].origine].etat = "emise"
      BY <1>1, <3>1, <3>2, OrigineReste DEF Reference
    <3>. QED  BY <1>5, <3>1, <3>3, AvoirReste
  <2>. QED  BY <2>1, <2>2
<1>6. OrigineEmise' /\ AvoirLieEnSerieAvoir'
  BY <1>5 DEF OrigineEmise, AvoirLieEnSerieAvoir, Existe
<1>. QED  BY <1>1, <1>3, <1>4, <1>6 DEF AvoirInv

LEMMA AvoirInit == Init => AvoirInv
<1> SUFFICES ASSUME Init PROVE AvoirInv
  OBVIOUS
<1>1. TypeInv
  BY TypeInit
<1>2. CibleConnue /\ LuFiable
  BY DEF Init, CibleConnue, LuFiable
<1>3. \A f \in Factures : ~Existe(base, f)
  BY DEF Init, BaseVide, Vide, Existe
<1>. QED  BY <1>1, <1>2, <1>3 DEF AvoirInv, OrigineEmise, AvoirLieEnSerieAvoir

\* The invariant on what requests have read that the theorems below rest on.
THEOREM InvariantDesAvoirs == Spec => []AvoirInv
BY AvoirInit, AvoirEtape, PTL DEF Spec

\* Whatever deletions, PATCHes and validations race, the original of a linked
\* credit note is an emitted invoice that is still in the table
\* (service.py:301-308, 558-562 and the foreign key of models.py:77-79).
THEOREM OriginesEmises == Spec => []OrigineEmise
<1>1. AvoirInv => OrigineEmise
  BY DEF AvoirInv
<1>. QED  BY <1>1, InvariantDesAvoirs, PTL

\* A linked credit note stays one, and is numbered in the AV series
\* (service.py:226-235, 443).
THEOREM AvoirsEnSerieAvoir == Spec => []AvoirLieEnSerieAvoir
<1>1. AvoirInv => AvoirLieEnSerieAvoir
  BY DEF AvoirInv
<1>. QED  BY <1>1, InvariantDesAvoirs, PTL
-----------------------------------------------------------------------------
(* Client details of a credit note *)

\* As long as no stale write has hit a validated invoice, the client details a
\* request has read of the invoice to credit, or of the original of the credit
\* note to validate, are those the original still has.
DetailsFiables ==
    tardif = {} => \A s \in Sessions :
        etape[s] = "lue" /\ Existe(base, demande[s].cible) =>
            /\ demande[s].op = "avoir" => Lue(s).fige = Courante(s).fige
            /\ demande[s].op = "valider" /\ Lue(s).origine # Aucun =>
                  lu[s].figeOrigine = base[Lue(s).origine].fige

FigeInv == AvoirInv /\ DetailsFiables /\ AvoirFigeCommeOrigine

\* A stale write is on record for good.
LEMMA TardifReste ==
    ASSUME [Next]_vars
    PROVE  tardif \subseteq tardif'
BY DEF Next, Poursuivre, Recevoir, Creer, Abandonner, Modifier, LigneDisparue,
       Supprimer, Valider, Attribuer, Rejouer, Renoncer, Reprendre, GenererAvoir,
       MoisSuivant, historique, vars

\* The only write of the client details is a validation.
LEMMA FigeEtape ==
    ASSUME TypeInv, [Next]_vars, NEW f \in Factures, Existe(base, f), Existe(base', f)
    PROVE  \/ base'[f].fige = base[f].fige
           \/ \E s \in Sessions :
                 /\ EnCours(s, "valider") /\ demande[s].cible = f
                 /\ base'[f].fige = Ecrire(Lue(s).fige, Instantane(s), base[f].fige)
                 /\ base[f].etat = "emise" => tardif' # {}
<1>. DEFINE But ==
         \/ base'[f].fige = base[f].fige
         \/ \E s \in Sessions :
               /\ EnCours(s, "valider") /\ demande[s].cible = f
               /\ base'[f].fige = Ecrire(Lue(s).fige, Instantane(s), base[f].fige)
               /\ base[f].etat = "emise" => tardif' # {}
<1>1. base \in [Factures -> Lignes]
  BY DEF TypeInv, TypeOK
<1>2. CASE base' = base
  BY <1>2
<1>3. ASSUME NEW s \in Sessions, Modifier(s) PROVE But
  <2>1. CASE base' = [base EXCEPT ![demande[s].cible] = LigneModifiee(s)]
    <3>1. Courante(s) \in Lignes /\ demande[s].cible \in Factures
      BY <1>3, DemandeType DEF Modifier, EnCours
    <3>2. LigneModifiee(s).fige = base[demande[s].cible].fige
      BY <3>1 DEF LigneModifiee, Lignes, Courante
    <3>. QED  BY <1>1, <2>1, <3>1, <3>2
  <2>. QED  BY <1>2, <1>3, <2>1 DEF Modifier, LigneDisparue
<1>4. ASSUME NEW s \in Sessions, Supprimer(s) PROVE But
  <2>1. [Vide EXCEPT !.etat = "supprimee"].etat = "supprimee"
    BY DEF Vide
  <2>. QED  BY <1>1, <1>2, <1>4, <2>1 DEF Supprimer, Existe
<1>5. ASSUME NEW s \in Sessions, Valider(s) PROVE But
  <2>1. EnCours(s, "valider") /\ etape[s] # "libre"
    BY <1>5 DEF Valider, EnCours
  <2>2. Courante(s) \in Lignes /\ demande[s].cible \in Factures
    BY <2>1, DemandeType
  <2>3. ASSUME NEW n, Attribuer(s, n) PROVE But
    <3>1. base' = [base EXCEPT ![demande[s].cible] = LigneValidee(s, n)]
      BY <2>3 DEF Attribuer
    <3>2. LigneValidee(s, n).fige
            = Ecrire(Lue(s).fige, Instantane(s), base[demande[s].cible].fige)
      BY <2>2 DEF LigneValidee, Lignes, Courante
    <3>3. base[demande[s].cible].etat = "emise" => tardif' # {}
      BY <2>3 DEF Attribuer, Revalidation
    <3>4. CASE demande[s].cible = f
      <4>1. base'[f].fige = Ecrire(Lue(s).fige, Instantane(s), base[f].fige)
        BY <1>1, <3>1, <3>2, <3>4
      <4>. QED  BY <2>1, <3>3, <3>4, <4>1
    <3>5. CASE demande[s].cible # f
      BY <1>1, <3>1, <3>5
    <3>. QED  BY <3>4, <3>5
  <2>. QED  BY <1>2, <1>5, <2>3 DEF Valider, LigneDisparue, Rejouer, Renoncer
<1>6. ASSUME NEW ligne, Inserer(ligne) PROVE But
  BY <1>1, <1>6 DEF Inserer, Existe
<1>. QED
  BY <1>2, <1>3, <1>4, <1>5, <1>6
  DEF Next, Poursuivre, Recevoir, Creer, Abandonner, Reprendre, GenererAvoir,
      LigneDisparue, MoisSuivant, vars

\* The details of an emitted invoice change only in a stale write.
LEMMA FigeReste ==
    ASSUME TypeInv, [Next]_vars, tardif' = {},
           NEW o \in Factures, base[o].etat = "emise", Existe(base', o)
    PROVE  base'[o].fige = base[o].fige
BY FigeEtape DEF Existe

\* A new credit note has the details of its original.
LEMMA FigeNaissance ==
    ASSUME FigeInv, [Next]_vars, tardif = {}, NEW f \in Factures,
           base[f].etat = "absente", Existe(base', f), base'[f].origine # Aucun
    PROVE  /\ base'[f].fige = base[base'[f].origine].fige
           /\ base'[f].origine \in Factures
           /\ base[base'[f].origine].etat = "emise"
<1>. DEFINE But ==
         /\ base'[f].fige = base[base'[f].origine].fige
         /\ base'[f].origine \in Factures
         /\ base[base'[f].origine].etat = "emise"
<1>1. ~(base' = base)
  BY DEF Existe
<1>2. base \in [Factures -> Lignes]
  BY DEF FigeInv, AvoirInv, TypeInv, TypeOK
<1>3. ASSUME NEW ligne, Inserer(ligne) PROVE base' = [base EXCEPT ![f] = ligne]
  BY <1>2, <1>3 DEF Inserer, Existe
<1>4. ASSUME NEW s \in Sessions, NEW e \in Entreprises, NEW type \in Types,
             NEW client \in Clients \cup {Aucun}, Creer(s, e, type, client)
      PROVE  FALSE
  <2>. DEFINE l == [Vide EXCEPT !.etat = "brouillon", !.ent = e, !.type = type,
                                !.client = client]
  <2>1. base' = [base EXCEPT ![f] = l]
    BY <1>3, <1>4 DEF Creer
  <2>2. l.origine = Aucun
    BY DEF Vide
  <2>. QED  BY <1>2, <2>1, <2>2
<1>5. ASSUME NEW s \in Sessions, GenererAvoir(s) PROVE But
  <2>1. etape[s] = "lue" /\ demande[s].op = "avoir" /\ etape[s] # "libre"
    BY <1>5 DEF GenererAvoir, EnCours
  <2>2. Existe(base, demande[s].cible)
    BY <1>1, <1>5 DEF GenererAvoir, LigneDisparue
  <2>3. base[demande[s].cible].etat = "emise" /\ demande[s].cible \in Factures
    BY <2>1, <2>2, DemandeType DEF FigeInv, AvoirInv, LuFiable, Courante
  <2>4. Lue(s).fige = base[demande[s].cible].fige
    BY <2>1, <2>2 DEF FigeInv, DetailsFiables, Courante
  <2>. DEFINE l == [Vide EXCEPT !.etat = "brouillon", !.ent = demande[s].ent,
                                !.type = "avoir", !.origine = demande[s].cible,
                                !.client = Lue(s).client, !.fige = Lue(s).fige]
  <2>5. base' = [base EXCEPT ![f] = l]
    BY <1>1, <1>3, <1>5 DEF GenererAvoir, LigneDisparue
  <2>6. l.fige = Lue(s).fige /\ l.origine = demande[s].cible
    BY DEF Vide
  <2>. QED  BY <1>2, <2>3, <2>4, <2>5, <2>6
<1>6. ASSUME NEW s \in Sessions, Modifier(s) PROVE FALSE
  BY <1>1, <1>2, <1>6, DemandeType
  DEF FigeInv, AvoirInv, CibleConnue, Modifier, EnCours, LigneDisparue, Existe
<1>7. ASSUME NEW s \in Sessions, Supprimer(s) PROVE FALSE
  BY <1>1, <1>2, <1>7, DemandeType
  DEF FigeInv, AvoirInv, CibleConnue, Supprimer, EnCours, Existe
<1>8. ASSUME NEW s \in Sessions, Valider(s) PROVE FALSE
  BY <1>1, <1>2, <1>8, DemandeType
  DEF FigeInv, AvoirInv, CibleConnue, Valider, EnCours, LigneDisparue, Attribuer,
      Rejouer, Renoncer, Existe
<1>. QED
  BY <1>1, <1>4, <1>5, <1>6, <1>7, <1>8
  DEF Next, Poursuivre, Recevoir, Abandonner, Reprendre, MoisSuivant, vars

LEMMA FigePasse == FigeInv /\ [Next]_vars => FigeInv'
<1> SUFFICES ASSUME FigeInv, [Next]_vars PROVE FigeInv'
  OBVIOUS
<1>1. AvoirInv /\ AvoirInv' /\ TypeInv /\ TypeInv' /\ Evolution
  BY AvoirEtape, EvolutionEtape DEF FigeInv, AvoirInv
<1>2. \A t \in Sessions : SuiteRequete(t)
  BY <1>1, SuiteEtape
<1>3. tardif' = {} => tardif = {}
  BY TardifReste
<1>4. DetailsFiables'
  <2> SUFFICES ASSUME tardif' = {}, NEW t \in Sessions, etape'[t] = "lue",
                      Existe(base', demande'[t].cible)
               PROVE  /\ demande'[t].op = "avoir" => Lue(t)'.fige = Courante(t)'.fige
                      /\ demande'[t].op = "valider" /\ Lue(t)'.origine # Aucun =>
                            lu'[t].figeOrigine = base'[Lue(t)'.origine].fige
    BY DEF DetailsFiables
  <2>1. CASE Relue(t)
    <3>1. base' = base /\ lu'[t] = Lecture(base, demande'[t])
      BY <2>1 DEF Relue
    <3>2. Lue(t)' = base[demande'[t].cible] /\ Courante(t)' = base[demande'[t].cible]
      BY <3>1 DEF Lue, Lecture, Courante
    <3>. QED  BY <3>1, <3>2 DEF Lecture
  <2>2. CASE etape[t] = "lue" /\ demande'[t] = demande[t] /\ lu'[t] = lu[t]
    <3>1. demande[t].cible \in Factures /\ base[demande[t].cible].etat # "absente"
      BY <1>1, <2>2, DemandeType DEF AvoirInv, CibleConnue
    <3>2. Lue(t)' = Lue(t) /\ Courante(t)' = base'[demande[t].cible]
      BY <2>2 DEF Lue, Courante
    <3>3. Existe(base, demande[t].cible)
      BY <1>1, <2>2, <3>1 DEF Evolution
    <3>4. ASSUME demande[t].op = "avoir"
          PROVE  Lue(t).fige = base'[demande[t].cible].fige
      <4>1. base[demande[t].cible].etat = "emise"
            /\ Lue(t).fige = base[demande[t].cible].fige
        BY <1>1, <1>3, <2>2, <3>3, <3>4
        DEF AvoirInv, LuFiable, FigeInv, DetailsFiables, Courante
      <4>. QED  BY <1>1, <2>2, <3>1, <4>1, FigeReste
    <3>5. ASSUME demande[t].op = "valider", Lue(t).origine # Aucun
          PROVE  lu[t].figeOrigine = base'[Lue(t).origine].fige
      <4>1. /\ lu[t].figeOrigine = base[Lue(t).origine].fige
            /\ Lue(t).origine = base[demande[t].cible].origine
        BY <1>1, <1>3, <2>2, <3>3, <3>5
        DEF AvoirInv, LuFiable, FigeInv, DetailsFiables, Courante
      <4>2. Lue(t).origine \in Factures /\ base[Lue(t).origine].etat = "emise"
        BY <1>1, <3>1, <3>3, <3>5, <4>1, LigneDeTable
        DEF AvoirInv, OrigineEmise, TypeInv, TypeOK
      <4>3. base'[Lue(t).origine].etat = "emise"
        BY <1>1, <3>1, <3>3, <4>1, <4>2, OrigineReste DEF Reference
      <4>. QED  BY <1>1, <4>1, <4>2, <4>3, FigeReste DEF Existe
    <3>. QED  BY <2>2, <3>2, <3>4, <3>5
  <2>. QED  BY <1>2, <2>1, <2>2 DEF SuiteRequete
<1>5. AvoirFigeCommeOrigine'
  <2> SUFFICES ASSUME tardif' = {}, NEW f \in Factures, Existe(base', f),
                      base'[f].origine # Aucun
               PROVE  base'[f].fige = base'[base'[f].origine].fige
    BY DEF AvoirFigeCommeOrigine, Existe
  <2> DEFINE o == base'[f].origine
  <2>1. o \in Factures /\ base'[o].etat = "emise"
    BY <1>1, LigneDeTable DEF AvoirInv, OrigineEmise, TypeInv, TypeOK
  <2>2. CASE base[f].etat = "absente"
    <3>1. base'[f].fige = base[o].fige /\ base[o].etat = "emise"
      BY <1>3, <2>2, FigeNaissance
    <3>. QED  BY <1>1, <2>1, <3>1, FigeReste DEF Existe
  <2>3. CASE base[f].etat # "absente"
    <3>1. Existe(base, f) /\ base[f].origine = o
      BY <1>1, <2>3 DEF Evolution
    <3>2. base[o].etat = "emise" /\ base[f].fige = base[o].fige
      BY <1>1, <1>3, <3>1 DEF FigeInv, AvoirInv, OrigineEmise, AvoirFigeCommeOrigine
    <3>3. base'[o].fige = base[o].fige
      BY <1>1, <2>1, <3>2, FigeReste DEF Existe
    <3>4. ASSUME NEW s \in Sessions, EnCours(s, "valider"), demande[s].cible = f,
                 base'[f].fige = Ecrire(Lue(s).fige, Instantane(s), base[f].fige)
          PROVE  base'[f].fige = base[o].fige
      <4>1. Lue(s).origine = o
        BY <1>1, <3>1, <3>4 DEF AvoirInv, LuFiable, EnCours, Courante
      <4>2. Instantane(s) = base[o].fige
        BY <1>3, <3>1, <3>4, <4>1 DEF FigeInv, DetailsFiables, EnCours, Instantane
      <4>. QED  BY <3>2, <3>4, <4>2 DEF Ecrire
    <3>. QED  BY <1>1, <3>1, <3>2, <3>3, <3>4, FigeEtape
  <2>. QED  BY <2>2, <2>3
<1>. QED  BY <1>1, <1>4, <1>5 DEF FigeInv

\* A credit note carries the client details its original was issued with
\* (service.py:465-477, 594-601), whatever drafts change while it is made and
\* validated, as long as no stale write hits a validated invoice.
THEOREM DetailsDeLOrigine == Spec => []AvoirFigeCommeOrigine
<1>1. Init => FigeInv
  <2> SUFFICES ASSUME Init PROVE FigeInv
    OBVIOUS
  <2>1. \A f \in Factures : ~Existe(base, f)
    BY DEF Init, BaseVide, Vide, Existe
  <2>2. DetailsFiables
    BY DEF Init, DetailsFiables
  <2>. QED  BY <2>1, <2>2, AvoirInit DEF FigeInv, AvoirFigeCommeOrigine
<1>2. FigeInv => AvoirFigeCommeOrigine
  BY DEF FigeInv
<1>. QED  BY <1>1, <1>2, FigePasse, PTL DEF Spec

-----------------------------------------------------------------------------
(* Numbers *)

Emise(f) == base[f].etat = "emise"

\* A draft keeps its provisional number.
BrouillonSansNumero ==
    \A f \in Factures : base[f].etat = "brouillon" => base[f].numero = Provisoire

\* A number that s read is held by another invoice of the tenant.
Tenu(s, n) ==
    \E g \in Factures \ {demande[s].cible} :
        Emise(g) /\ base[g].ent = demande[s].ent /\ base[g].numero = n

\* What a validation has read of its series: its beginning, without a gap, and
\* every number of it is still held by another invoice.
DebutDeSerie(s) ==
    /\ \A n \in lu[s].numeros : n.prefixe = Prefixe(Lue(s).type) /\ Tenu(s, n)
    /\ \A m \in 1..MaxMois : Continue(RangsDuMois(lu[s].numeros, m))

LectureFiable ==
    Intact => \A s \in Sessions : EnCours(s, "valider") => DebutDeSerie(s)

NumerosUniques ==
    Intact => \A f, g \in Factures :
        /\ Emise(f) /\ Emise(g)
        /\ base[f].ent = base[g].ent /\ base[f].numero = base[g].numero
        => f = g

Inscription(f) == [facture |-> f, ent |-> base[f].ent, numero |-> base[f].numero]

JournalFidele == Intact => journal = {Inscription(f) : f \in {g \in Factures : Emise(g)}}

NumeroInv ==
    /\ AvoirInv
    /\ BrouillonSansNumero
    /\ NumerosUniques
    /\ SerieContinue
    /\ LectureFiable
    /\ JournalFidele

-----------------------------------------------------------------------------
(* Numbers *)

LEMMA NumeroEgal ==
    ASSUME NEW x \in Numeros, NEW y \in Numeros,
           x.prefixe = y.prefixe, x.mois = y.mois, x.rang = y.rang
    PROVE  x = y
BY DEF Numeros, Provisoire

LEMMA ContinueBorne ==
    ASSUME NEW R, R \subseteq Nat, Continue(R)
    PROVE  \E k \in Nat : R = 1..k
BY DEF Continue

LEMMA RangsAttribuesEntiers ==
    ASSUME TypeInv, NEW e, NEW p, NEW m
    PROVE  RangsAttribues(e, p, m) \subseteq Nat
BY LigneDeTable DEF RangsAttribues, Numeros, Provisoire, TypeInv, TypeOK

\* The series the query reads is the series of the emitted invoices.
LEMMA SerieLue ==
    ASSUME BrouillonSansNumero, NEW e, NEW p \in {"FAC", "AV"}, NEW m
    PROVE  RangsDuMois(NumerosEmis(base, e, p), m) = RangsAttribues(e, p, m)
BY DEF BrouillonSansNumero, RangsDuMois, NumerosEmis, RangsAttribues, Accessible,
       Existe, Provisoire

-----------------------------------------------------------------------------
(* The number a validation is about to assign *)

\* A number that raises no collision follows all those that were read.
LEMMA NumeroSuivant ==
    ASSUME NumeroInv, Intact, NEW s \in Sessions, EnCours(s, "valider"),
           NEW m \in ouvert[s]..mois,
           ~Collision(base, demande[s].cible, demande[s].ent, NumeroCalcule(s, m))
    PROVE  /\ m \in 1..MaxMois
           /\ NumeroCalcule(s, m) \in Numeros
           /\ NumeroCalcule(s, m).mois = m
           /\ NumeroCalcule(s, m).prefixe \in {"FAC", "AV"}
           /\ \E k \in Nat :
                 /\ NumeroCalcule(s, m).rang = k + 1
                 /\ \A r \in 1..k :
                       Tenu(s, [NumeroCalcule(s, m) EXCEPT !.rang = r])
<1>. DEFINE n == NumeroCalcule(s, m)
            N == lu[s].numeros
            R == RangsDuMois(N, m)
<1>1. m \in 1..MaxMois /\ n \in Numeros
  BY NumeroCalculeType DEF NumeroInv, AvoirInv
<1>2. N \subseteq Numeros
  BY DEF NumeroInv, AvoirInv, TypeInv, TypeOK, Lectures
<1>3. R \subseteq Nat /\ Ordonne(R)
  BY <1>1, <1>2, RangsEntiers DEF NumeroInv, AvoirInv, TypeInv, SeriesOrdonnees
<1>4. DebutDeSerie(s)
  BY DEF NumeroInv, LectureFiable
<1>5. PICK k \in Nat : R = 1..k
  BY <1>1, <1>3, <1>4, ContinueBorne DEF DebutDeSerie
<1>6. n = [prefixe |-> Prefixe(Lue(s).type), mois |-> m, rang |-> DernierRang(R) + 1]
  BY DEF NumeroCalcule, NouveauNumero
<1>7. DernierRang(R) \in 0..k
  <2>1. CASE R = {}
    BY <1>5, <2>1 DEF DernierRang
  <2>2. CASE R # {}
    <3>1. DernierRang(R) \in R
      BY <1>3, <2>2, DernierDansSerie
    <3>. QED  BY <1>5, <3>1
  <2>. QED  BY <2>1, <2>2
<1>8. n.mois = m /\ n.prefixe = Prefixe(Lue(s).type) /\ n.prefixe \in {"FAC", "AV"}
  BY <1>6 DEF Prefixe
<1>9. ASSUME NEW r \in 1..k
      PROVE  Tenu(s, [n EXCEPT !.rang = r])
  <2>1. PICK x \in N : x.mois = m /\ x.rang = r
    BY <1>5 DEF RangsDuMois
  <2>2. x.prefixe = n.prefixe /\ Tenu(s, x) /\ x \in Numeros
    BY <1>2, <1>4, <1>8, <2>1 DEF DebutDeSerie
  <2>3. [n EXCEPT !.rang = r] \in Numeros
    BY <1>1, <1>5, <1>6, <1>8, <1>9 DEF Numeros, Provisoire
  <2>4. /\ [n EXCEPT !.rang = r].prefixe = n.prefixe
        /\ [n EXCEPT !.rang = r].mois = m
        /\ [n EXCEPT !.rang = r].rang = r
    BY <1>6
  <2>5. x = [n EXCEPT !.rang = r]
    BY <2>1, <2>2, <2>3, <2>4, NumeroEgal
  <2>. QED  BY <2>2, <2>5
<1>10. n.rang = k + 1
  <2>1. n.rang = DernierRang(R) + 1
    BY <1>6
  <2>2. ASSUME DernierRang(R) < k PROVE FALSE
    <3>1. n.rang \in 1..k
      BY <1>7, <2>1, <2>2
    <3>2. [n EXCEPT !.rang = n.rang] = n
      BY <1>6
    <3>3. Tenu(s, n)
      BY <1>9, <3>1, <3>2
    <3>. QED  BY <3>3 DEF Tenu, Emise, Collision, Existe
  <2>. QED  BY <1>7, <2>1, <2>2
<1>. QED  BY <1>1, <1>8, <1>9, <1>10

\* If the draft is still one, its number comes just after the whole series.
LEMMA SerieAvant ==
    ASSUME NumeroInv, Intact, NEW s \in Sessions, EnCours(s, "valider"),
           NEW m \in ouvert[s]..mois,
           ~Collision(base, demande[s].cible, demande[s].ent, NumeroCalcule(s, m)),
           ~Emise(demande[s].cible)
    PROVE  \E k \in Nat :
              /\ NumeroCalcule(s, m).rang = k + 1
              /\ RangsAttribues(demande[s].ent, NumeroCalcule(s, m).prefixe, m) = 1..k
<1>. DEFINE n == NumeroCalcule(s, m)
            S == RangsAttribues(demande[s].ent, n.prefixe, m)
<1>1. /\ m \in 1..MaxMois /\ n \in Numeros /\ n.mois = m
      /\ n.prefixe \in {"FAC", "AV"}
  BY NumeroSuivant
<1>2. PICK k \in Nat : /\ n.rang = k + 1
                      /\ \A r \in 1..k : Tenu(s, [n EXCEPT !.rang = r])
  BY NumeroSuivant
<1>3. TypeInv /\ demande[s].ent \in Entreprises
  BY DemandeType DEF NumeroInv, AvoirInv, EnCours
<1>4. PICK K \in Nat : S = 1..K
  <2>1. S \subseteq Nat
    BY <1>3, RangsAttribuesEntiers
  <2>. QED  BY <1>1, <1>3, <2>1, ContinueBorne DEF NumeroInv, SerieContinue
<1>5. ASSUME NEW r \in 1..k PROVE r \in S
  <2>1. PICK g \in Factures : /\ Emise(g) /\ base[g].ent = demande[s].ent
                             /\ base[g].numero = [n EXCEPT !.rang = r]
    BY <1>2 DEF Tenu
  <2>2. /\ [n EXCEPT !.rang = r].prefixe = n.prefixe
        /\ [n EXCEPT !.rang = r].mois = m
        /\ [n EXCEPT !.rang = r].rang = r
    BY <1>1 DEF Numeros, Provisoire
  <2>. QED  BY <2>1, <2>2 DEF RangsAttribues, Emise
<1>6. k + 1 \notin S
  <2> SUFFICES ASSUME k + 1 \in S PROVE FALSE
    OBVIOUS
  <2>1. PICK g \in Factures : /\ Emise(g) /\ base[g].ent = demande[s].ent
                             /\ base[g].numero.prefixe = n.prefixe
                             /\ base[g].numero.mois = m
                             /\ base[g].numero.rang = k + 1
    BY DEF RangsAttribues, Emise
  <2>2. base[g].numero \in Numeros
    BY <1>3, LigneDeTable DEF TypeInv, TypeOK
  <2>3. base[g].numero = n
    BY <1>1, <1>2, <2>1, <2>2, NumeroEgal
  <2>. QED  BY <2>1, <2>3 DEF Collision, Existe, Emise
<1>7. K = k
  BY <1>4, <1>5, <1>6
<1>. QED  BY <1>2, <1>4, <1>7

\* If the draft has been validated meanwhile, in the same series, the number is
\* the one it already has.
LEMMA MemeNumero ==
    ASSUME NumeroInv, Intact, NEW s \in Sessions, EnCours(s, "valider"),
           NEW m \in ouvert[s]..mois,
           ~Collision(base, demande[s].cible, demande[s].ent, NumeroCalcule(s, m)),
           Emise(demande[s].cible),
           base[demande[s].cible].numero.prefixe = NumeroCalcule(s, m).prefixe,
           base[demande[s].cible].numero.mois = m
    PROVE  base[demande[s].cible].numero = NumeroCalcule(s, m)
<1>. DEFINE n == NumeroCalcule(s, m)
            c == demande[s].cible
            S == RangsAttribues(demande[s].ent, n.prefixe, m)
<1>1. /\ m \in 1..MaxMois /\ n \in Numeros /\ n.mois = m
      /\ n.prefixe \in {"FAC", "AV"}
  BY NumeroSuivant
<1>2. PICK k \in Nat : /\ n.rang = k + 1
                      /\ \A r \in 1..k : Tenu(s, [n EXCEPT !.rang = r])
  BY NumeroSuivant
<1>3. TypeInv /\ demande[s].ent \in Entreprises /\ c \in Factures
  BY DemandeType DEF NumeroInv, AvoirInv, EnCours
<1>4. base[c].ent = demande[s].ent
  BY DEF NumeroInv, AvoirInv, LuFiable, EnCours, Courante, Existe, Emise
<1>5. base[c].numero \in Numeros
  BY <1>3, LigneDeTable DEF TypeInv, TypeOK
<1>6. PICK K \in Nat : S = 1..K
  <2>1. S \subseteq Nat
    BY <1>3, RangsAttribuesEntiers
  <2>. QED  BY <1>1, <1>3, <2>1, ContinueBorne DEF NumeroInv, SerieContinue
<1>7. base[c].numero.rang \in S
  BY <1>3, <1>4 DEF RangsAttribues, Emise
<1>8. base[c].numero.rang \notin 1..k
  <2> SUFFICES ASSUME NEW r \in 1..k, base[c].numero.rang = r PROVE FALSE
    OBVIOUS
  <2>1. PICK g \in Factures \ {c} : /\ Emise(g) /\ base[g].ent = demande[s].ent
                                   /\ base[g].numero = [n EXCEPT !.rang = r]
    BY <1>2 DEF Tenu
  <2>2. /\ [n EXCEPT !.rang = r].prefixe = n.prefixe
        /\ [n EXCEPT !.rang = r].mois = m
        /\ [n EXCEPT !.rang = r].rang = r
    BY <1>1 DEF Numeros, Provisoire
  <2>3. base[g].numero \in Numeros
    BY <1>3, LigneDeTable DEF TypeInv, TypeOK
  <2>4. base[g].numero = base[c].numero
    BY <1>5, <2>1, <2>2, <2>3, NumeroEgal
  <2>. QED  BY <1>3, <1>4, <2>1, <2>4 DEF NumeroInv, NumerosUniques
<1>9. k + 1 \in S
  BY <1>6, <1>7, <1>8
<1>10. PICK g \in Factures : /\ Emise(g) /\ base[g].ent = demande[s].ent
                            /\ base[g].numero.prefixe = n.prefixe
                            /\ base[g].numero.mois = m
                            /\ base[g].numero.rang = k + 1
  BY <1>9 DEF RangsAttribues, Emise
<1>11. base[g].numero = n
  <2>1. base[g].numero \in Numeros
    BY <1>3, LigneDeTable DEF TypeInv, TypeOK
  <2>. QED  BY <1>1, <1>2, <1>10, <2>1, NumeroEgal
<1>12. g = c
  BY <1>10, <1>11 DEF Collision, Existe, Emise
<1>. QED  BY <1>11, <1>12

-----------------------------------------------------------------------------
(* Steps *)

\* What a step that hits no validated invoice keeps of those that are emitted.
Conserve ==
    \A f \in Factures : Emise(f) =>
        /\ base'[f].etat = "emise"
        /\ base'[f].numero = base[f].numero
        /\ base'[f].ent = base[f].ent

\* No invoice is emitted by the step.
Calme ==
    /\ \A f \in Factures : base'[f].etat = "emise" => Emise(f)
    /\ journal' = journal

\* A draft gets its number.
Emission(s, m) ==
    /\ EnCours(s, "valider")
    /\ Existe(base, demande[s].cible)
    /\ ~Emise(demande[s].cible)
    /\ m \in ouvert[s]..mois
    /\ Attribuer(s, NumeroCalcule(s, m))

LEMMA BrouillonReste ==
    ASSUME NumeroInv, [Next]_vars
    PROVE  BrouillonSansNumero'
<1> SUFFICES ASSUME NEW f \in Factures, base'[f].etat = "brouillon"
             PROVE  base'[f].numero = Provisoire
  BY DEF BrouillonSansNumero
<1>1. CASE base'[f] = base[f]
  BY <1>1 DEF NumeroInv, BrouillonSansNumero
<1>2. TypeInv /\ base \in [Factures -> Lignes]
  BY DEF NumeroInv, AvoirInv, TypeInv, TypeOK
<1>3. ASSUME NEW s \in Sessions, NEW e \in Entreprises, NEW type \in Types,
             NEW client \in Clients \cup {Aucun}, Creer(s, e, type, client)
      PROVE  base'[f].numero = Provisoire
  <2>. DEFINE l == [Vide EXCEPT !.etat = "brouillon", !.ent = e, !.type = type,
                                !.client = client]
  <2>1. l.numero = Provisoire
    BY DEF Vide
  <2>. QED  BY <1>1, <1>2, <1>3, <2>1 DEF Creer, Inserer
<1>4. ASSUME NEW s \in Sessions, GenererAvoir(s)
      PROVE  base'[f].numero = Provisoire
  <2>. DEFINE l == [Vide EXCEPT !.etat = "brouillon", !.ent = demande[s].ent,
                                !.type = "avoir", !.origine = demande[s].cible,
                                !.client = Lue(s).client, !.fige = Lue(s).fige]
  <2>1. l.numero = Provisoire
    BY DEF Vide
  <2>. QED  BY <1>1, <1>2, <1>4, <2>1 DEF GenererAvoir, LigneDisparue, Inserer
<1>5. ASSUME NEW s \in Sessions, Modifier(s)
      PROVE  base'[f].numero = Provisoire
  <2>1. etape[s] # "libre"
    BY <1>5 DEF Modifier, EnCours
  <2>2. CASE demande[s].cible = f /\ base' = [base EXCEPT ![f] = LigneModifiee(s)]
    BY <1>2, <2>1, <2>2, LigneModifieeGarde DEF NumeroInv, BrouillonSansNumero, Courante
  <2>. QED  BY <1>1, <1>2, <1>5, <2>2 DEF Modifier, LigneDisparue
<1>6. ASSUME NEW s \in Sessions, Supprimer(s)
      PROVE  base'[f].numero = Provisoire
  <2>1. [Vide EXCEPT !.etat = "supprimee"].etat = "supprimee"
    BY DEF Vide
  <2>. QED  BY <1>1, <1>2, <1>6, <2>1 DEF Supprimer
<1>7. ASSUME NEW s \in Sessions, Valider(s)
      PROVE  base'[f].numero = Provisoire
  <2>1. etape[s] # "libre"
    BY <1>7 DEF Valider, EnCours
  <2>2. ASSUME NEW n, demande[s].cible = f, base' = [base EXCEPT ![f] = LigneValidee(s, n)]
        PROVE  FALSE
    BY <1>2, <2>1, <2>2, LigneValideeGarde
  <2>. QED  BY <1>1, <1>2, <1>7, <2>2
            DEF Valider, LigneDisparue, Attribuer, Rejouer, Renoncer
<1>. QED
  BY <1>1, <1>3, <1>4, <1>5, <1>6, <1>7
  DEF Next, Poursuivre, Recevoir, Abandonner, Reprendre, MoisSuivant, vars

\* Stale writes are never forgotten.
LEMMA IntactAvant ==
    ASSUME [Next]_vars, Intact'
    PROVE  Intact
<1>1. tardif \subseteq tardif'
  BY DEF Next, Poursuivre, Recevoir, Creer, Abandonner, Modifier, LigneDisparue,
         Supprimer, Valider, Attribuer, Rejouer, Renoncer, Reprendre, GenererAvoir,
         MoisSuivant, vars, historique
<1>. QED  BY <1>1 DEF Intact

\* An insertion takes the place of no emitted invoice.
LEMMA CalmeInserer ==
    ASSUME TypeInv, NEW ligne, ligne.etat = "brouillon", Inserer(ligne), journal' = journal
    PROVE  Conserve /\ Calme
BY DEF TypeInv, TypeOK, Inserer, Conserve, Calme, Emise

\* The validation of an invoice that is already emitted, when it is not moved
\* to another series, changes neither its number nor the journal.
LEMMA Revalider ==
    ASSUME NumeroInv, Intact, Intact', NEW s \in Sessions, EnCours(s, "valider"),
           NEW m \in ouvert[s]..mois, Emise(demande[s].cible),
           Attribuer(s, NumeroCalcule(s, m))
    PROVE  Conserve /\ Calme
<1>. DEFINE c == demande[s].cible
            n == NumeroCalcule(s, m)
<1>1. /\ ~Collision(base, c, demande[s].ent, n)
      /\ base' = [base EXCEPT ![c] = LigneValidee(s, n)]
      /\ journal' = journal \cup {[facture |-> c, ent |-> demande[s].ent, numero |-> n]}
      /\ tardif' = tardif \cup Revalidation(base[c], n)
  BY DEF Attribuer
<1>2. /\ TypeInv /\ base \in [Factures -> Lignes] /\ c \in Factures
      /\ etape[s] # "libre" /\ Courante(s) = base[c]
  BY DemandeType DEF NumeroInv, AvoirInv, TypeInv, TypeOK, EnCours, Courante
<1>3. base[c].numero.prefixe = n.prefixe /\ base[c].numero.mois = n.mois
  <2>1. "renumerotation" \notin Revalidation(base[c], n)
    BY <1>1 DEF Intact
  <2>. QED  BY <2>1 DEF Revalidation, Emise
<1>4. n.mois = m
  BY <1>1, NumeroSuivant
<1>5. base[c].numero = n
  BY <1>1, <1>3, <1>4, MemeNumero
<1>6. base[c].ent = demande[s].ent
  BY <1>2 DEF NumeroInv, AvoirInv, LuFiable, EnCours, Existe, Emise
<1>7. journal' = journal
  BY <1>1, <1>2, <1>5, <1>6 DEF NumeroInv, JournalFidele, Inscription
<1>8. Conserve
  BY <1>1, <1>2, <1>5, LigneValideeGarde DEF Conserve, Emise
<1>9. Calme
  BY <1>1, <1>2, <1>7 DEF Calme, Emise
<1>. QED  BY <1>8, <1>9

\* Every step that moves or hits no validated invoice is quiet, or emits a draft.
LEMMA CalmeOuEmission ==
    ASSUME NumeroInv, [Next]_vars, Intact'
    PROVE  \/ Conserve /\ Calme
           \/ \E s \in Sessions : \E m \in ouvert[s]..mois : Emission(s, m)
<1>. DEFINE But ==
         \/ Conserve /\ Calme
         \/ \E s \in Sessions : \E m \in ouvert[s]..mois : Emission(s, m)
<1>1. Intact
  BY IntactAvant
<1>2. TypeInv /\ base \in [Factures -> Lignes]
  BY DEF NumeroInv, AvoirInv, TypeInv, TypeOK
<1>3. CASE base' = base /\ journal' = journal
  BY <1>3 DEF Conserve, Calme, Emise
<1>4. ASSUME NEW s \in Sessions, NEW e \in Entreprises, NEW type \in Types,
             NEW client \in Clients \cup {Aucun}, Creer(s, e, type, client)
      PROVE  But
  <2>. DEFINE l == [Vide EXCEPT !.etat = "brouillon", !.ent = e, !.type = type,
                                !.client = client]
  <2>1. l.etat = "brouillon"
    BY DEF Vide
  <2>. QED  BY <1>2, <1>4, <2>1, CalmeInserer DEF Creer, historique
<1>5. ASSUME NEW s \in Sessions, GenererAvoir(s) PROVE But
  <2>. DEFINE l == [Vide EXCEPT !.etat = "brouillon", !.ent = demande[s].ent,
                                !.type = "avoir", !.origine = demande[s].cible,
                                !.client = Lue(s).client, !.fige = Lue(s).fige]
  <2>1. l.etat = "brouillon"
    BY DEF Vide
  <2>. QED  BY <1>2, <1>3, <1>5, <2>1, CalmeInserer
            DEF GenererAvoir, LigneDisparue, historique
<1>6. ASSUME NEW s \in Sessions, Modifier(s) PROVE But
  <2>1. etape[s] # "libre"
    BY <1>6 DEF Modifier, EnCours
  <2>2. CASE base' = [base EXCEPT ![demande[s].cible] = LigneModifiee(s)]
             /\ journal' = journal /\ Courante(s).etat # "emise"
    BY <1>2, <2>1, <2>2, LigneModifieeGarde DEF Conserve, Calme, Emise, Courante
  <2>3. CASE base' = base /\ journal' = journal
    BY <1>3, <2>3
  <2>4. CASE "modification" \in tardif'
    BY <2>4 DEF Intact
  <2>. QED  BY <1>6, <2>2, <2>3, <2>4 DEF Modifier, LigneDisparue, historique
<1>7. ASSUME NEW s \in Sessions, Supprimer(s) PROVE But
  <2>. DEFINE f == demande[s].cible
  <2>1. [Vide EXCEPT !.etat = "supprimee"].etat = "supprimee"
    BY DEF Vide
  <2>2. CASE base' = [base EXCEPT ![f] = [Vide EXCEPT !.etat = "supprimee"]]
             /\ journal' = journal /\ base[f].etat # "emise"
    BY <1>2, <2>1, <2>2 DEF Conserve, Calme, Emise
  <2>3. CASE base' = base /\ journal' = journal
    BY <1>3, <2>3
  <2>4. CASE "suppression" \in tardif'
    BY <2>4 DEF Intact
  <2>. QED  BY <1>7, <2>2, <2>3, <2>4 DEF Supprimer
<1>8. ASSUME NEW s \in Sessions, Valider(s) PROVE But
  <2>1. CASE base' = base /\ journal' = journal
    BY <1>3, <2>1
  <2>2. ASSUME Existe(base, demande[s].cible), NEW m \in ouvert[s]..mois,
               Attribuer(s, NumeroCalcule(s, m))
        PROVE  But
    <3>1. EnCours(s, "valider")
      BY <1>8 DEF Valider
    <3>. QED  BY <1>1, <2>2, <3>1, Revalider DEF Emission
  <2>. QED  BY <1>8, <2>1, <2>2
            DEF Valider, LigneDisparue, Rejouer, Renoncer, historique
<1>. QED
  BY <1>3, <1>4, <1>5, <1>6, <1>7, <1>8
  DEF Next, Poursuivre, Recevoir, Abandonner, Reprendre, MoisSuivant, vars, historique

-----------------------------------------------------------------------------
(* The inductive invariant *)

\* The numbers a request has just read are a whole series.
LEMMA LectureDeSerie ==
    ASSUME NumeroInv, Intact, NEW t \in Sessions, Relue(t), EnCours(t, "valider")'
    PROVE  DebutDeSerie(t)'
<1>. DEFINE d == demande'[t]
            p == Prefixe(base[d.cible].type)
<1>1. lu'[t] = Lecture(base, d) /\ base' = base /\ d.op = "valider" /\ d.cible \in Factures
      /\ d.ent \in Entreprises
  BY DEF Relue, EnCours
<1>2. lu'[t].numeros = NumerosEmis(base, d.ent, p) /\ lu'[t].ligne = base[d.cible]
  BY <1>1 DEF Lecture
<1>3. p \in {"FAC", "AV"}
  BY DEF Prefixe
<1>4. base[d.cible].etat = "brouillon"
  BY <1>1 DEF Relue, Refus, RefusValider
<1>5. ASSUME NEW n \in lu'[t].numeros
      PROVE  n.prefixe = p /\ Tenu(t, n)'
  <2>1. PICK g \in Factures : /\ Existe(base, g) /\ base[g].ent = d.ent
                             /\ base[g].numero.prefixe = p /\ base[g].numero = n
    BY <1>2 DEF NumerosEmis, Accessible
  <2>2. Emise(g)
    BY <1>3, <2>1 DEF NumeroInv, BrouillonSansNumero, Existe, Emise, Provisoire
  <2>3. g # d.cible
    BY <1>4, <2>2 DEF Emise
  <2>. QED  BY <1>1, <2>1, <2>2, <2>3 DEF Tenu, Emise
<1>6. ASSUME NEW m \in 1..MaxMois
      PROVE  Continue(RangsDuMois(lu'[t].numeros, m))
  <2>1. RangsDuMois(lu'[t].numeros, m) = RangsAttribues(d.ent, p, m)
    BY <1>2, <1>3, SerieLue DEF NumeroInv
  <2>. QED  BY <1>1, <1>3, <2>1 DEF NumeroInv, SerieContinue
<1>7. Lue(t)' = base[d.cible]
  BY <1>2 DEF Lue
<1>. QED  BY <1>5, <1>6, <1>7 DEF DebutDeSerie

\* As long as the emitted invoices keep their numbers, what a request has read
\* stays reliable.
LEMMA LectureReste ==
    ASSUME NumeroInv, [Next]_vars, Intact, Conserve
    PROVE  LectureFiable'
<1> SUFFICES ASSUME NEW t \in Sessions, EnCours(t, "valider")'
             PROVE  DebutDeSerie(t)'
  BY DEF LectureFiable
<1>1. CASE Relue(t)
  BY <1>1, LectureDeSerie
<1>2. CASE etape'[t] = etape[t] /\ demande'[t] = demande[t] /\ lu'[t] = lu[t]
  <2>1. EnCours(t, "valider")
    BY <1>2 DEF EnCours
  <2>2. DebutDeSerie(t)
    BY <2>1 DEF NumeroInv, LectureFiable
  <2>3. ASSUME NEW n \in lu[t].numeros PROVE Tenu(t, n)'
    BY <1>2, <2>2 DEF DebutDeSerie, Tenu, Conserve, Emise
  <2>4. Lue(t)' = Lue(t)
    BY <1>2 DEF Lue
  <2>. QED  BY <1>2, <2>2, <2>3, <2>4 DEF DebutDeSerie
<1>3. SuiteRequete(t)
  BY SuiteEtape DEF NumeroInv, AvoirInv
<1>. QED  BY <1>1, <1>2, <1>3 DEF SuiteRequete, EnCours

\* A quiet step leaves the numbers and the journal as they are.
LEMMA NumerosCalmes ==
    ASSUME NumeroInv, Intact, Conserve, Calme
    PROVE  NumerosUniques' /\ SerieContinue' /\ JournalFidele'
<1>1. \A f \in Factures :
         /\ base'[f].etat = "emise" <=> base[f].etat = "emise"
         /\ base[f].etat = "emise" => /\ base'[f].numero = base[f].numero
                                      /\ base'[f].ent = base[f].ent
  BY DEF Conserve, Calme, Emise
<1>2. NumerosUniques'
  BY <1>1 DEF NumeroInv, NumerosUniques, Emise
<1>3. SerieContinue'
  <2>1. ASSUME NEW e \in Entreprises, NEW p \in {"FAC", "AV"}, NEW m \in 1..MaxMois
        PROVE  RangsAttribues(e, p, m)' = RangsAttribues(e, p, m)
    BY <1>1 DEF RangsAttribues
  <2>. QED  BY <2>1 DEF NumeroInv, SerieContinue
<1>4. JournalFidele'
  <2>1. {Inscription(f) : f \in {g \in Factures : Emise(g)}}'
          = {Inscription(f) : f \in {g \in Factures : Emise(g)}}
    BY <1>1 DEF Inscription, Emise
  <2>. QED  BY <2>1 DEF NumeroInv, JournalFidele, Calme
<1>. QED  BY <1>2, <1>3, <1>4

\* What the emission of a draft does to the table.
LEMMA EffetEmission ==
    ASSUME NumeroInv, NEW s \in Sessions, NEW m \in ouvert[s]..mois, Emission(s, m)
    PROVE  /\ demande[s].cible \in Factures
           /\ demande[s].ent \in Entreprises
           /\ \A f \in Factures \ {demande[s].cible} : base'[f] = base[f]
           /\ base'[demande[s].cible].etat = "emise"
           /\ base'[demande[s].cible].ent = demande[s].ent
           /\ base'[demande[s].cible].numero = NumeroCalcule(s, m)
           /\ ~Collision(base, demande[s].cible, demande[s].ent, NumeroCalcule(s, m))
           /\ journal' = journal \cup {[facture |-> demande[s].cible,
                                        ent |-> demande[s].ent,
                                        numero |-> NumeroCalcule(s, m)]}
           /\ Conserve
<1>. DEFINE c == demande[s].cible
            n == NumeroCalcule(s, m)
<1>1. /\ TypeInv /\ base \in [Factures -> Lignes]
      /\ c \in Factures /\ demande[s].ent \in Entreprises
      /\ etape[s] # "libre" /\ Courante(s) = base[c]
  BY DemandeType DEF NumeroInv, AvoirInv, TypeInv, TypeOK, Emission, EnCours, Courante
<1>2. base[c].ent = demande[s].ent
  BY <1>1 DEF NumeroInv, AvoirInv, LuFiable, Emission, EnCours
<1>3. /\ base' = [base EXCEPT ![c] = LigneValidee(s, n)]
      /\ ~Collision(base, c, demande[s].ent, n)
      /\ journal' = journal \cup {[facture |-> c, ent |-> demande[s].ent, numero |-> n]}
      /\ ~Emise(c)
  BY DEF Emission, Attribuer
<1>4. /\ LigneValidee(s, n).etat = "emise" /\ LigneValidee(s, n).ent = demande[s].ent
      /\ LigneValidee(s, n).numero = n
  BY <1>1, <1>2, LigneValideeGarde
<1>5. /\ \A f \in Factures \ {c} : base'[f] = base[f]
      /\ base'[c] = LigneValidee(s, n)
  BY <1>1, <1>3
<1>6. Conserve
  BY <1>3, <1>5 DEF Conserve, Emise
<1>. QED  BY <1>1, <1>3, <1>4, <1>5, <1>6

\* The emission of a draft prolongs its series by one, under a new number.
LEMMA NumerosEmission ==
    ASSUME NumeroInv, Intact, NEW s \in Sessions, NEW m \in ouvert[s]..mois, Emission(s, m)
    PROVE  NumerosUniques' /\ SerieContinue' /\ JournalFidele'
<1>. DEFINE c == demande[s].cible
            e0 == demande[s].ent
            n == NumeroCalcule(s, m)
<1>1. /\ c \in Factures /\ e0 \in Entreprises
      /\ \A f \in Factures \ {c} : base'[f] = base[f]
      /\ base'[c].etat = "emise" /\ base'[c].ent = e0 /\ base'[c].numero = n
      /\ ~Collision(base, c, e0, n)
      /\ journal' = journal \cup {[facture |-> c, ent |-> e0, numero |-> n]}
  BY EffetEmission
<1>2. EnCours(s, "valider") /\ ~Emise(c)
  BY DEF Emission
<1>3. /\ m \in 1..MaxMois /\ n.mois = m /\ n.prefixe \in {"FAC", "AV"}
  BY <1>1, <1>2, NumeroSuivant
<1>4. PICK k \in Nat : /\ n.rang = k + 1
                      /\ RangsAttribues(e0, n.prefixe, m) = 1..k
  BY <1>1, <1>2, SerieAvant
<1>5. NumerosUniques'
  <2> SUFFICES ASSUME NEW f \in Factures, NEW g \in Factures,
                      base'[f].etat = "emise", base'[g].etat = "emise",
                      base'[f].ent = base'[g].ent, base'[f].numero = base'[g].numero,
                      f # g
               PROVE  FALSE
    BY DEF NumerosUniques, Emise
  <2>1. \A h \in Factures \ {c} : ~(base'[h].etat = "emise" /\ base'[h].ent = e0
                                   /\ base'[h].numero = n)
    BY <1>1 DEF Collision, Existe
  <2>2. f # c /\ g # c
    BY <1>1, <2>1
  <2>. QED  BY <1>1, <2>2 DEF NumeroInv, NumerosUniques, Emise
<1>6. SerieContinue'
  <2> SUFFICES ASSUME NEW e \in Entreprises, NEW p \in {"FAC", "AV"}, NEW q \in 1..MaxMois
               PROVE  Continue(RangsAttribues(e, p, q)')
    BY DEF SerieContinue, Continue
  <2>1. Continue(RangsAttribues(e, p, q))
    BY DEF NumeroInv, SerieContinue
  <2>2. CASE e = e0 /\ p = n.prefixe /\ q = m
    <3>1. RangsAttribues(e, p, q)' = RangsAttribues(e, p, q) \cup {n.rang}
      BY <1>1, <1>2, <1>3, <2>2 DEF RangsAttribues, Emise
    <3>2. RangsAttribues(e, p, q)' = 1..(k + 1)
      BY <1>4, <2>2, <3>1
    <3>. QED  BY <3>2 DEF Continue
  <2>3. CASE ~(e = e0 /\ p = n.prefixe /\ q = m)
    <3>1. RangsAttribues(e, p, q)' = RangsAttribues(e, p, q)
      BY <1>1, <1>2, <1>3, <2>3 DEF RangsAttribues, Emise
    <3>. QED  BY <2>1, <3>1
  <2>. QED  BY <2>2, <2>3
<1>7. JournalFidele'
  <2>1. journal = {Inscription(f) : f \in {g \in Factures : Emise(g)}}
    BY DEF NumeroInv, JournalFidele
  <2>2. {Inscription(f) : f \in {g \in Factures : Emise(g)}}'
          = {Inscription(f) : f \in {g \in Factures : Emise(g)}}
            \cup {[facture |-> c, ent |-> e0, numero |-> n]}
    BY <1>1, <1>2 DEF Inscription, Emise
  <2>. QED  BY <1>1, <2>1, <2>2 DEF JournalFidele
<1>. QED  BY <1>5, <1>6, <1>7

LEMMA NumeroEtape == NumeroInv /\ [Next]_vars => NumeroInv'
<1> SUFFICES ASSUME NumeroInv, [Next]_vars PROVE NumeroInv'
  OBVIOUS
<1>1. AvoirInv'
  BY AvoirEtape DEF NumeroInv
<1>2. BrouillonSansNumero'
  BY BrouillonReste
<1>3. ASSUME Intact'
      PROVE  NumerosUniques' /\ SerieContinue' /\ LectureFiable' /\ JournalFidele'
  <2>1. Intact
    BY <1>3, IntactAvant
  <2>2. CASE Conserve /\ Calme
    BY <2>1, <2>2, LectureReste, NumerosCalmes
  <2>3. ASSUME NEW s \in Sessions, NEW m \in ouvert[s]..mois, Emission(s, m)
        PROVE  NumerosUniques' /\ SerieContinue' /\ LectureFiable' /\ JournalFidele'
    <3>1. Conserve
      BY <2>3, EffetEmission
    <3>. QED  BY <2>1, <2>3, <3>1, LectureReste, NumerosEmission
  <2>. QED  BY <1>3, <2>2, <2>3, CalmeOuEmission
<1>4. NumerosUniques' /\ SerieContinue' /\ LectureFiable' /\ JournalFidele'
  BY <1>3 DEF NumerosUniques, SerieContinue, LectureFiable, JournalFidele
<1>. QED  BY <1>1, <1>2, <1>4 DEF NumeroInv

LEMMA NumeroInit == Init => NumeroInv
<1> SUFFICES ASSUME Init PROVE NumeroInv
  OBVIOUS
<1>1. \A f \in Factures : base[f].etat = "absente"
  BY DEF Init, BaseVide, Vide
<1>2. AvoirInv
  BY AvoirInit
<1>3. BrouillonSansNumero /\ NumerosUniques
  BY <1>1 DEF BrouillonSansNumero, NumerosUniques, Emise
<1>4. SerieContinue
  <2>1. ASSUME NEW e \in Entreprises, NEW p \in {"FAC", "AV"}, NEW m \in 1..MaxMois
        PROVE  Continue(RangsAttribues(e, p, m))
    <3>1. RangsAttribues(e, p, m) = {}
      BY <1>1 DEF RangsAttribues
    <3>2. {} = 1..0
      OBVIOUS
    <3>. QED  BY <3>1, <3>2 DEF Continue
  <2>. QED  BY <2>1 DEF SerieContinue
<1>5. LectureFiable
  BY DEF Init, LectureFiable, EnCours
<1>6. JournalFidele
  <2>1. {Inscription(f) : f \in {g \in Factures : Emise(g)}} = {}
    BY <1>1 DEF Emise
  <2>. QED  BY <2>1 DEF Init, JournalFidele
<1>. QED  BY <1>2, <1>3, <1>4, <1>5, <1>6 DEF NumeroInv

\* The invariant that makes "max + 1" sound: whatever a validation has read, the
\* numbers it knows are still held and have no gap.
THEOREM InvariantDesNumeros == Spec => []NumeroInv
BY NumeroInit, NumeroEtape, PTL DEF Spec

\* "Max + 1" under a unique constraint and without a lock gives every tenant
\* series 1..n (service.py:362-367), for any number of concurrent requests,
\* second validations, retries and crashes, unless a stale write has deleted,
\* edited or moved a validated invoice.
THEOREM SeriesContinues == Spec => []SerieContinue
<1>1. NumeroInv => SerieContinue
  BY DEF NumeroInv
<1>. QED  BY <1>1, InvariantDesNumeros, PTL

\* Under the same condition a number never goes to two invoices of a tenant and
\* an invoice never changes number, over the whole history.
THEOREM NumerosIrrevocables == Spec => []NumeroIrrevocable
<1>1. NumeroInv => NumeroIrrevocable
  <2> SUFFICES ASSUME NumeroInv, Intact, NEW i \in journal, NEW j \in journal
               PROVE  (i.ent = j.ent /\ i.numero = j.numero) <=> i.facture = j.facture
    BY DEF NumeroIrrevocable
  <2>1. journal = {Inscription(f) : f \in {g \in Factures : Emise(g)}}
    BY DEF NumeroInv, JournalFidele
  <2>2. PICK f \in Factures : Emise(f) /\ i = Inscription(f)
    BY <2>1
  <2>3. PICK g \in Factures : Emise(g) /\ j = Inscription(g)
    BY <2>1
  <2>. QED  BY <2>2, <2>3 DEF Inscription, NumeroInv, NumerosUniques
<1>. QED  BY <1>1, InvariantDesNumeros, PTL
-----------------------------------------------------------------------------
(* The register of emitted documents *)

\* A credit note and its original belong to the same tenant.
AvoirDeMemeEntreprise ==
    \A f \in Factures : Existe(base, f) /\ base[f].origine # Aucun =>
        base[base[f].origine].ent = base[f].ent

\* A validated document has a number of a series, and a tenant.
EmiseNumerotee ==
    \A f \in Factures : Emise(f) =>
        base[f].numero # Provisoire /\ base[f].ent \in Entreprises

\* What is emitted makes pieces of the register.
PiecesCorrectes == PiecesEmises \subseteq Registre!Pieces

RegistreInv == NumeroInv /\ AvoirDeMemeEntreprise /\ EmiseNumerotee /\ PiecesCorrectes

-----------------------------------------------------------------------------
(* The inductive invariant *)

\* The original of a credit note that is inserted is of the same tenant.
LEMMA NaissanceMemeEntreprise ==
    ASSUME RegistreInv, [Next]_vars, NEW f \in Factures, base[f].etat = "absente",
           Existe(base', f), base'[f].origine # Aucun
    PROVE  base'[base'[f].origine].ent = base'[f].ent
<1>. DEFINE But == base'[base'[f].origine].ent = base'[f].ent
<1>1. ~(base' = base)
  BY DEF Existe
<1>2. AvoirInv /\ TypeInv /\ base \in [Factures -> Lignes]
  BY DEF RegistreInv, NumeroInv, AvoirInv, TypeInv, TypeOK
<1>3. ASSUME NEW ligne, Inserer(ligne) PROVE base' = [base EXCEPT ![f] = ligne]
  BY <1>2, <1>3 DEF Inserer, Existe
<1>4. ASSUME NEW s \in Sessions, NEW e \in Entreprises, NEW type \in Types,
             NEW client \in Clients \cup {Aucun}, Creer(s, e, type, client)
      PROVE  FALSE
  <2>. DEFINE l == [Vide EXCEPT !.etat = "brouillon", !.ent = e, !.type = type,
                                !.client = client]
  <2>1. base' = [base EXCEPT ![f] = l]
    BY <1>3, <1>4 DEF Creer
  <2>2. l.origine = Aucun
    BY DEF Vide
  <2>. QED  BY <1>2, <2>1, <2>2
<1>5. ASSUME NEW s \in Sessions, GenererAvoir(s) PROVE But
  <2>1. etape[s] = "lue" /\ demande[s].op = "avoir" /\ etape[s] # "libre"
    BY <1>5 DEF GenererAvoir, EnCours
  <2>2. Existe(base, demande[s].cible) /\ demande[s].cible \in Factures
    BY <1>1, <1>2, <1>5, <2>1, DemandeType DEF GenererAvoir, LigneDisparue
  <2>3. base[demande[s].cible].ent = demande[s].ent
    BY <1>2, <2>1, <2>2 DEF AvoirInv, LuFiable, Courante
  <2>. DEFINE l == [Vide EXCEPT !.etat = "brouillon", !.ent = demande[s].ent,
                                !.type = "avoir", !.origine = demande[s].cible,
                                !.client = Lue(s).client, !.fige = Lue(s).fige]
  <2>4. base' = [base EXCEPT ![f] = l]
    BY <1>1, <1>3, <1>5 DEF GenererAvoir, LigneDisparue
  <2>5. l.ent = demande[s].ent /\ l.origine = demande[s].cible
    BY DEF Vide
  <2>6. demande[s].cible # f
    BY <2>2 DEF Existe
  <2>. QED  BY <1>2, <2>2, <2>3, <2>4, <2>5, <2>6
<1>6. ASSUME NEW s \in Sessions, Modifier(s) PROVE FALSE
  BY <1>1, <1>2, <1>6, DemandeType
  DEF AvoirInv, CibleConnue, Modifier, EnCours, LigneDisparue, Existe
<1>7. ASSUME NEW s \in Sessions, Supprimer(s) PROVE FALSE
  BY <1>1, <1>2, <1>7, DemandeType
  DEF AvoirInv, CibleConnue, Supprimer, EnCours, Existe
<1>8. ASSUME NEW s \in Sessions, Valider(s) PROVE FALSE
  BY <1>1, <1>2, <1>8, DemandeType
  DEF AvoirInv, CibleConnue, Valider, EnCours, LigneDisparue, Attribuer, Rejouer,
      Renoncer, Existe
<1>. QED
  BY <1>1, <1>4, <1>5, <1>6, <1>7, <1>8
  DEF Next, Poursuivre, Recevoir, Abandonner, Reprendre, MoisSuivant, vars

\* An invoice keeps its number of a series, or gets one.
LEMMA NumerotationReste ==
    ASSUME RegistreInv, [Next]_vars
    PROVE  EmiseNumerotee'
<1> SUFFICES ASSUME NEW f \in Factures, base'[f].etat = "emise"
             PROVE  base'[f].numero # Provisoire /\ base'[f].ent \in Entreprises
  BY DEF EmiseNumerotee, Emise
<1>. DEFINE But == base'[f].numero # Provisoire /\ base'[f].ent \in Entreprises
<1>1. CASE base'[f] = base[f]
  BY <1>1 DEF RegistreInv, EmiseNumerotee, Emise
<1>2. AvoirInv /\ TypeInv /\ base \in [Factures -> Lignes]
  BY DEF RegistreInv, NumeroInv, AvoirInv, TypeInv, TypeOK
<1>3. ASSUME NEW ligne, Inserer(ligne), ligne.etat = "brouillon" PROVE But
  BY <1>1, <1>2, <1>3 DEF Inserer
<1>4. ASSUME NEW s \in Sessions, NEW e \in Entreprises, NEW type \in Types,
             NEW client \in Clients \cup {Aucun}, Creer(s, e, type, client)
      PROVE  But
  <2>. DEFINE l == [Vide EXCEPT !.etat = "brouillon", !.ent = e, !.type = type,
                                !.client = client]
  <2>1. l.etat = "brouillon"
    BY DEF Vide
  <2>. QED  BY <1>3, <1>4, <2>1 DEF Creer
<1>5. ASSUME NEW s \in Sessions, GenererAvoir(s) PROVE But
  <2>. DEFINE l == [Vide EXCEPT !.etat = "brouillon", !.ent = demande[s].ent,
                                !.type = "avoir", !.origine = demande[s].cible,
                                !.client = Lue(s).client, !.fige = Lue(s).fige]
  <2>1. l.etat = "brouillon"
    BY DEF Vide
  <2>. QED  BY <1>1, <1>3, <1>5, <2>1 DEF GenererAvoir, LigneDisparue
<1>6. ASSUME NEW s \in Sessions, Modifier(s) PROVE But
  <2>1. etape[s] # "libre"
    BY <1>6 DEF Modifier, EnCours
  <2>2. CASE demande[s].cible = f /\ base' = [base EXCEPT ![f] = LigneModifiee(s)]
    BY <1>2, <2>1, <2>2, LigneModifieeGarde DEF RegistreInv, EmiseNumerotee, Emise, Courante
  <2>. QED  BY <1>1, <1>2, <1>6, <2>2 DEF Modifier, LigneDisparue
<1>7. ASSUME NEW s \in Sessions, Supprimer(s) PROVE But
  <2>1. [Vide EXCEPT !.etat = "supprimee"].etat = "supprimee"
    BY DEF Vide
  <2>. QED  BY <1>1, <1>2, <1>7, <2>1 DEF Supprimer
<1>8. ASSUME NEW s \in Sessions, Valider(s) PROVE But
  <2>1. etape[s] = "lue" /\ etape[s] # "libre"
    BY <1>8 DEF Valider, EnCours
  <2>2. ASSUME NEW m, demande[s].cible = f, Existe(base, f),
               base' = [base EXCEPT ![f] = LigneValidee(s, NumeroCalcule(s, m))]
        PROVE  But
    <3>1. NumeroCalcule(s, m).prefixe \in {"FAC", "AV"}
      BY DEF NumeroCalcule, NouveauNumero, Prefixe
    <3>2. /\ LigneValidee(s, NumeroCalcule(s, m)).ent = base[f].ent
          /\ LigneValidee(s, NumeroCalcule(s, m)).numero = NumeroCalcule(s, m)
      BY <1>2, <2>1, <2>2, LigneValideeGarde DEF Courante
    <3>3. base[f].ent \in Entreprises
      BY <1>2, <2>1, <2>2, DemandeType DEF AvoirInv, LuFiable, Courante
    <3>. QED  BY <1>2, <2>2, <3>1, <3>2, <3>3 DEF Provisoire
  <2>. QED  BY <1>1, <1>2, <1>8, <2>2
            DEF Valider, LigneDisparue, Attribuer, Rejouer, Renoncer
<1>. QED
  BY <1>1, <1>4, <1>5, <1>6, <1>7, <1>8
  DEF Next, Poursuivre, Recevoir, Abandonner, Reprendre, MoisSuivant, vars

LEMMA RegistreEtape == RegistreInv /\ [Next]_vars => RegistreInv'
<1> SUFFICES ASSUME RegistreInv, [Next]_vars PROVE RegistreInv'
  OBVIOUS
<1>1. NumeroInv'
  BY NumeroEtape DEF RegistreInv
<1>2. TypeInv /\ AvoirInv /\ Evolution
  BY EvolutionEtape DEF RegistreInv, NumeroInv, AvoirInv
<1>3. ASSUME NEW f \in Factures, Existe(base', f), base'[f].origine # Aucun
      PROVE  base'[base'[f].origine].ent = base'[f].ent
  <2>1. CASE base[f].etat = "absente"
    BY <1>3, <2>1, NaissanceMemeEntreprise
  <2>2. CASE base[f].etat # "absente"
    <3>1. /\ Existe(base, f) /\ base'[f].ent = base[f].ent
          /\ base'[f].origine = base[f].origine
      BY <1>2, <1>3, <2>2 DEF Evolution
    <3>2. base[base[f].origine].etat = "emise" /\ base[f].origine \in Factures
      BY <1>2, <1>3, <3>1, LigneDeTable DEF AvoirInv, OrigineEmise, TypeInv, TypeOK
    <3>3. base'[base[f].origine].etat = "emise"
      BY <1>2, <1>3, <3>1, <3>2, OrigineReste DEF Reference
    <3>4. base'[base[f].origine].ent = base[base[f].origine].ent
      BY <1>2, <3>2, <3>3 DEF Evolution, Existe
    <3>. QED  BY <1>3, <3>1, <3>4 DEF RegistreInv, AvoirDeMemeEntreprise
  <2>. QED  BY <2>1, <2>2
<1>4. AvoirDeMemeEntreprise'
  BY <1>3 DEF AvoirDeMemeEntreprise, Existe
<1>5. EmiseNumerotee'
  BY NumerotationReste
<1>6. PiecesCorrectes'
  <2> SUFFICES ASSUME NEW f \in Factures, base'[f].etat = "emise"
               PROVE  Piece(f)' \in Registre!Pieces
    BY DEF PiecesCorrectes, PiecesEmises, Registre!Pieces
  <2>1. base'[f].numero \in Numeros /\ base'[f].origine \in Factures \cup {Aucun}
    BY <1>1, LigneDeTable DEF NumeroInv, AvoirInv, TypeInv, TypeOK
  <2>2. base'[f].numero # Provisoire /\ base'[f].ent \in Entreprises
    BY <1>5 DEF EmiseNumerotee, Emise
  <2>3. base'[f].numero \in [prefixe : {"FAC", "AV"}, mois : 1..MaxMois, rang : Nat \ {0}]
    BY <2>1, <2>2 DEF Numeros
  <2>. QED  BY <2>1, <2>2, <2>3 DEF Piece, Registre!Pieces
<1>. QED  BY <1>1, <1>4, <1>5, <1>6 DEF RegistreInv

LEMMA RegistreInit == Init => RegistreInv
<1> SUFFICES ASSUME Init PROVE RegistreInv
  OBVIOUS
<1>1. \A f \in Factures : base[f].etat = "absente"
  BY DEF Init, BaseVide, Vide
<1>. QED  BY <1>1, NumeroInit DEF RegistreInv, AvoirDeMemeEntreprise, EmiseNumerotee,
          PiecesCorrectes, PiecesEmises, Existe, Emise

-----------------------------------------------------------------------------
(* The refinement *)

\* A quiet step is invisible in the register.
LEMMA RegistreCalme ==
    ASSUME RegistreInv, [Next]_vars, Conserve, Calme
    PROVE  PiecesEmises' = PiecesEmises
<1>1. Evolution
  BY EvolutionEtape DEF RegistreInv, NumeroInv, AvoirInv
<1>2. ASSUME NEW f \in Factures, base[f].etat = "emise" PROVE Piece(f)' = Piece(f)
  BY <1>1, <1>2 DEF Evolution, Existe, Conserve, Emise, Piece
<1>3. \A f \in Factures : base'[f].etat = "emise" <=> base[f].etat = "emise"
  BY DEF Conserve, Calme, Emise
<1>. QED  BY <1>2, <1>3 DEF PiecesEmises

\* The emission of a draft adds the next piece of its series.
LEMMA RegistreEmission ==
    ASSUME RegistreInv, [Next]_vars, Intact, Intact', NEW s \in Sessions,
           NEW m \in ouvert[s]..mois, Emission(s, m)
    PROVE  \E piece \in PiecesEmises' \ PiecesEmises : Registre!Inscrire(piece)
<1>. DEFINE c == demande[s].cible
            n == NumeroCalcule(s, m)
            p == [facture |-> c, ent |-> demande[s].ent, origine |-> base'[c].origine,
                  numero |-> n]
<1>1. /\ c \in Factures /\ demande[s].ent \in Entreprises
      /\ \A f \in Factures \ {c} : base'[f] = base[f]
      /\ base'[c].etat = "emise" /\ base'[c].ent = demande[s].ent /\ base'[c].numero = n
      /\ ~Collision(base, c, demande[s].ent, n)
  BY EffetEmission DEF RegistreInv
<1>2. EnCours(s, "valider") /\ ~Emise(c)
  BY DEF Emission
<1>3. n.mois = m
  BY <1>1, <1>2, NumeroSuivant DEF RegistreInv
<1>4. \A f \in Factures : Piece(f)' = IF f = c THEN p ELSE Piece(f)
  BY <1>1 DEF Piece
<1>5. PiecesEmises' = PiecesEmises \cup {p}
  BY <1>1, <1>2, <1>4 DEF PiecesEmises, Emise
<1>6. \A i \in PiecesEmises : i.facture # c
  BY <1>2 DEF PiecesEmises, Piece, Emise
<1>7. p \in PiecesEmises' \ PiecesEmises
  BY <1>5, <1>6
<1>8. p \in Registre!Pieces
  <2>1. RegistreInv'
    BY RegistreEtape
  <2>. QED  BY <1>7, <2>1 DEF RegistreInv, PiecesCorrectes, Registre!Pieces
<1>9. Registre!SuitSaSerie(p)
  <2>1. PICK k \in Nat : n.rang = k + 1 /\ RangsAttribues(demande[s].ent, n.prefixe, m) = 1..k
    BY <1>1, <1>2, SerieAvant DEF RegistreInv
  <2>2. Registre!RangsDeLaSerie(p) = RangsAttribues(demande[s].ent, n.prefixe, m)
    <3>1. ASSUME NEW f \in Factures, base[f].etat = "emise"
          PROVE  /\ Piece(f) \in PiecesEmises
                 /\ Piece(f).ent = base[f].ent /\ Piece(f).numero = base[f].numero
      BY <3>1 DEF PiecesEmises, Piece
    <3>2. ASSUME NEW i \in PiecesEmises
          PROVE  \E f \in Factures : base[f].etat = "emise" /\ i = Piece(f)
      BY DEF PiecesEmises
    <3>3. p.ent = demande[s].ent /\ p.numero = n
      OBVIOUS
    <3>4. Registre!RangsDeLaSerie(p) \subseteq RangsAttribues(demande[s].ent, n.prefixe, m)
      BY <1>3, <3>1, <3>2, <3>3 DEF Registre!RangsDeLaSerie, RangsAttribues
    <3>5. RangsAttribues(demande[s].ent, n.prefixe, m) \subseteq Registre!RangsDeLaSerie(p)
      BY <1>3, <3>1, <3>3 DEF Registre!RangsDeLaSerie, RangsAttribues
    <3>. QED  BY <3>4, <3>5
  <2>3. k \in 1..k \cup {0}
    OBVIOUS
  <2>. QED  BY <2>1, <2>2, <2>3 DEF Registre!SuitSaSerie
<1>10. Registre!SuitSonOrigine(p)
  <2> SUFFICES ASSUME base'[c].origine # Aucun
               PROVE  /\ n.prefixe = "AV"
                      /\ \E i \in PiecesEmises : /\ i.facture = base'[c].origine
                                                 /\ i.ent = demande[s].ent
    BY DEF Registre!SuitSonOrigine
  <2>1. RegistreInv' /\ NumeroInv' /\ AvoirInv'
    BY RegistreEtape DEF RegistreInv, NumeroInv
  <2>2. n.prefixe = "AV"
    BY <1>1, <2>1 DEF AvoirInv, AvoirLieEnSerieAvoir, Existe
  <2>3. TypeInv /\ Existe(base, c) /\ Evolution
    BY EvolutionEtape DEF RegistreInv, NumeroInv, AvoirInv, Emission
  <2>4. base[c].origine = base'[c].origine
    BY <1>1, <2>3 DEF Evolution, Existe
  <2>5. base[c].origine \in Factures
    BY <1>1, <2>3, <2>4, LigneDeTable DEF TypeInv, TypeOK
  <2>6. base[base[c].origine].etat = "emise"
    BY <1>1, <2>3, <2>4 DEF RegistreInv, NumeroInv, AvoirInv, OrigineEmise
  <2>7. base[base[c].origine].ent = base[c].ent
    BY <1>1, <2>3, <2>4 DEF RegistreInv, AvoirDeMemeEntreprise
  <2>8. base[c].ent = demande[s].ent
    BY <1>1, <2>3 DEF Evolution, Existe
  <2>9. Piece(base[c].origine) \in PiecesEmises
    BY <2>5, <2>6 DEF PiecesEmises
  <2>10. /\ Piece(base[c].origine).facture = base[c].origine
         /\ Piece(base[c].origine).ent = demande[s].ent
    BY <2>7, <2>8 DEF Piece
  <2>. QED  BY <2>2, <2>4, <2>9, <2>10
<1>. QED
  BY <1>5, <1>6, <1>7, <1>8, <1>9, <1>10 DEF Registre!Inscrire

LEMMA RegistreSuivant ==
    ASSUME RegistreInv, [Next]_vars
    PROVE  [Registre!Next]_<<PiecesEmises, Intact>>
<1>1. CASE ~Intact'
  <2>1. RegistreInv'
    BY RegistreEtape
  <2>. QED  BY <1>1, <2>1
            DEF RegistreInv, PiecesCorrectes, Registre!Pieces, Registre!Next, Registre!Deroger
<1>2. CASE Intact'
  <2>1. Intact
    BY <1>2, IntactAvant
  <2>2. CASE Conserve /\ Calme
    <3>1. PiecesEmises' = PiecesEmises
      BY <2>2, RegistreCalme
    <3>. QED  BY <1>2, <2>1, <3>1
  <2>3. ASSUME NEW s \in Sessions, NEW m \in ouvert[s]..mois, Emission(s, m)
        PROVE  Registre!Next
    BY <1>2, <2>1, <2>3, RegistreEmission DEF Registre!Next
  <2>. QED  BY <1>2, <2>2, <2>3, CalmeOuEmission DEF RegistreInv
<1>. QED  BY <1>1, <1>2

LEMMA RegistreDebut == Init => Registre!Init
<1> SUFFICES ASSUME Init PROVE Registre!Init
  OBVIOUS
<1>1. PiecesEmises = {}
  BY DEF Init, BaseVide, Vide, PiecesEmises
<1>2. Intact = TRUE
  BY DEF Init, Intact
<1>. QED  BY <1>1, <1>2 DEF Registre!Init

\* The endpoints of src/factures, whatever sessions, snapshots, retries and
\* crashes interleave, implement the legal register: every step is invisible
\* in it, adds the next piece of a series, or is after a stale write.
THEOREM RegistreTenu == Spec => RegistreLegal
<1>1. Spec => []RegistreInv
  BY RegistreInit, RegistreEtape, PTL DEF Spec
<1>2. Init => Registre!Init
  BY RegistreDebut
<1>3. RegistreInv /\ [Next]_vars => [Registre!Next]_<<PiecesEmises, Intact>>
  BY RegistreSuivant
<1>. QED  BY <1>1, <1>2, <1>3, PTL DEF Spec, RegistreLegal, Registre!Spec
-----------------------------------------------------------------------------
(* Attempts that fail *)

\* The invoices that were ever validated.
Validees == {j.facture : j \in journal}

\* No rank exceeds the number of these invoices, those of the table as those a
\* running attempt has read, for which the invoice it validates does not count.
RangsBornes ==
    /\ \A f \in Factures :
          /\ base[f].numero.rang <= Cardinality(Validees)
          /\ base[f].etat \in {"absente", "brouillon"} => f \notin Validees
    /\ \A s \in Sessions : EnCours(s, "valider") =>
          \A n \in lu[s].numeros : n.rang <= Cardinality(Validees \ {demande[s].cible})

\* The other invoices of the series that got their number since s read it.
Nouvelles(s) ==
    {g \in Factures \ {demande[s].cible} :
        /\ Existe(base, g) /\ base[g].ent = demande[s].ent
        /\ base[g].numero.prefixe = Prefixe(Lue(s).type)
        /\ base[g].numero \notin lu[s].numeros}

\* Each attempt already lost is paid for by a validation that succeeded beside the
\* request, and so is each number the running attempt has not seen.
EssaisPayes ==
    \A s \in Sessions :
        /\ etape[s] = "libre" => tentative[s] = 0
        /\ etape[s] = "reprise" => demande[s].op = "valider"
        /\ etape[s] # "libre" /\ demande[s].op = "valider" => concurrentes[s] >= tentative[s]
        /\ EnCours(s, "valider") /\ Nouvelles(s) # {} => concurrentes[s] > tentative[s]

ChargeInv == TypeInv /\ RangsBornes /\ EssaisPayes

LEMMA ValideesFinies ==
    ASSUME TypeOK
    PROVE  /\ Validees \subseteq Factures /\ IsFiniteSet(Validees)
           /\ Cardinality(Validees) \in Nat /\ Cardinality(Validees) <= MaxId
           /\ \A f : /\ IsFiniteSet(Validees \ {f}) /\ Cardinality(Validees \ {f}) \in Nat
                     /\ Cardinality(Validees \ {f}) <= Cardinality(Validees)
<1>1. Validees \subseteq Factures
  BY DEF TypeOK, Validees
<1>2. IsFiniteSet(Factures) /\ Cardinality(Factures) = MaxId
  BY HypId, FS_Interval DEF Factures
<1>3. IsFiniteSet(Validees) /\ Cardinality(Validees) <= MaxId
  BY <1>1, <1>2, FS_Subset
<1>4. Cardinality(Validees) \in Nat
  BY <1>3, FS_CardinalityType
<1>5. ASSUME NEW f
      PROVE  /\ IsFiniteSet(Validees \ {f}) /\ Cardinality(Validees \ {f}) \in Nat
             /\ Cardinality(Validees \ {f}) <= Cardinality(Validees)
  <2>1. Validees \ {f} \subseteq Validees
    OBVIOUS
  <2>2. IsFiniteSet(Validees \ {f}) /\ Cardinality(Validees \ {f}) <= Cardinality(Validees)
    BY <1>3, <2>1, FS_Subset
  <2>. QED  BY <2>2, FS_CardinalityType
<1>. QED  BY <1>1, <1>3, <1>4, <1>5

LEMMA Comparaison ==
    ASSUME NEW b \in Nat, b >= 2, NEW q \in Nat, NEW r \in Nat, 2 * b * q <= 2 * b * r
    PROVE  q <= r
<1> SUFFICES ASSUME q > r PROVE FALSE
  OBVIOUS
<1>1. q >= r + 1
  OBVIOUS
<1>2. PICK d \in Nat : q = r + 1 + d
  <2>1. q - r - 1 \in Nat /\ q = r + 1 + (q - r - 1)
    BY <1>1
  <2>. QED  BY <2>1
<1>3. 2 * b * q = 2 * b * r + 2 * b + 2 * b * d
  BY <1>2
<1>4. 2 * b * d \in Nat /\ 2 * b * r \in Nat
  OBVIOUS
<1>. QED  BY <1>3, <1>4

\* As long as no series outgrows the width of its numbers, the last number in
\* text order is the greatest: the next one collides only with a new number.
LEMMA CollisionNouvelle ==
    ASSUME MaxId <= PLAFOND, ChargeInv, NEW s \in Sessions, EnCours(s, "valider"),
           NEW m \in ouvert[s]..mois,
           Collision(base, demande[s].cible, demande[s].ent, NumeroCalcule(s, m))
    PROVE  Nouvelles(s) # {}
<1>. DEFINE n == NumeroCalcule(s, m)
            R == RangsDuMois(lu[s].numeros, m)
            L == DernierRang(R)
<1>1. TypeOK /\ SeriesOrdonnees
  BY DEF ChargeInv, TypeInv
<1>2. m \in 1..MaxMois
  <2>1. ouvert[s] \in 1..MaxMois /\ mois \in 1..MaxMois
    BY <1>1 DEF TypeOK
  <2>. QED  BY <2>1, HypMois
<1>3. lu[s].numeros \in SUBSET Numeros
  BY <1>1 DEF TypeOK, Lectures
<1>4. R \subseteq Nat
  BY <1>3 DEF RangsDuMois, Numeros, Provisoire
<1>5. \A r \in R : r <= PLAFOND
  <2> SUFFICES ASSUME NEW k \in lu[s].numeros PROVE k.rang <= PLAFOND
    BY DEF RangsDuMois
  <2>1. k.rang \in Nat
    BY <1>3 DEF Numeros, Provisoire
  <2>2. k.rang <= Cardinality(Validees \ {demande[s].cible})
    BY DEF ChargeInv, RangsBornes
  <2>3. /\ Cardinality(Validees \ {demande[s].cible}) \in Nat
        /\ Cardinality(Validees \ {demande[s].cible}) <= Cardinality(Validees)
        /\ Cardinality(Validees) \in Nat /\ Cardinality(Validees) <= MaxId
    BY <1>1, ValideesFinies
  <2>. QED  BY <2>1, <2>2, <2>3, HypId, HypTexte
<1>6. Ordonne(R)
  BY <1>1, <1>2 DEF SeriesOrdonnees
<1>7. L \in Nat /\ \A r \in R : r <= L
  <2>1. CASE R = {}
    BY <1>4, <1>6, <2>1, DernierDansSerie
  <2>2. CASE R # {}
    <3>1. \E r \in R : \A q \in R : CleTexte(q) <= CleTexte(r)
      BY <1>6, <2>2 DEF Ordonne
    <3>2. L \in R /\ \A q \in R : CleTexte(q) <= CleTexte(L)
      BY <2>2, <3>1 DEF DernierRang
    <3>3. \A q \in R : CleTexte(q) = 2 * BASE * q
      BY <1>5 DEF CleTexte
    <3>4. L \in Nat
      BY <1>4, <3>2
    <3>5. ASSUME NEW q \in R PROVE q <= L
      <4>1. 2 * BASE * q <= 2 * BASE * L
        BY <3>2, <3>3
      <4>2. q \in Nat
        BY <1>4
      <4>3. BASE \in Nat /\ BASE >= 2
        BY HypTexte
      <4>. HIDE DEF L, R
      <4>. QED  BY <3>4, <4>1, <4>2, <4>3, Comparaison
    <3>. QED  BY <3>4, <3>5
  <2>. QED  BY <2>1, <2>2
<1>8. n.rang = L + 1 /\ n.mois = m /\ n.prefixe = Prefixe(Lue(s).type)
  BY DEF NumeroCalcule, NouveauNumero
<1>9. n \notin lu[s].numeros
  <2>1. ASSUME n \in lu[s].numeros PROVE FALSE
    <3>1. n.rang \in R
      BY <1>8, <2>1 DEF RangsDuMois
    <3>. HIDE DEF n, R, L
    <3>. QED  BY <1>7, <1>8, <3>1
  <2>. QED  BY <2>1
<1>10. PICK g \in Factures \ {demande[s].cible} :
          Existe(base, g) /\ base[g].ent = demande[s].ent /\ base[g].numero = n
  BY DEF Collision
<1>11. g \in Nouvelles(s)
  BY <1>8, <1>9, <1>10 DEF Nouvelles
<1>. QED  BY <1>11

\* A step that gives no number: numbers and tenants of the rows stay, but for
\* rows that disappear and for new drafts.
SansNumero ==
    /\ journal' = journal
    /\ \A g \in Factures :
          /\ base'[g].numero \in {base[g].numero, Provisoire}
          /\ base'[g].etat \in {"absente", "brouillon"} => base[g].etat \in {"absente", "brouillon"}
          /\ Existe(base', g) /\ base'[g].numero # Provisoire =>
                /\ Existe(base, g)
                /\ base'[g].ent = base[g].ent /\ base'[g].numero = base[g].numero

\* A validation that succeeds.
Attribution(s) ==
    /\ EnCours(s, "valider")
    /\ \E m \in ouvert[s]..mois : Attribuer(s, NumeroCalcule(s, m))

\* What such a step does to a session: its request ends, stays, reads again, or
\* has lost an attempt to a number it had not read.
SuiteEssais(t) ==
    \/ etape'[t] = "libre" /\ tentative'[t] = 0
    \/ /\ etape'[t] = etape[t] /\ demande'[t] = demande[t] /\ lu'[t] = lu[t]
       /\ tentative'[t] = tentative[t] /\ concurrentes'[t] = concurrentes[t]
    \/ /\ Relue(t)
       /\ \/ etape[t] = "libre"
          \/ etape[t] = "reprise" /\ demande'[t] = demande[t]
       /\ tentative'[t] = tentative[t] /\ concurrentes'[t] = concurrentes[t]
    \/ /\ etape'[t] = "reprise" /\ EnCours(t, "valider") /\ demande'[t] = demande[t]
       /\ tentative'[t] = tentative[t] + 1 /\ concurrentes'[t] = concurrentes[t]
       /\ Nouvelles(t) # {}

LEMMA SansNumeroInserer ==
    ASSUME TypeInv, NEW ligne, Inserer(ligne), ligne.numero = Provisoire, journal' = journal
    PROVE  SansNumero
<1>1. base \in [Factures -> Lignes]
  BY DEF TypeInv, TypeOK
<1>2. PICK f \in Factures : base[f].etat = "absente" /\ base' = [base EXCEPT ![f] = ligne]
  BY DEF Inserer
<1>3. \A g \in Factures : base'[g] = IF g = f THEN ligne ELSE base[g]
  BY <1>1, <1>2
<1>. QED  BY <1>2, <1>3 DEF SansNumero, Existe

LEMMA SansNumeroOuAttribution ==
    ASSUME TypeInv, [Next]_vars
    PROVE  SansNumero \/ \E s \in Sessions : Attribution(s)
<1>1. base \in [Factures -> Lignes]
  BY DEF TypeInv, TypeOK
<1>2. ASSUME base' = base, journal' = journal PROVE SansNumero
  BY <1>2 DEF SansNumero
<1>3. ASSUME NEW s \in Sessions, NEW e \in Entreprises, NEW type \in Types,
             NEW client \in Clients \cup {Aucun}, Creer(s, e, type, client)
      PROVE  SansNumero
  <2>. DEFINE l == [Vide EXCEPT !.etat = "brouillon", !.ent = e, !.type = type,
                                !.client = client]
  <2>1. l.numero = Provisoire
    BY DEF Vide
  <2>. QED  BY <1>3, <2>1, SansNumeroInserer DEF Creer, historique
<1>4. ASSUME NEW s \in Sessions, GenererAvoir(s) PROVE SansNumero
  <2>. DEFINE l == [Vide EXCEPT !.etat = "brouillon", !.ent = demande[s].ent,
                                !.type = "avoir", !.origine = demande[s].cible,
                                !.client = Lue(s).client, !.fige = Lue(s).fige]
  <2>1. l.numero = Provisoire
    BY DEF Vide
  <2>. QED  BY <1>2, <1>4, <2>1, SansNumeroInserer
            DEF GenererAvoir, LigneDisparue, historique
<1>5. ASSUME NEW s \in Sessions, Modifier(s) PROVE SansNumero
  <2>1. etape[s] # "libre" /\ demande[s].cible \in Factures
    BY <1>5, DemandeType DEF Modifier, EnCours
  <2>2. CASE base' = [base EXCEPT ![demande[s].cible] = LigneModifiee(s)]
    <3>1. \A g \in Factures : base'[g] = IF g = demande[s].cible THEN LigneModifiee(s) ELSE base[g]
      BY <1>1, <2>2
    <3>2. journal' = journal
      BY <1>5 DEF Modifier, LigneDisparue, historique
    <3>. QED  BY <2>1, <3>1, <3>2, LigneModifieeGarde DEF SansNumero, Existe, Courante
  <2>. QED  BY <1>2, <1>5, <2>2 DEF Modifier, LigneDisparue, historique
<1>6. ASSUME NEW s \in Sessions, Supprimer(s) PROVE SansNumero
  <2>. DEFINE l == [Vide EXCEPT !.etat = "supprimee"]
  <2>1. l.etat = "supprimee" /\ l.numero = Provisoire
    BY DEF Vide
  <2>2. CASE base' = [base EXCEPT ![demande[s].cible] = l]
    <3>1. \A g \in Factures : base'[g] = IF g = demande[s].cible THEN l ELSE base[g]
      BY <1>1, <2>2
    <3>2. journal' = journal
      BY <1>6 DEF Supprimer
    <3>. QED  BY <2>1, <3>1, <3>2 DEF SansNumero, Existe
  <2>. QED  BY <1>2, <1>6, <2>2 DEF Supprimer
<1>7. ASSUME NEW s \in Sessions, Valider(s) PROVE SansNumero \/ Attribution(s)
  BY <1>2, <1>7 DEF Valider, LigneDisparue, Rejouer, Renoncer, Attribution, historique
<1>. QED
  BY <1>2, <1>3, <1>4, <1>5, <1>6, <1>7
  DEF Next, Poursuivre, Recevoir, Abandonner, Reprendre, MoisSuivant, vars, historique

\* A request that ends frees its session and leaves the others alone.
LEMMA EssaisClore ==
    ASSUME TypeInv, NEW s \in Sessions, Clore(s)
    PROVE  \A t \in Sessions : SuiteEssais(t)
BY DEF TypeInv, TypeOK, Clore, Repondre, SuiteEssais

LEMMA EssaisLire ==
    ASSUME TypeInv, NEW s \in Sessions, NEW d \in Demandes,
           d.cible \in Factures, d.ent \in Entreprises, Lire(s, d),
           etape[s] = "libre" \/ (etape[s] = "reprise" /\ d = demande[s]),
           demande' = [demande EXCEPT ![s] = d],
           UNCHANGED <<base, journal, tardif, tentative, concurrentes>>
    PROVE  \A t \in Sessions : SuiteEssais(t)
<1>1. SuiteEssais(s)
  <2>1. Relue(s) /\ demande'[s] = d
    BY DEF TypeInv, TypeOK, Lire, Relue
  <2>. QED  BY <2>1 DEF SuiteEssais
<1>2. ASSUME NEW t \in Sessions, t # s PROVE SuiteEssais(t)
  BY <1>2 DEF TypeInv, TypeOK, Lire, SuiteEssais
<1>. QED  BY <1>1, <1>2

LEMMA EssaisEtape ==
    ASSUME MaxId <= PLAFOND, ChargeInv, [Next]_vars, SansNumero,
           \A s \in Sessions : ~Attribution(s)
    PROVE  \A t \in Sessions : SuiteEssais(t)
<1>. DEFINE But == \A t \in Sessions : SuiteEssais(t)
<1>1. CASE UNCHANGED requete
  BY <1>1 DEF requete, SuiteEssais
<1>2. TypeInv
  BY DEF ChargeInv
<1>3. ASSUME NEW s \in Sessions, Clore(s) PROVE But
  BY <1>2, <1>3, EssaisClore
<1>4. ASSUME NEW s \in Sessions, NEW d \in Recevables, Recevoir(s, d) PROVE But
  BY <1>2, <1>4, RecevablesType, EssaisLire DEF Recevoir, historique
<1>5. ASSUME NEW s \in Sessions, Valider(s) PROVE But
  <2>1. EnCours(s, "valider")
    BY <1>5 DEF Valider
  <2>2. ASSUME NEW m \in ouvert[s]..mois, Rejouer(s, NumeroCalcule(s, m)) PROVE But
    <3>1. Nouvelles(s) # {}
      BY <2>1, <2>2, CollisionNouvelle DEF Rejouer
    <3>2. SuiteEssais(s)
      BY <1>2, <2>1, <2>2, <3>1 DEF TypeInv, TypeOK, Rejouer, SuiteEssais
    <3>3. ASSUME NEW t \in Sessions, t # s PROVE SuiteEssais(t)
      BY <1>2, <2>2, <3>3 DEF TypeInv, TypeOK, Rejouer, SuiteEssais
    <3>. QED  BY <3>2, <3>3
  <2>3. ASSUME NEW m \in ouvert[s]..mois, Attribuer(s, NumeroCalcule(s, m)) PROVE FALSE
    BY <2>1, <2>3 DEF Attribution
  <2>. QED  BY <1>3, <1>5, <2>2, <2>3 DEF Valider, LigneDisparue, Renoncer
<1>6. ASSUME NEW s \in Sessions, Reprendre(s) PROVE But
  <2>1. CASE Lire(s, demande[s]) /\ UNCHANGED <<demande, tentative, concurrentes>>
    <3>1. demande' = [demande EXCEPT ![s] = demande[s]]
      BY <1>2, <2>1 DEF TypeInv, TypeOK
    <3>2. UNCHANGED <<base, journal, tardif>> /\ etape[s] = "reprise" /\ etape[s] # "libre"
      BY <1>6 DEF Reprendre, historique
    <3>. QED  BY <1>2, <2>1, <3>1, <3>2, DemandeType, EssaisLire
  <2>. QED  BY <1>3, <1>6, <2>1 DEF Reprendre
<1>7. ASSUME NEW s \in Sessions,
             Modifier(s) \/ Supprimer(s) \/ GenererAvoir(s) \/ Abandonner(s)
      PROVE  But
  <2>1. Clore(s)
    BY <1>7 DEF Modifier, LigneDisparue, Supprimer, GenererAvoir, Abandonner
  <2>. QED  BY <1>3, <2>1
<1>8. ASSUME NEW s \in Sessions, NEW e \in Entreprises, NEW type \in Types,
             NEW client \in Clients \cup {Aucun}, Creer(s, e, type, client)
      PROVE  But
  BY <1>1, <1>8 DEF Creer
<1>9. CASE MoisSuivant \/ UNCHANGED vars
  BY <1>1, <1>9 DEF MoisSuivant, vars, requete
<1>. QED
  BY <1>4, <1>5, <1>6, <1>7, <1>8, <1>9 DEF Next, Poursuivre

\* The counters of an attempt that goes on, when no number is given.
LEMMA ChargeCalme ==
    ASSUME MaxId <= PLAFOND, ChargeInv, [Next]_vars, SansNumero,
           \A s \in Sessions : ~Attribution(s)
    PROVE  RangsBornes' /\ EssaisPayes'
<1>1. TypeInv /\ TypeInv' /\ TypeOK
  BY TypeEtape DEF ChargeInv, TypeInv
<1>2. \A t \in Sessions : SuiteEssais(t)
  BY EssaisEtape
<1>3. Validees' = Validees
  BY DEF Validees, SansNumero
<1>4. \A f \in Factures :
        /\ base'[f].numero.rang <= Cardinality(Validees)
        /\ base'[f].etat \in {"absente", "brouillon"} => f \notin Validees
  <2>1. Provisoire.rang <= Cardinality(Validees)
    BY <1>1, ValideesFinies DEF Provisoire
  <2>. QED  BY <2>1 DEF SansNumero, ChargeInv, RangsBornes
<1>5. ASSUME NEW t \in Sessions, EnCours(t, "valider")'
      PROVE  \A n \in lu'[t].numeros : n.rang <= Cardinality(Validees \ {demande'[t].cible})
  <2>1. CASE EnCours(t, "valider") /\ demande'[t] = demande[t] /\ lu'[t] = lu[t]
    BY <2>1 DEF ChargeInv, RangsBornes
  <2>2. CASE Relue(t)
    <3>1. lu'[t].numeros \subseteq {base[f].numero : f \in Factures}
      BY <1>5, <2>2 DEF Relue, Lecture, NumerosEmis, EnCours
    <3>2. base[demande'[t].cible].etat = "brouillon" /\ demande'[t].cible \in Factures
      BY <1>5, <2>2 DEF Relue, Refus, RefusValider, EnCours
    <3>3. Validees \ {demande'[t].cible} = Validees
      BY <3>2 DEF ChargeInv, RangsBornes
    <3>. QED  BY <3>1, <3>3 DEF ChargeInv, RangsBornes
  <2>. QED  BY <1>2, <1>5, <2>1, <2>2 DEF SuiteEssais, EnCours
<1>6. RangsBornes'
  BY <1>3, <1>4, <1>5 DEF RangsBornes
<1>7. ASSUME NEW t \in Sessions
      PROVE  /\ etape'[t] = "libre" => tentative'[t] = 0
             /\ etape'[t] = "reprise" => demande'[t].op = "valider"
             /\ etape'[t] # "libre" /\ demande'[t].op = "valider" =>
                   concurrentes'[t] >= tentative'[t]
             /\ EnCours(t, "valider")' /\ Nouvelles(t)' # {} =>
                   concurrentes'[t] > tentative'[t]
  <2>1. concurrentes[t] \in Nat /\ tentative[t] \in Nat
    BY <1>1 DEF TypeOK, MAX_TENTATIVES_NUMEROTATION
  <2>2. CASE etape'[t] = "libre" /\ tentative'[t] = 0
    BY <2>2 DEF EnCours
  <2>3. CASE /\ etape'[t] = etape[t] /\ demande'[t] = demande[t] /\ lu'[t] = lu[t]
             /\ tentative'[t] = tentative[t] /\ concurrentes'[t] = concurrentes[t]
    <3>1. Nouvelles(t)' \subseteq Nouvelles(t)
      <4>1. Prefixe(Lue(t).type) # Provisoire.prefixe
        BY DEF Prefixe, Provisoire
      <4>. QED  BY <2>3, <4>1 DEF Nouvelles, SansNumero, Lue
    <3>. QED  BY <2>3, <3>1 DEF ChargeInv, EssaisPayes, EnCours
  <2>4. CASE /\ Relue(t)
             /\ \/ etape[t] = "libre"
                \/ etape[t] = "reprise" /\ demande'[t] = demande[t]
             /\ tentative'[t] = tentative[t] /\ concurrentes'[t] = concurrentes[t]
    <3>1. etape'[t] = "lue" /\ base' = base
      BY <2>4 DEF Relue
    <3>2. concurrentes[t] >= tentative[t]
      BY <2>1, <2>4 DEF ChargeInv, EssaisPayes
    <3>3. EnCours(t, "valider")' => Nouvelles(t)' = {}
      <4>1. SUFFICES ASSUME EnCours(t, "valider")', NEW g \in Nouvelles(t)' PROVE FALSE
        OBVIOUS
      <4>2. /\ g \in Factures /\ Existe(base, g) /\ base[g].ent = demande'[t].ent
            /\ base[g].numero.prefixe = Prefixe(lu'[t].ligne.type)
            /\ base[g].numero \notin lu'[t].numeros
        BY <3>1, <4>1 DEF Nouvelles, Lue, Existe
      <4>3. /\ lu'[t].numeros = NumerosEmis(base, demande'[t].ent,
                                               Prefixe(base[demande'[t].cible].type))
            /\ lu'[t].ligne = base[demande'[t].cible]
        BY <2>4, <4>1 DEF Relue, Lecture, EnCours
      <4>. QED  BY <4>2, <4>3 DEF NumerosEmis, Accessible
    <3>. QED  BY <2>4, <3>1, <3>2, <3>3
  <2>5. CASE /\ etape'[t] = "reprise" /\ EnCours(t, "valider") /\ demande'[t] = demande[t]
             /\ tentative'[t] = tentative[t] + 1 /\ concurrentes'[t] = concurrentes[t]
             /\ Nouvelles(t) # {}
    <3>1. concurrentes[t] > tentative[t]
      BY <2>5 DEF ChargeInv, EssaisPayes
    <3>. QED  BY <2>1, <2>5, <3>1 DEF EnCours
  <2>. QED  BY <1>2, <2>2, <2>3, <2>4, <2>5 DEF SuiteEssais
<1>8. EssaisPayes'
  BY <1>7 DEF EssaisPayes
<1>. QED  BY <1>6, <1>8

\* The counters when a validation succeeds: it adds an invoice to those that were
\* validated, and one success to what every other validation has missed.
LEMMA ChargeAttribution ==
    ASSUME ChargeInv, TypeInv', NEW s \in Sessions, Attribution(s)
    PROVE  RangsBornes' /\ EssaisPayes'
<1>. DEFINE f == demande[s].cible
            V == Validees \ {f}
<1>1. TypeInv /\ TypeOK /\ base \in [Factures -> Lignes]
  BY DEF ChargeInv, TypeInv, TypeOK
<1>2. PICK m \in ouvert[s]..mois : Attribuer(s, NumeroCalcule(s, m))
  BY DEF Attribution
<1>3. EnCours(s, "valider") /\ etape[s] # "libre" /\ f \in Factures
  BY <1>1, DemandeType DEF Attribution, EnCours
<1>4. PICK n : n = NumeroCalcule(s, m)
  OBVIOUS
<1>5. base' = [base EXCEPT ![f] = LigneValidee(s, n)]
  BY <1>2, <1>4 DEF Attribuer
<1>6. \A g \in Factures : base'[g] = IF g = f THEN LigneValidee(s, n) ELSE base[g]
  BY <1>1, <1>5
<1>7. LigneValidee(s, n).etat = "emise" /\ LigneValidee(s, n).numero = n
  BY <1>1, <1>3, LigneValideeGarde
<1>8. Validees' = Validees \cup {f}
  <2>1. PICK x : /\ x = [facture |-> f, ent |-> demande[s].ent, numero |-> n]
                 /\ journal' = journal \cup {x}
    BY <1>2, <1>4 DEF Attribuer
  <2>2. x.facture = f
    BY <2>1
  <2>3. Validees' = {j.facture : j \in journal'}
    BY DEF Validees
  <2>. HIDE DEF f
  <2>. QED  BY <2>1, <2>2, <2>3 DEF Validees
<1>9. /\ IsFiniteSet(V) /\ Cardinality(V) \in Nat /\ f \notin V /\ Validees' = V \cup {f}
      /\ Cardinality(V) <= Cardinality(Validees) /\ Cardinality(Validees) \in Nat
      /\ IsFiniteSet(Validees)
  BY <1>1, <1>8, ValideesFinies
<1>10. Cardinality(Validees') = Cardinality(V) + 1
  BY <1>9, FS_AddElement
<1>11. IsFiniteSet(Validees') /\ Cardinality(Validees) <= Cardinality(Validees')
       /\ Cardinality(Validees') \in Nat
  <2>1. IsFiniteSet(Validees')
    BY <1>9, FS_AddElement
  <2>2. Validees \subseteq Validees'
    BY <1>8
  <2>. QED  BY <2>1, <2>2, FS_Subset, FS_CardinalityType
<1>12. n.rang <= Cardinality(V) + 1
  <2>. DEFINE R == RangsDuMois(lu[s].numeros, m)
  <2>1. m \in 1..MaxMois
    <3>1. ouvert[s] \in 1..MaxMois /\ mois \in 1..MaxMois
      BY <1>1 DEF TypeOK
    <3>. QED  BY <3>1, HypMois
  <2>2. R \subseteq Nat
    <3>1. lu[s].numeros \in SUBSET Numeros
      BY <1>1 DEF TypeOK, Lectures
    <3>. QED  BY <3>1 DEF RangsDuMois, Numeros, Provisoire
  <2>3. \A r \in R : r <= Cardinality(V)
    BY <1>3 DEF ChargeInv, RangsBornes, RangsDuMois
  <2>4. DernierRang(R) \in Nat /\ (R # {} => DernierRang(R) \in R)
    BY <1>1, <2>1, <2>2, DernierDansSerie DEF TypeInv, SeriesOrdonnees
  <2>5. R = {} => DernierRang(R) = 0
    BY DEF DernierRang
  <2>6. n.rang = DernierRang(R) + 1
    BY <1>4 DEF NumeroCalcule, NouveauNumero
  <2>7. DernierRang(R) <= Cardinality(V)
    <3>. HIDE DEF R, V
    <3>. QED  BY <1>9, <2>3, <2>4, <2>5
  <2>. HIDE DEF R, V
  <2>. QED  BY <1>9, <2>4, <2>6, <2>7
<1>13. \A t \in Sessions \ {s} : /\ etape'[t] = etape[t] /\ demande'[t] = demande[t]
                                 /\ lu'[t] = lu[t] /\ tentative'[t] = tentative[t]
                                 /\ concurrentes'[t] = IF demande[t].op = "valider"
                                                       THEN Borner(concurrentes[t] + 1) ELSE 0
  BY <1>1, <1>2 DEF Attribuer, Repondre, TypeOK
<1>14. etape'[s] = "libre" /\ tentative'[s] = 0
  BY <1>1, <1>2 DEF Attribuer, Repondre, TypeOK
<1>15. RangsBornes'
  <2>1. ASSUME NEW g \in Factures
        PROVE  /\ base'[g].numero.rang <= Cardinality(Validees')
               /\ base'[g].etat \in {"absente", "brouillon"} => g \notin Validees'
    <3>1. CASE g = f
      BY <1>6, <1>7, <1>10, <1>12, <3>1
    <3>2. CASE g # f
      <4>1. base'[g] = base[g] /\ base[g].numero \in Numeros
        BY <1>1, <1>6, <3>2, LigneDeTable DEF Lignes
      <4>2. base[g].numero.rang \in Nat
        BY <4>1 DEF Numeros, Provisoire
      <4>3. base[g].numero.rang <= Cardinality(Validees)
        BY DEF ChargeInv, RangsBornes
      <4>4. base'[g].numero.rang <= Cardinality(Validees')
        <5>. HIDE DEF f, V
        <5>. QED  BY <1>9, <1>11, <4>1, <4>2, <4>3
      <4>. QED  BY <1>8, <3>2, <4>1, <4>4 DEF ChargeInv, RangsBornes
    <3>. QED  BY <3>1, <3>2
  <2>2. ASSUME NEW t \in Sessions, EnCours(t, "valider")', NEW k \in lu'[t].numeros
        PROVE  k.rang <= Cardinality(Validees' \ {demande'[t].cible})
    <3>1. t # s
      BY <1>14, <2>2 DEF EnCours
    <3>2. EnCours(t, "valider") /\ lu'[t] = lu[t] /\ demande'[t] = demande[t]
      BY <1>13, <2>2, <3>1 DEF EnCours
    <3>. DEFINE W == Validees \ {demande[t].cible}
                X == Validees' \ {demande[t].cible}
    <3>3. k.rang <= Cardinality(W)
      BY <2>2, <3>2 DEF ChargeInv, RangsBornes
    <3>4. W \subseteq X /\ X \subseteq Validees'
      BY <1>8
    <3>5. IsFiniteSet(X)
      BY <1>11, <3>4, FS_Subset
    <3>6. Cardinality(W) <= Cardinality(X) /\ Cardinality(X) \in Nat /\ Cardinality(W) \in Nat
      BY <3>4, <3>5, FS_Subset, FS_CardinalityType
    <3>7. k.rang \in Nat
      <4>1. k \in Numeros
        BY <1>1, <2>2, <3>2 DEF TypeOK, Lectures
      <4>. QED  BY <4>1 DEF Numeros, Provisoire
    <3>8. k.rang <= Cardinality(X)
      <4>. HIDE DEF W, X
      <4>. QED  BY <3>3, <3>6, <3>7
    <3>. QED  BY <3>2, <3>8
  <2>. QED  BY <2>1, <2>2 DEF RangsBornes
<1>16. EssaisPayes'
  <2> SUFFICES ASSUME NEW t \in Sessions
               PROVE  /\ etape'[t] = "libre" => tentative'[t] = 0
                      /\ etape'[t] = "reprise" => demande'[t].op = "valider"
                      /\ etape'[t] # "libre" /\ demande'[t].op = "valider" =>
                            concurrentes'[t] > tentative'[t]
                      /\ concurrentes'[t] \in Nat /\ tentative'[t] \in Nat
    BY DEF EssaisPayes, EnCours
  <2>1. concurrentes'[t] \in Nat /\ tentative'[t] \in Nat
    BY DEF TypeInv, TypeOK, MAX_TENTATIVES_NUMEROTATION
  <2>2. CASE t = s
    BY <1>14, <2>1, <2>2
  <2>3. CASE t # s
    <3>1. concurrentes[t] \in Nat /\ tentative[t] \in 0..2
      BY <1>1 DEF TypeOK, MAX_TENTATIVES_NUMEROTATION
    <3>2. concurrentes[t] >= tentative[t] => Borner(concurrentes[t] + 1) > tentative[t]
      BY <3>1 DEF Borner, MAX_TENTATIVES_NUMEROTATION
    <3>. QED  BY <1>13, <2>1, <2>3, <3>2 DEF ChargeInv, EssaisPayes
  <2>. QED  BY <2>2, <2>3
<1>. QED  BY <1>15, <1>16

LEMMA ChargeEtape ==
    ASSUME MaxId <= PLAFOND, ChargeInv, [Next]_vars
    PROVE  ChargeInv'
<1>1. TypeInv'
  BY TypeEtape DEF ChargeInv
<1>2. CASE \E s \in Sessions : Attribution(s)
  BY <1>1, <1>2, ChargeAttribution DEF ChargeInv
<1>3. CASE SansNumero /\ \A s \in Sessions : ~Attribution(s)
  BY <1>1, <1>3, ChargeCalme DEF ChargeInv
<1>. QED  BY <1>2, <1>3, SansNumeroOuAttribution DEF ChargeInv

LEMMA ChargeInit == Init => ChargeInv
<1> SUFFICES ASSUME Init PROVE ChargeInv
  OBVIOUS
<1>1. TypeInv /\ TypeOK
  BY TypeInit DEF TypeInv
<1>2. Validees = {} /\ Cardinality(Validees) \in Nat
  BY <1>1, ValideesFinies DEF Init, Validees
<1>3. \A f \in Factures : base[f].numero.rang = 0
  BY DEF Init, BaseVide, Vide, Provisoire
<1>4. RangsBornes
  BY <1>2, <1>3 DEF Init, RangsBornes, EnCours
<1>5. EssaisPayes
  BY DEF Init, EssaisPayes, EnCours
<1>. QED  BY <1>1, <1>4, <1>5 DEF ChargeInv

\* An attempt that is going to fail has had one more validation succeed beside it
\* than the attempts already lost, so that the 409 of service.py:369-382 takes
\* three: for any number of sessions and months and whatever writes are stale,
\* if the invoices number at most PLAFOND (9999), past which the text order of the
\* numbers is no longer theirs and the promise is false.
THEOREM ConflitsExpliques ==
    ASSUME MaxId <= PLAFOND
    PROVE  Spec => []ConflitSeulementSousCharge
<1>1. ChargeInv => ConflitSeulementSousCharge
  BY CollisionNouvelle DEF ConflitSeulementSousCharge, ChargeInv, EssaisPayes
<1>2. ChargeInv /\ [Next]_vars => ChargeInv'
  BY ChargeEtape
<1>. QED  BY <1>1, <1>2, ChargeInit, PTL DEF Spec
=============================================================================
