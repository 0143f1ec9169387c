------------------------- MODULE Statistiques_proofs -------------------------
(* The statistics, for any number of invoices, companies, payloads and        *)
(* crossing requests: the figures of a closed period, which only a stale      *)
(* write still reaches; the credit notes, which net out; and the six blocks   *)
(* of an answer, which agree because they read one snapshot.                  *)
EXTENDS Statistiques, Sommes_proofs

\* A request under way has read a row that was given its id, and a row of that
\* id has its origin; a validation read the clock on a day that has come.
LecturesSures ==
    /\ \A r \in enCours : r.ligne.id <= dernierId
    /\ \A r \in enCours, f \in factures : f.id = r.ligne.id => f.origine = r.ligne.origine
    /\ \A r \in enCours :
          r.op = "valider" => AuPlus(PremierJour, r.jour) /\ AuPlus(r.jour, aujourdhui)

\* The inductive invariant.
StatistiquesInv ==
    /\ TypeOK
    /\ LecturesSures
    /\ AuPlus(PremierJour, aujourdhui)

-----------------------------------------------------------------------------
(* Dates and documents *)

LEMMA AuPlusTransitif ==
    ASSUME NEW d \in Moments, NEW e \in Moments, NEW f \in Moments,
           AuPlus(d, e), AuPlus(e, f)
    PROVE  AuPlus(d, f)
BY DEF Moments, AuPlus, Avant

LEMMA LendemainApres ==
    ASSUME NEW d \in Moments
    PROVE  Lendemain(d) \in Moments /\ AuPlus(d, Lendemain(d))
BY DEF Moments, AuPlus, Avant, Lendemain

\* What a payload makes of a row.
LEMMA FactureSaisie ==
    ASSUME NEW s \in Saisies, NEW id \in Nat, NEW e \in Entreprises, NEW o \in Nat
    PROVE  /\ Facture(id, e, s, o) \in FacturesPossibles
           /\ Facture(id, e, s, o).id = id
           /\ Facture(id, e, s, o).statut = "brouillon"
<1>1. s \in [type : Types, client : Nat, devise : STRING, ht : Int, tva : Int,
             date : Moments, echeance : Moments]
  BY HypSaisies
<1>. DEFINE m == [ht |-> s.ht, tva |-> s.tva, ttc |-> s.ht + s.tva]
<1>2. m \in [Colonnes -> Int]
  BY <1>1 DEF Colonnes
<1>3. Facture(id, e, s, o).montants = m
  BY DEF Facture
<1>. QED  BY <1>1, <1>2, <1>3 DEF Facture, FacturesPossibles

\* The credit note of an invoice.
LEMMA AvoirGenere ==
    ASSUME NEW f \in FacturesPossibles, dernierId \in Nat, aujourdhui \in Moments
    PROVE  /\ Avoir(f) \in FacturesPossibles
           /\ Avoir(f).id = dernierId + 1
           /\ Avoir(f).statut = "brouillon"
<1>1. [c \in Colonnes |-> -f.montants[c]] \in [Colonnes -> Int]
  BY DEF FacturesPossibles
<1>2. dernierId + 1 \in Nat /\ f.id \in Nat
  BY DEF FacturesPossibles
<1>. QED  BY <1>1, <1>2 DEF FacturesPossibles, Types, Avoir

LEMMA StatutChange ==
    ASSUME NEW f \in FacturesPossibles, NEW statut \in StatutsEmis
    PROVE  LET g == [f EXCEPT !.statut = statut]
           IN /\ g \in FacturesPossibles /\ Emise(g) /\ g.id = f.id /\ g.date = f.date
              /\ g.origine = f.origine
BY DEF FacturesPossibles, StatutsEmis, Emise

LEMMA Validee ==
    ASSUME NEW f \in FacturesPossibles, NEW jour \in Moments
    PROVE  LET g == FactureValidee(f, jour)
           IN /\ g \in FacturesPossibles /\ g.date = jour /\ g.statut = "validee"
              /\ g.type = f.type
BY DEF FacturesPossibles, StatutsEmis, FactureValidee

\* The row that an UPDATE leaves.
LEMMA RangeeReecrite ==
    ASSUME NEW l \in FacturesPossibles, NEW w \in FacturesPossibles, NEW f \in FacturesPossibles
    PROVE  LET g == Reecrite(l, w, f)
           IN /\ g \in FacturesPossibles /\ g.id = f.id /\ g.origine = f.origine
              /\ g.type = Colonne(l.type, w.type, f.type)
              /\ g.statut = Colonne(l.statut, w.statut, f.statut)
              /\ g.date = Colonne(l.date, w.date, f.date)
<1>. DEFINE m == [c \in Colonnes |-> Colonne(l.montants[c], w.montants[c], f.montants[c])]
            g == Reecrite(l, w, f)
<1>1. m \in [Colonnes -> Int]
  BY DEF Colonne, FacturesPossibles
<1>2. /\ Colonne(l.type, w.type, f.type) \in Types
      /\ Colonne(l.client, w.client, f.client) \in Nat
      /\ Colonne(l.devise, w.devise, f.devise) \in STRING
      /\ Colonne(l.date, w.date, f.date) \in Moments
      /\ Colonne(l.echeance, w.echeance, f.echeance) \in Moments
      /\ Colonne(l.statut, w.statut, f.statut) \in StatutsEmis \cup {"brouillon"}
  BY DEF Colonne, FacturesPossibles
<1>3. g = [f EXCEPT !.type = Colonne(l.type, w.type, f.type),
                    !.client = Colonne(l.client, w.client, f.client),
                    !.devise = Colonne(l.devise, w.devise, f.devise),
                    !.date = Colonne(l.date, w.date, f.date),
                    !.echeance = Colonne(l.echeance, w.echeance, f.echeance),
                    !.statut = Colonne(l.statut, w.statut, f.statut),
                    !.montants = m]
  BY DEF Reecrite, FacturesPossibles
<1>. HIDE DEF m, g
<1>4. /\ g \in FacturesPossibles /\ g.id = f.id /\ g.origine = f.origine
      /\ g.type = Colonne(l.type, w.type, f.type)
      /\ g.statut = Colonne(l.statut, w.statut, f.statut)
      /\ g.date = Colonne(l.date, w.date, f.date)
  BY <1>1, <1>2, <1>3 DEF FacturesPossibles
<1>. QED  BY <1>4 DEF g

\* What a handler has read, now or earlier.
LEMMA LuesSures ==
    ASSUME StatistiquesInv, NEW r \in Lues
    PROVE  /\ r \in [op : Operations, ligne : FacturesPossibles, jour : Moments]
           /\ r.ligne.statut = "brouillon"
           /\ r.ligne.id <= dernierId
           /\ \A f \in factures : f.id = r.ligne.id => f.origine = r.ligne.origine
           /\ r.op = "valider" => AuPlus(PremierJour, r.jour) /\ AuPlus(r.jour, aujourdhui)
           /\ r \in enCours \/ (r.ligne \in factures /\ (r.op = "valider" => r.jour = aujourdhui))
<1>1. CASE r \in enCours
  BY <1>1 DEF StatistiquesInv, TypeOK, LecturesSures, Emise
<1>2. CASE r \notin enCours
  <2>1. PICK f \in factures, op \in Operations : r = Lecture(f, op) /\ ~Emise(f)
    BY <1>2 DEF Lues, Lectures, Brouillons, Operations
  <2>2. /\ f \in FacturesPossibles /\ f.id <= dernierId /\ aujourdhui \in Moments
        /\ \A g \in factures : g.id = f.id => g = f
    BY DEF StatistiquesInv, TypeOK
  <2>3. SansDate \in Moments
    BY DEF SansDate, Moments
  <2>4. AuPlus(PremierJour, aujourdhui) /\ AuPlus(aujourdhui, aujourdhui)
    BY <2>2 DEF StatistiquesInv, AuPlus, Avant, Moments
  <2>5. /\ r.op = op /\ r.ligne = f /\ (op = "valider" => r.jour = aujourdhui)
        /\ r \in [op : Operations, ligne : FacturesPossibles, jour : Moments]
    BY <2>1, <2>2, <2>3 DEF Lecture
  <2>. QED  BY <2>1, <2>2, <2>4, <2>5 DEF Emise
<1>. QED  BY <1>1, <1>2

-----------------------------------------------------------------------------
(* The invariant: initial states and the requests that write *)

LEMMA SansDemandeType ==
    /\ SansDemande \in [phase : {"aucune", "authentifiee", "calcul"},
                        entreprise : Entreprises \cup {"aucune"},
                        min : Bornes, max : Bornes, aujourdhui : Moments]
    /\ SansDemande.phase = "aucune"
BY DEF SansDemande, SansDate, Bornes, Moments

LEMMA InitInv == Init => StatistiquesInv
<1> SUFFICES ASSUME Init PROVE StatistiquesInv
  OBVIOUS
<1>1. PremierJour \in Moments /\ MaxFactures \in Nat
  BY HypStatistiques
<1>2. AuPlus(PremierJour, PremierJour)
  BY <1>1 DEF AuPlus, Avant, Moments
<1>3. DOMAIN reponse = {}
  BY DEF Init
<1>4. demande = SansDemande
  BY DEF Init
<1>. QED
  BY <1>1, <1>2, <1>3, <1>4, SansDemandeType
  DEF Init, StatistiquesInv, TypeOK, LecturesSures

\* A new draft takes an id nobody has.
LEMMA AjouterInv ==
    ASSUME StatistiquesInv, NEW g \in FacturesPossibles,
           g.id = dernierId + 1, g.statut = "brouillon", Ajouter(g)
    PROVE  StatistiquesInv'
<1>. USE DEF StatistiquesInv, Ajouter, lecture
<1>1. dernierId \in Nat /\ dernierId' = dernierId + 1 /\ dernierId' \in 0..MaxFactures
  BY HypStatistiques DEF TypeOK
<1>2. \A f \in factures : f.id \in Nat /\ f.id # g.id
  BY <1>1 DEF TypeOK, FacturesPossibles
<1>3. ~Emise(g)
  BY DEF Emise
<1>4. (\A f \in factures' : f.id <= dernierId') /\ factures' \subseteq FacturesPossibles
  BY <1>1, <1>2 DEF TypeOK
<1>5. \A f, h \in factures' : f.id = h.id => f = h
  BY <1>2 DEF TypeOK
<1>6. \A f \in factures' : Emise(f) => f \in factures
  BY <1>3
<1>7. TypeOK'
  BY <1>1, <1>4, <1>5, <1>6 DEF TypeOK, Emise, Croise
<1>8. \A r \in enCours : r.ligne.id \in Nat /\ r.ligne.id <= dernierId
  BY DEF TypeOK, LecturesSures, FacturesPossibles
<1>9. \A r \in enCours : r.ligne.id # g.id /\ r.ligne.id <= dernierId'
  BY <1>1, <1>8
<1>10. LecturesSures'
  BY <1>9 DEF LecturesSures
<1>. QED  BY <1>7, <1>10

\* A write of a request that has read a draft: if it is the row as it was read, it
\* stays a draft or is dated of a day that has come; if not, it is marked.
LEMMA ValiderInv ==
    ASSUME StatistiquesInv, NEW r \in Lues, NEW w \in FacturesPossibles, Valider(r, w),
           w.statut = "brouillon" \/ (AuPlus(PremierJour, w.date) /\ AuPlus(w.date, aujourdhui))
    PROVE  StatistiquesInv'
<1>. USE DEF StatistiquesInv, lecture
<1>1. PICK f \in factures : /\ f.id = r.ligne.id
                            /\ Remplacer(f, Reecrite(r.ligne, w, f))
                            /\ Croiser(r, f, Reecrite(r.ligne, w, f))
  BY DEF Valider
<1>. DEFINE g == Reecrite(r.ligne, w, f)
<1>2. f \in FacturesPossibles /\ f.id <= dernierId /\ r.ligne \in FacturesPossibles
      /\ r.ligne.statut = "brouillon"
  BY LuesSures DEF TypeOK
<1>3. /\ g \in FacturesPossibles /\ g.id = f.id /\ g.origine = f.origine
      /\ g.statut = Colonne(r.ligne.statut, w.statut, f.statut)
      /\ g.date = Colonne(r.ligne.date, w.date, f.date)
  BY <1>2, RangeeReecrite
<1>4. factures' = (factures \ {f}) \cup {g} /\ Croiser(r, f, g)
  BY <1>1 DEF Remplacer
<1>. HIDE DEF g
<1>5. enCours' \subseteq enCours /\ UNCHANGED <<dernierId, aujourdhui, lecture>>
  BY DEF Valider, Repondue
<1>6. croises \subseteq croises' /\ croises' \subseteq [id : Nat, emise : BOOLEAN]
  <2>1. Croise(f, Emise(f) \/ Emise(g)) \in [id : Nat, emise : BOOLEAN]
    BY <1>2 DEF Croise, FacturesPossibles
  <2>. QED  BY <1>4, <2>1 DEF Croiser, TypeOK
<1>7. Emise(g) /\ Croise(g, TRUE) \notin croises' =>
          AuPlus(PremierJour, g.date) /\ AuPlus(g.date, aujourdhui)
  <2> SUFFICES ASSUME Emise(g), Croise(g, TRUE) \notin croises'
               PROVE  AuPlus(PremierJour, g.date) /\ AuPlus(g.date, aujourdhui)
    OBVIOUS
  <2>1. f = r.ligne
    <3> SUFFICES ASSUME f # r.ligne PROVE FALSE
      OBVIOUS
    <3>1. Croise(f, Emise(f) \/ Emise(g)) \in croises'
      BY <1>4 DEF Croiser
    <3>2. (Emise(f) \/ Emise(g)) = TRUE
      OBVIOUS
    <3>3. Croise(f, TRUE) \in croises'
      BY <3>1, <3>2, Zenon
    <3>. QED  BY <1>3, <3>3 DEF Croise
  <2>2. g.statut = w.statut /\ g.date = w.date
    BY <1>3, <2>1 DEF Colonne
  <2>. QED  BY <2>2 DEF Emise
<1>8. \A h \in factures' : h.id <= dernierId /\ h \in FacturesPossibles
  BY <1>2, <1>3, <1>4 DEF TypeOK
<1>9. \A h \in factures \ {f} : h.id # g.id
  BY <1>3 DEF TypeOK
<1>10. \A h, k \in factures' : h.id = k.id => h = k
  BY <1>4, <1>9 DEF TypeOK
<1>11. \A h \in factures' : Emise(h) /\ Croise(h, TRUE) \notin croises' =>
          AuPlus(PremierJour, h.date) /\ AuPlus(h.date, aujourdhui)
  BY <1>4, <1>6, <1>7 DEF TypeOK
<1>12. TypeOK'
  <2>1. factures' \subseteq FacturesPossibles /\ \A h \in factures' : h.id <= dernierId
    BY <1>8
  <2>2. enCours' \subseteq [op : Operations, ligne : FacturesPossibles, jour : Moments]
        /\ \A q \in enCours' : ~Emise(q.ligne)
    BY <1>5 DEF TypeOK
  <2>. QED  BY <1>5, <1>6, <1>10, <1>11, <2>1, <2>2 DEF TypeOK, Emise, Croise
<1>13. \A h \in factures' : \E k \in factures : k.id = h.id /\ k.origine = h.origine
  BY <1>3, <1>4
<1>14. LecturesSures'
  BY <1>5, <1>13 DEF LecturesSures
<1>. QED  BY <1>5, <1>12, <1>14

LEMMA SupprimerInv ==
    ASSUME StatistiquesInv, NEW r \in Lues, SupprimerBrouillon(r)
    PROVE  StatistiquesInv'
<1>. USE DEF StatistiquesInv, lecture
<1>1. PICK f \in factures : factures' = factures \ {f} /\ Croiser(r, f, f)
  BY DEF SupprimerBrouillon
<1>2. enCours' \subseteq enCours /\ UNCHANGED <<dernierId, aujourdhui, lecture>>
  BY DEF SupprimerBrouillon, Repondue
<1>3. Croise(f, Emise(f) \/ Emise(f)) \in [id : Nat, emise : BOOLEAN]
  BY DEF Croise, TypeOK, FacturesPossibles
<1>4. croises \subseteq croises' /\ croises' \subseteq [id : Nat, emise : BOOLEAN]
  BY <1>1, <1>3 DEF Croiser, TypeOK
<1>5. TypeOK'
  <2>1. \A h \in factures' : Emise(h) /\ Croise(h, TRUE) \notin croises' =>
            AuPlus(PremierJour, h.date) /\ AuPlus(h.date, aujourdhui)
    BY <1>1, <1>4 DEF TypeOK
  <2>2. enCours' \subseteq [op : Operations, ligne : FacturesPossibles, jour : Moments]
        /\ \A q \in enCours' : ~Emise(q.ligne)
    BY <1>2 DEF TypeOK
  <2>3. /\ factures' \subseteq FacturesPossibles /\ \A h \in factures' : h.id <= dernierId
        /\ \A h, k \in factures' : h.id = k.id => h = k
    BY <1>1 DEF TypeOK
  <2>. QED  BY <1>2, <1>4, <2>1, <2>2, <2>3 DEF TypeOK, Emise, Croise
<1>6. LecturesSures'
  BY <1>1, <1>2 DEF LecturesSures
<1>. QED  BY <1>2, <1>5, <1>6

LEMMA PreparerInv ==
    ASSUME StatistiquesInv, NEW r \in Lectures, PreparerEcriture(r)
    PROVE  StatistiquesInv'
<1>. USE DEF StatistiquesInv, PreparerEcriture, lecture
<1>1. r \in Lues
  BY DEF Lues
<1>2. /\ r \in [op : Operations, ligne : FacturesPossibles, jour : Moments]
      /\ ~Emise(r.ligne) /\ r.ligne.id <= dernierId
      /\ \A f \in factures : f.id = r.ligne.id => f.origine = r.ligne.origine
      /\ r.op = "valider" => AuPlus(PremierJour, r.jour) /\ AuPlus(r.jour, aujourdhui)
  BY <1>1, LuesSures DEF Emise
<1>3. TypeOK'
  BY <1>2 DEF TypeOK, Emise, Croise
<1>4. LecturesSures'
  BY <1>2 DEF LecturesSures
<1>. QED  BY <1>3, <1>4

LEMMA AbandonnerInv ==
    ASSUME StatistiquesInv, NEW r \in enCours, Abandonner(r)
    PROVE  StatistiquesInv'
BY DEF StatistiquesInv, Abandonner, lecture, TypeOK, LecturesSures, Emise, Croise

\* The handler issues a document on a day that the clock has been at.
LEMMA FinirInv ==
    ASSUME StatistiquesInv, NEW r \in Lues, FinirValidation(r)
    PROVE  StatistiquesInv'
<1>1. /\ r.ligne \in FacturesPossibles /\ r.jour \in Moments /\ r.op = "valider"
      /\ AuPlus(PremierJour, r.jour) /\ AuPlus(r.jour, aujourdhui)
  BY LuesSures DEF FinirValidation
<1>2. FactureValidee(r.ligne, r.jour) \in FacturesPossibles
      /\ FactureValidee(r.ligne, r.jour).date = r.jour
  BY <1>1, Validee
<1>. QED  BY <1>1, <1>2, ValiderInv DEF FinirValidation

LEMMA ModifierInv ==
    ASSUME StatistiquesInv, NEW r \in Lues, NEW s \in Saisies, ModifierBrouillon(r, s)
    PROVE  StatistiquesInv'
<1>1. r.ligne.id \in Nat /\ r.ligne.entreprise \in Entreprises /\ r.ligne.origine \in Nat
  BY LuesSures DEF FacturesPossibles
<1>. QED  BY <1>1, FactureSaisie, ValiderInv DEF ModifierBrouillon

LEMMA TransmettreInv ==
    ASSUME StatistiquesInv, NEW f \in factures, NEW statut \in StatutsEmis,
           Transmettre(f, statut)
    PROVE  StatistiquesInv'
<1>. USE DEF StatistiquesInv, Transmettre, lecture
<1>. DEFINE g == [f EXCEPT !.statut = statut]
<1>1. /\ g \in FacturesPossibles /\ Emise(g) /\ g.id = f.id /\ g.date = f.date
      /\ g.origine = f.origine
  BY StatutChange DEF TypeOK
<1>2. factures' = (factures \ {f}) \cup {g}
  BY DEF Remplacer
<1>. HIDE DEF g
<1>3. Emise(f)
  BY DEF Emise
<1>4. \A h \in factures \ {f} : h.id # g.id
  BY <1>1 DEF TypeOK
<1>5. \A h, k \in factures' : h.id = k.id => h = k
  BY <1>2, <1>4 DEF TypeOK
<1>6. factures' \subseteq FacturesPossibles /\ \A h \in factures' : h.id <= dernierId
  BY <1>1, <1>2 DEF TypeOK
<1>7. Croise(g, TRUE) = Croise(f, TRUE)
  BY <1>1 DEF Croise
<1>8. \A h \in factures' : Emise(h) /\ Croise(h, TRUE) \notin croises =>
          AuPlus(PremierJour, h.date) /\ AuPlus(h.date, aujourdhui)
  BY <1>1, <1>2, <1>3, <1>7 DEF TypeOK
<1>9. TypeOK'
  BY <1>5, <1>6, <1>8 DEF TypeOK, Emise, Croise
<1>10. LecturesSures'
  BY <1>1, <1>2 DEF LecturesSures
<1>. QED  BY <1>9, <1>10

-----------------------------------------------------------------------------
(* The invariant: the clock, and the request for statistics *)

LEMMA JourSuivantInv ==
    ASSUME StatistiquesInv, JourSuivant
    PROVE  StatistiquesInv'
<1>. USE DEF StatistiquesInv, JourSuivant, ecritures, lecture
<1>1. aujourdhui \in Moments /\ PremierJour \in Moments
  BY HypStatistiques DEF TypeOK
<1>2. aujourdhui' \in Moments /\ AuPlus(aujourdhui, aujourdhui')
  BY <1>1, LendemainApres
<1>3. \A d \in Moments : AuPlus(d, aujourdhui) => AuPlus(d, aujourdhui')
  BY <1>1, <1>2, AuPlusTransitif
<1>4. \A f \in factures : f.date \in Moments
  BY DEF TypeOK, FacturesPossibles
<1>5. \A r \in enCours : r.jour \in Moments
  BY DEF TypeOK
<1>6. TypeOK'
  BY <1>2, <1>3, <1>4 DEF TypeOK, Emise, Croise
<1>7. LecturesSures'
  BY <1>3, <1>5 DEF LecturesSures
<1>. QED  BY <1>1, <1>3, <1>6, <1>7

\* The request for statistics writes nothing.
LEMMA LectureInv ==
    ASSUME StatistiquesInv, UNCHANGED <<ecritures, aujourdhui>>,
           demande' \in [phase : {"aucune", "authentifiee", "calcul"},
                         entreprise : Entreprises \cup {"aucune"},
                         min : Bornes, max : Bornes, aujourdhui : Moments],
           demande'.phase = "calcul" => AuPlus(demande'.min, demande'.max),
           DOMAIN reponse' \subseteq Range(Requetes)
    PROVE  StatistiquesInv'
BY DEF StatistiquesInv, TypeOK, LecturesSures, Emise, Croise, ecritures

\* resoudre_periode gives two dates, the lower one being a whole month perhaps.
LEMMA BornesType ==
    ASSUME NEW p \in Periodes, aujourdhui \in Moments
    PROVE  BorneMax(p) \in Bornes /\ BorneMin(p) \in Bornes
<1>1. p \in Moments \X Moments
  BY HypPeriodes
<1>2. p[1] \in Moments /\ p[2] \in Moments
  BY <1>1
<1>3. BorneMax(p) \in Moments
  BY <1>2 DEF BorneMax
<1>4. DecalerMois(BorneMax(p), -(MOIS_PERIODE_PAR_DEFAUT - 1)) \in Bornes
  BY <1>3 DEF DecalerMois, MOIS_PERIODE_PAR_DEFAUT, Bornes, Moments
<1>. QED  BY <1>2, <1>3, <1>4 DEF BorneMin, Bornes, Moments

LEMMA CommencerInv ==
    ASSUME StatistiquesInv, NEW p \in Periodes, Commencer(p)
    PROVE  StatistiquesInv'
<1>1. CASE Avant(BorneMax(p), BorneMin(p))
  BY <1>1, LectureInv, SansDemandeType DEF Commencer, StatistiquesInv, TypeOK
<1>2. CASE ~Avant(BorneMax(p), BorneMin(p))
  <2>1. demande' = [demande EXCEPT !.phase = "calcul", !.min = BorneMin(p),
                                   !.max = BorneMax(p), !.aujourdhui = aujourdhui]
    BY <1>2 DEF Commencer
  <2>2. aujourdhui \in Moments
    BY DEF StatistiquesInv, TypeOK
  <2>3. BorneMax(p) \in Bornes /\ BorneMin(p) \in Bornes
    BY <2>2, BornesType
  <2>4. /\ demande' \in [phase : {"aucune", "authentifiee", "calcul"},
                         entreprise : Entreprises \cup {"aucune"},
                         min : Bornes, max : Bornes, aujourdhui : Moments]
        /\ demande'.min = BorneMin(p) /\ demande'.max = BorneMax(p)
    BY <2>1, <2>2, <2>3 DEF StatistiquesInv, TypeOK
  <2>5. AuPlus(demande'.min, demande'.max)
    BY <1>2, <2>4 DEF AuPlus
  <2>6. UNCHANGED <<ecritures, aujourdhui>> /\ reponse' = reponse
    BY DEF Commencer
  <2>. QED  BY <2>4, <2>5, <2>6, LectureInv DEF StatistiquesInv, TypeOK
<1>. QED  BY <1>1, <1>2

LEMMA InterrogerInv ==
    ASSUME StatistiquesInv, Interroger
    PROVE  StatistiquesInv'
<1>. DEFINE rang == Cardinality(DOMAIN reponse) + 1
            q == Requetes[rang]
<1>1. Range(Requetes) = {"totaux", "par_statut", "par_mois", "top_clients",
                         "devises_exclues", "brouillons"}
  BY DEF Requetes, Range
<1>2. DOMAIN reponse \subseteq Range(Requetes)
  BY DEF StatistiquesInv, TypeOK
<1>3. IsFiniteSet(DOMAIN reponse)
  <2>1. IsFiniteSet(Range(Requetes))
    <3>1. Requetes \in [1..6 -> Range(Requetes)]
      BY <1>1 DEF Requetes
    <3>2. \A r \in Range(Requetes) : \E i \in 1..6 : Requetes[i] = r
      BY <3>1 DEF Range
    <3>3. Requetes \in Surjection(1..6, Range(Requetes))
      BY <3>1, <3>2 DEF Surjection
    <3>4. IsFiniteSet(1..6)
      <4>1. 1 \in Int /\ 6 \in Int
        OBVIOUS
      <4>. QED  BY <4>1, FS_Interval, Zenon
    <3>. QED  BY <3>3, <3>4, FS_Surjection
  <2>. QED  BY <1>2, <2>1, FS_Subset
<1>4. rang \in Nat \ {0} /\ rang <= 6
  BY <1>3, FS_CardinalityType DEF Interroger, Requetes
<1>5. q \in Range(Requetes)
  BY <1>1, <1>4 DEF Requetes
<1>6. DOMAIN reponse' = DOMAIN reponse \cup {q}
  BY DEF Interroger
<1>. QED  BY <1>2, <1>5, <1>6, LectureInv DEF Interroger, StatistiquesInv, TypeOK

LEMMA EcrireInv ==
    ASSUME StatistiquesInv, Ecrire
    PROVE  StatistiquesInv'
<1>. USE DEF StatistiquesInv
<1>1. dernierId + 1 \in Nat /\ dernierId \in Nat /\ aujourdhui \in Moments
  BY HypStatistiques DEF TypeOK
<1>2. ASSUME NEW e \in Entreprises, NEW s \in Saisies, CreerBrouillon(e, s)
      PROVE  StatistiquesInv'
  BY <1>1, <1>2, FactureSaisie, AjouterInv DEF CreerBrouillon, SansOrigine
<1>3. ASSUME NEW f \in factures, GenererAvoir(f)
      PROVE  StatistiquesInv'
  <2>1. f \in FacturesPossibles
    BY DEF TypeOK
  <2>. QED  BY <1>1, <1>3, <2>1, AvoirGenere, AjouterInv DEF GenererAvoir
<1>4. ASSUME NEW f \in factures, NEW statut \in StatutsEmis \ {"validee"},
             Transmettre(f, statut)
      PROVE  StatistiquesInv'
  BY <1>4, TransmettreInv
<1>5. ASSUME NEW r \in Lectures, PreparerEcriture(r)
      PROVE  StatistiquesInv'
  BY <1>5, PreparerInv
<1>6. ASSUME NEW r \in Lues,
             (\E s \in Saisies : ModifierBrouillon(r, s)) \/ SupprimerBrouillon(r)
             \/ FinirValidation(r)
      PROVE  StatistiquesInv'
  BY <1>6, ModifierInv, SupprimerInv, FinirInv
<1>7. ASSUME NEW r \in enCours, Abandonner(r)
      PROVE  StatistiquesInv'
  BY <1>7, AbandonnerInv
<1>. QED  BY <1>2, <1>3, <1>4, <1>5, <1>6, <1>7 DEF Ecrire

LEMMA InvEtape == StatistiquesInv /\ [Next]_vars => StatistiquesInv'
<1> SUFFICES ASSUME StatistiquesInv, [Next]_vars PROVE StatistiquesInv'
  OBVIOUS
<1>1. ASSUME NEW e \in Entreprises, Authentifier(e)
      PROVE  StatistiquesInv'
  <2>1. /\ demande' \in [phase : {"aucune", "authentifiee", "calcul"},
                         entreprise : Entreprises \cup {"aucune"},
                         min : Bornes, max : Bornes, aujourdhui : Moments]
        /\ demande'.phase = "authentifiee"
    BY <1>1, SansDemandeType DEF Authentifier
  <2>. QED  BY <1>1, <2>1, LectureInv DEF Authentifier, StatistiquesInv, TypeOK
<1>2. CASE Repondre
  <2>1. DOMAIN reponse' = {}
    BY <1>2 DEF Repondre
  <2>. QED  BY <1>2, <2>1, LectureInv, SansDemandeType DEF Repondre
<1>3. CASE UNCHANGED vars
  BY <1>3, LectureInv DEF vars, ecritures, StatistiquesInv, TypeOK
<1>. QED
  BY <1>1, <1>2, <1>3, CommencerInv, InterrogerInv, EcrireInv, JourSuivantInv DEF Next

LEMMA InvariantDesStatistiques == Spec => []StatistiquesInv
BY InitInv, InvEtape, PTL DEF Spec

\* The variables have their types, for any number of invoices, companies,
\* payloads, days and crossing requests; what is issued keeps a past date until a
\* stale write hits it.
THEOREM TypesCorrects == Spec => []TypeOK
<1>1. StatistiquesInv => TypeOK
  BY DEF StatistiquesInv
<1>. QED  BY <1>1, InvariantDesStatistiques, PTL

-----------------------------------------------------------------------------
(* The figures of a closed period *)

\* The documents whose figures a step changes are marked as hit by a stale write.
EcartMarque(avant, apres, marques) ==
    \A f \in (avant \ apres) \cup (apres \ avant) : Croise(f, TRUE) \in marques

LEMMA SansEcart ==
    ASSUME NEW A, NEW B, NEW M, A = B
    PROVE  EcartMarque(A, B, M)
BY DEF EcartMarque

\* A step that touches drafts only is not in the figures.
LEMMA BrouillonsSansEffet ==
    ASSUME \A f \in factures \ factures' : ~Emise(f),
           \A f \in factures' \ factures : ~Emise(f),
           NEW jour
    PROVE  EcartMarque(Chiffres(jour), Chiffres(jour)', croises')
<1>1. {g \in factures' : Emise(g) /\ AuPlus(g.date, jour)}
      = {g \in factures : Emise(g) /\ AuPlus(g.date, jour)}
  OBVIOUS
<1>2. Chiffres(jour) = Chiffres(jour)'
  BY <1>1 DEF Chiffres, Emise
<1>. QED  BY <1>2, SansEcart

\* A step on a document that is marked changes no figure but its own.
LEMMA EcritureMarquee ==
    ASSUME StatistiquesInv, NEW f \in factures, NEW G \in SUBSET FacturesPossibles,
           factures' = (factures \ {f}) \cup G, \A g \in G : g.id = f.id,
           Croise(f, TRUE) \in croises', NEW jour
    PROVE  EcartMarque(Chiffres(jour), Chiffres(jour)', croises')
<1>. DEFINE Cles(h) == [h EXCEPT !.statut = "emis"]
            E(F) == {h \in F : Emise(h) /\ AuPlus(h.date, jour)}
<1>1. Chiffres(jour) = {Cles(h) : h \in E(factures)}
  BY DEF Chiffres
<1>2. Chiffres(jour)' = {Cles(h) : h \in E(factures')}
  BY DEF Chiffres, Emise
<1>3. \A h \in FacturesPossibles : Cles(h).id = h.id
  BY DEF FacturesPossibles
<1>4. f \in FacturesPossibles
  BY DEF StatistiquesInv, TypeOK
<1>5. \A h \in E(factures) : h \in E(factures') \/ h = f
  OBVIOUS
<1>6. \A h \in E(factures') : h \in E(factures) \/ h \in G
  OBVIOUS
<1>. HIDE DEF Cles, E
<1>7. \A x \in Chiffres(jour) \ Chiffres(jour)' : x.id = f.id
  BY <1>1, <1>2, <1>3, <1>4, <1>5
<1>8. \A x \in Chiffres(jour)' \ Chiffres(jour) : x.id = f.id
  BY <1>1, <1>2, <1>3, <1>6
<1>9. \A x : x.id = f.id => Croise(x, TRUE) = Croise(f, TRUE)
  BY DEF Croise
<1>. QED  BY <1>7, <1>8, <1>9 DEF EcartMarque

\* A request that read the row as it is leaves a draft, or issues it on a later day.
LEMMA ValiderSansEffet ==
    ASSUME StatistiquesInv, NEW r \in Lues, NEW w \in FacturesPossibles, Valider(r, w),
           NEW jour, w.statut = "brouillon" \/ Avant(jour, w.date)
    PROVE  EcartMarque(Chiffres(jour), Chiffres(jour)', croises')
<1>1. PICK f \in factures : /\ f.id = r.ligne.id
                            /\ Remplacer(f, Reecrite(r.ligne, w, f))
                            /\ Croiser(r, f, Reecrite(r.ligne, w, f))
  BY DEF Valider
<1>. DEFINE g == Reecrite(r.ligne, w, f)
<1>2. f \in FacturesPossibles /\ r.ligne \in FacturesPossibles /\ r.ligne.statut = "brouillon"
  BY LuesSures DEF StatistiquesInv, TypeOK
<1>3. /\ g \in FacturesPossibles /\ g.id = f.id
      /\ g.statut = Colonne(r.ligne.statut, w.statut, f.statut)
      /\ g.date = Colonne(r.ligne.date, w.date, f.date)
  BY <1>2, RangeeReecrite
<1>4. factures' = (factures \ {f}) \cup {g} /\ Croiser(r, f, g)
  BY <1>1 DEF Remplacer
<1>. HIDE DEF g
<1>5. CASE f # r.ligne /\ (Emise(f) \/ Emise(g))
  <2>1. Croise(f, Emise(f) \/ Emise(g)) \in croises'
    BY <1>4, <1>5 DEF Croiser
  <2>2. (Emise(f) \/ Emise(g)) = TRUE
    BY <1>5
  <2>3. Croise(f, TRUE) \in croises'
    BY <2>1, <2>2, Zenon
  <2>4. {g} \in SUBSET FacturesPossibles /\ \A h \in {g} : h.id = f.id
    BY <1>3
  <2>. QED  BY <1>4, <2>3, <2>4, EcritureMarquee
<1>6. CASE ~Emise(f) /\ ~Emise(g)
  BY <1>4, <1>6, BrouillonsSansEffet
<1>7. CASE f = r.ligne /\ (Emise(f) \/ Emise(g))
  <2>1. ~Emise(f) /\ g.statut = w.statut /\ g.date = w.date
    BY <1>2, <1>3, <1>7 DEF Colonne, Emise
  <2>2. ~AuPlus(g.date, jour)
    BY <1>7, <2>1 DEF AuPlus, Emise
  <2>3. {h \in factures' : Emise(h) /\ AuPlus(h.date, jour)}
        = {h \in factures : Emise(h) /\ AuPlus(h.date, jour)}
    BY <1>4, <2>1, <2>2
  <2>4. Chiffres(jour) = Chiffres(jour)'
    BY <2>3 DEF Chiffres, Emise
  <2>. QED  BY <2>4, SansEcart
<1>. QED  BY <1>5, <1>6, <1>7

LEMMA SuppressionSansEffet ==
    ASSUME StatistiquesInv, NEW r \in Lues, SupprimerBrouillon(r), NEW jour
    PROVE  EcartMarque(Chiffres(jour), Chiffres(jour)', croises')
<1>1. PICK f \in factures : factures' = factures \ {f} /\ Croiser(r, f, f)
  BY DEF SupprimerBrouillon
<1>2. CASE Emise(f)
  <2>1. f # r.ligne
    BY <1>2, LuesSures DEF Emise
  <2>2. Croise(f, Emise(f) \/ Emise(f)) \in croises'
    BY <1>1, <2>1 DEF Croiser
  <2>3. (Emise(f) \/ Emise(f)) = TRUE
    BY <1>2
  <2>4. Croise(f, TRUE) \in croises'
    BY <2>2, <2>3, Zenon
  <2>. DEFINE G == {}
  <2>5. /\ factures' = (factures \ {f}) \cup G
        /\ G \in SUBSET FacturesPossibles /\ \A h \in G : h.id = f.id
    BY <1>1
  <2>. HIDE DEF G
  <2>. QED  BY <2>4, <2>5, EcritureMarquee
<1>3. CASE ~Emise(f)
  BY <1>1, <1>3, BrouillonsSansEffet
<1>. QED  BY <1>2, <1>3

\* A transmission changes the status, which the figures leave out.
LEMMA TransmissionSansEffet ==
    ASSUME StatistiquesInv, NEW f \in factures, NEW statut \in StatutsEmis,
           Transmettre(f, statut), NEW jour
    PROVE  EcartMarque(Chiffres(jour), Chiffres(jour)', croises')
<1>. DEFINE g == [f EXCEPT !.statut = statut]
            Cles(h) == [h EXCEPT !.statut = "emis"]
            E(F) == {h \in F : Emise(h) /\ AuPlus(h.date, jour)}
<1>1. f \in FacturesPossibles
  BY DEF StatistiquesInv, TypeOK
<1>2. Emise(g) /\ g.date = f.date
  BY <1>1, StatutChange
<1>3. Emise(f)
  BY DEF Transmettre, Emise
<1>4. Cles(g) = Cles(f)
  BY <1>1 DEF FacturesPossibles
<1>5. factures' = (factures \ {f}) \cup {g}
  BY DEF Transmettre, Remplacer
<1>6. Chiffres(jour) = {Cles(h) : h \in E(factures)}
  BY DEF Chiffres
<1>7. Chiffres(jour)' = {Cles(h) : h \in E(factures')}
  BY DEF Chiffres, Emise
<1>8. \A h \in E(factures') : h \in E(factures) \/ (h = g /\ f \in E(factures))
  BY <1>2, <1>3, <1>5
<1>9. \A h \in E(factures) : h \in E(factures') \/ (h = f /\ g \in E(factures'))
  BY <1>2, <1>3, <1>5
<1>. HIDE DEF g, Cles, E
<1>10. Chiffres(jour) = Chiffres(jour)'
  BY <1>4, <1>6, <1>7, <1>8, <1>9
<1>. QED  BY <1>10, SansEcart

LEMMA EtapeCloseFigee ==
    ASSUME StatistiquesInv, [Next]_vars, NEW jour, Avant(jour, aujourdhui),
           \A r \in enCours : r.op = "valider" => Avant(jour, r.jour)
    PROVE  EcartMarque(Chiffres(jour), Chiffres(jour)', croises')
<1>. DEFINE But == EcartMarque(Chiffres(jour), Chiffres(jour)', croises')
<1>1. ASSUME NEW e \in Entreprises, NEW s \in Saisies, CreerBrouillon(e, s)
      PROVE  But
  <2>1. factures' = factures \cup {Facture(dernierId + 1, e, s, SansOrigine)}
    BY <1>1 DEF CreerBrouillon, Ajouter
  <2>2. ~Emise(Facture(dernierId + 1, e, s, SansOrigine))
    BY DEF Emise, Facture
  <2>. QED  BY <2>1, <2>2, BrouillonsSansEffet
<1>2. ASSUME NEW f \in factures, GenererAvoir(f)
      PROVE  But
  <2>1. factures' = factures \cup {Avoir(f)}
    BY <1>2 DEF GenererAvoir, Ajouter
  <2>2. f \in FacturesPossibles
    BY DEF StatistiquesInv, TypeOK
  <2>3. ~Emise(Avoir(f))
    BY <2>2 DEF Emise, FacturesPossibles, Avoir
  <2>. QED  BY <2>1, <2>3, BrouillonsSansEffet
<1>3. ASSUME NEW f \in factures, NEW statut \in StatutsEmis \ {"validee"},
             Transmettre(f, statut)
      PROVE  But
  BY <1>3, TransmissionSansEffet
<1>4. ASSUME NEW r \in Lues, NEW s \in Saisies, ModifierBrouillon(r, s)
      PROVE  But
  <2>1. r.ligne.id \in Nat /\ r.ligne.entreprise \in Entreprises /\ r.ligne.origine \in Nat
    BY LuesSures DEF FacturesPossibles
  <2>. QED  BY <1>4, <2>1, FactureSaisie, ValiderSansEffet DEF ModifierBrouillon
<1>5. ASSUME NEW r \in Lues, FinirValidation(r)
      PROVE  But
  <2>1. r.ligne \in FacturesPossibles /\ r.jour \in Moments /\ Avant(jour, r.jour)
    BY <1>5, LuesSures DEF FinirValidation
  <2>2. FactureValidee(r.ligne, r.jour) \in FacturesPossibles
        /\ FactureValidee(r.ligne, r.jour).date = r.jour
    BY <2>1, Validee
  <2>. QED  BY <1>5, <2>1, <2>2, ValiderSansEffet DEF FinirValidation
<1>6. ASSUME NEW r \in Lues, SupprimerBrouillon(r)
      PROVE  But
  BY <1>6, SuppressionSansEffet
<1>7. CASE UNCHANGED factures
  BY <1>7, BrouillonsSansEffet
<1>8. ASSUME NEW r \in Lectures, PreparerEcriture(r)
      PROVE  But
  BY <1>7, <1>8 DEF PreparerEcriture
<1>9. ASSUME NEW r \in enCours, Abandonner(r)
      PROVE  But
  BY <1>7, <1>9 DEF Abandonner
<1>10. UNCHANGED factures => But
  BY <1>7
<1>. HIDE DEF But
<1>11. ASSUME Ecrire
       PROVE  But
  BY <1>1, <1>2, <1>3, <1>4, <1>5, <1>6, <1>8, <1>9, <1>11 DEF Ecrire
<1>12. ASSUME ~Ecrire
       PROVE  But
  <2>1. UNCHANGED factures
    BY <1>12
    DEF Next, vars, Authentifier, Commencer, Interroger, Repondre, JourSuivant, ecritures
  <2>. QED  BY <1>10, <2>1
<1>. QED  BY <1>11, <1>12 DEF But

\* The figures of a period that is over change only for the documents that a
\* stale write hits, for any number of documents, companies and crossing
\* requests, once the validations that read the clock before its end are over
\* (service.py:217-224, 493-497).
THEOREM PeriodesClosesFigees == Spec => PeriodeCloseFigee
<1>1. ASSUME StatistiquesInv, [Next]_vars
      PROVE  \A jour \in {f.date : f \in factures'} \cup {f.date : f \in factures} :
                /\ Avant(jour, aujourdhui)
                /\ \A r \in enCours : r.op = "valider" => Avant(jour, r.jour)
                => \A f \in (Chiffres(jour) \ Chiffres(jour)')
                            \cup (Chiffres(jour)' \ Chiffres(jour)) : Croise(f, TRUE) \in croises'
  BY <1>1, EtapeCloseFigee DEF EcartMarque
<1>. QED  BY <1>1, InvariantDesStatistiques, PTL DEF Spec, PeriodeCloseFigee, Croise
-----------------------------------------------------------------------------
(* What a snapshot shows: the table as some commit left it *)

\* A set of documents such as the table holds: a credit note that names an
\* origin was generated from it, an issued document that is still there.
RegistreSain(F) ==
    /\ F \subseteq FacturesPossibles /\ IsFiniteSet(F)
    /\ \A f, g \in F : f.id = g.id => f = g
    /\ \A f \in F : f.id # SansOrigine
    /\ \A a \in F : a.origine # SansOrigine =>
          a.type = "avoir" /\ \E f \in F : f.id = a.origine /\ Emise(f)

\* What the requests under way have read of linked credit notes.
AvoirsLus == \A r \in enCours : r.ligne.origine # SansOrigine => r.ligne.type = "avoir"

\* The results already there are those of the snapshot and of the request.
ReponseSuivie ==
    /\ RegistreSain(factures) /\ RegistreSain(vue) /\ AvoirsLus
    /\ DOMAIN reponse # {} => demande.phase = "calcul"
    /\ \A q \in DOMAIN reponse : reponse[q] = Resultat(q, vue, demande)

LEMMA RegistreVide == RegistreSain({})
BY FS_EmptySet DEF RegistreSain

LEMMA RegistreAjout ==
    ASSUME NEW F, RegistreSain(F), NEW g \in FacturesPossibles,
           g.id # SansOrigine, \A f \in F : f.id # g.id,
           g.origine # SansOrigine =>
              g.type = "avoir" /\ \E f \in F : f.id = g.origine /\ Emise(f)
    PROVE  RegistreSain(F \cup {g})
<1>1. IsFiniteSet(F \cup {g})
  BY FS_AddElement DEF RegistreSain
<1>2. \A f, h \in F \cup {g} : f.id = h.id => f = h
  BY DEF RegistreSain
<1>. QED  BY <1>1, <1>2 DEF RegistreSain

\* A row that no credit note names can go.
LEMMA RegistreRetrait ==
    ASSUME NEW F, RegistreSain(F), NEW f \in F, \A a \in F : a.origine # f.id
    PROVE  RegistreSain(F \ {f})
<1>1. IsFiniteSet(F \ {f})
  BY FS_RemoveElement DEF RegistreSain
<1>2. \A a \in F \ {f} : a.origine # SansOrigine =>
          a.type = "avoir" /\ \E o \in F \ {f} : o.id = a.origine /\ Emise(o)
  BY DEF RegistreSain
<1>. QED  BY <1>1, <1>2 DEF RegistreSain

\* A row that is rewritten keeps its id and its origin; an issued one stays so.
LEMMA RegistreRemplace ==
    ASSUME NEW F, RegistreSain(F), NEW f \in F, NEW g \in FacturesPossibles,
           g.id = f.id, g.origine = f.origine,
           g.type = f.type \/ f.origine = SansOrigine,
           Emise(f) => Emise(g)
    PROVE  RegistreSain((F \ {f}) \cup {g})
<1>. DEFINE G == (F \ {f}) \cup {g}
<1>1. IsFiniteSet(G)
  BY FS_RemoveElement, FS_AddElement DEF RegistreSain
<1>2. \A h \in F \ {f} : h.id # g.id
  BY DEF RegistreSain
<1>3. \A h, k \in G : h.id = k.id => h = k
  BY <1>2 DEF RegistreSain
<1>4. ASSUME NEW n, \E o \in F : o.id = n /\ Emise(o)
      PROVE  \E o \in G : o.id = n /\ Emise(o)
  BY <1>4
<1>5. \A a \in G : a.origine # SansOrigine =>
          a.type = "avoir" /\ \E o \in G : o.id = a.origine /\ Emise(o)
  <2> SUFFICES ASSUME NEW a \in G, a.origine # SansOrigine
               PROVE  a.type = "avoir" /\ \E o \in G : o.id = a.origine /\ Emise(o)
    OBVIOUS
  <2>1. \E b \in F : b.origine = a.origine /\ b.type = a.type
    BY DEF RegistreSain
  <2>2. PICK b \in F : b.origine = a.origine /\ b.type = a.type
    BY <2>1
  <2>3. b.type = "avoir" /\ \E o \in F : o.id = b.origine /\ Emise(o)
    BY <2>2 DEF RegistreSain
  <2>. QED  BY <1>4, <2>2, <2>3
<1>6. G \subseteq FacturesPossibles /\ \A h \in G : h.id # SansOrigine
  BY DEF RegistreSain
<1>. QED  BY <1>1, <1>3, <1>5, <1>6 DEF RegistreSain

\* A linked credit note keeps its type, whatever has changed since it was read.
LEMMA ValiderRegistre ==
    ASSUME StatistiquesInv, RegistreSain(factures), AvoirsLus,
           NEW r \in Lues, NEW w \in FacturesPossibles, Valider(r, w),
           w.type = r.ligne.type \/ r.ligne.origine = SansOrigine,
           w.statut \in {"brouillon", "validee"}
    PROVE  RegistreSain(factures') /\ enCours' \subseteq enCours
<1>1. PICK f \in factures : f.id = r.ligne.id /\ Remplacer(f, Reecrite(r.ligne, w, f))
  BY DEF Valider
<1>. DEFINE g == Reecrite(r.ligne, w, f)
<1>2. /\ f \in FacturesPossibles /\ r.ligne \in FacturesPossibles
      /\ r.ligne.statut = "brouillon" /\ f.origine = r.ligne.origine
  BY <1>1, LuesSures DEF StatistiquesInv, TypeOK
<1>3. /\ g \in FacturesPossibles /\ g.id = f.id /\ g.origine = f.origine
      /\ g.type = Colonne(r.ligne.type, w.type, f.type)
      /\ g.statut = Colonne(r.ligne.statut, w.statut, f.statut)
  BY <1>2, RangeeReecrite
<1>4. factures' = (factures \ {f}) \cup {g}
  BY <1>1 DEF Remplacer
<1>. HIDE DEF g
<1>5. g.type = f.type \/ f.origine = SansOrigine
  BY <1>2, <1>3 DEF Colonne
<1>6. Emise(f) => Emise(g)
  BY <1>2, <1>3 DEF Colonne, Emise
<1>7. enCours' \subseteq enCours
  BY DEF Valider, Repondue
<1>. QED  BY <1>3, <1>4, <1>5, <1>6, <1>7, RegistreRemplace

LEMMA EcrireRegistre ==
    ASSUME StatistiquesInv, RegistreSain(factures), AvoirsLus, Ecrire
    PROVE  RegistreSain(factures') /\ AvoirsLus'
<1>. USE DEF StatistiquesInv
<1>. DEFINE But == RegistreSain(factures') /\ AvoirsLus'
<1>0. enCours' \subseteq enCours => AvoirsLus'
  BY DEF AvoirsLus
<1>1. dernierId + 1 \in Nat /\ dernierId \in Nat /\ aujourdhui \in Moments
  BY HypStatistiques DEF TypeOK
<1>2. \A f \in factures : /\ f \in FacturesPossibles /\ f.id # dernierId + 1
                           /\ dernierId + 1 # SansOrigine
  BY <1>1 DEF TypeOK, FacturesPossibles, SansOrigine
<1>3. ASSUME NEW e \in Entreprises, NEW s \in Saisies, CreerBrouillon(e, s)
      PROVE  But
  <2>. DEFINE g == Facture(dernierId + 1, e, s, SansOrigine)
  <2>1. g \in FacturesPossibles /\ g.id = dernierId + 1
    BY <1>1, FactureSaisie DEF SansOrigine
  <2>2. g.origine = SansOrigine
    BY DEF Facture
  <2>3. factures' = factures \cup {g} /\ enCours' = enCours
    BY <1>3 DEF CreerBrouillon, Ajouter
  <2>4. g.id # SansOrigine
    BY <1>1, <2>1 DEF SansOrigine
  <2>. HIDE DEF g
  <2>. QED  BY <1>0, <1>2, <2>1, <2>2, <2>3, <2>4, RegistreAjout
<1>4. ASSUME NEW r \in Lues, NEW s \in Saisies, ModifierBrouillon(r, s)
      PROVE  But
  <2>. DEFINE w == Facture(r.ligne.id, r.ligne.entreprise, s, r.ligne.origine)
  <2>1. r.ligne.id \in Nat /\ r.ligne.entreprise \in Entreprises /\ r.ligne.origine \in Nat
    BY LuesSures DEF FacturesPossibles
  <2>2. w \in FacturesPossibles /\ w.statut = "brouillon"
    BY <2>1, FactureSaisie
  <2>3. w.type = s.type
    BY DEF Facture
  <2>4. Valider(r, w) /\ (s.type = r.ligne.type \/ r.ligne.origine = SansOrigine)
    BY <1>4 DEF ModifierBrouillon
  <2>. HIDE DEF w
  <2>. QED  BY <1>0, <2>2, <2>3, <2>4, ValiderRegistre
<1>5. ASSUME NEW r \in Lues, SupprimerBrouillon(r)
      PROVE  But
  <2>1. PICK f \in factures : f.id = r.ligne.id /\ factures' = factures \ {f}
    BY <1>5 DEF SupprimerBrouillon
  <2>2. \A a \in factures : a.origine # f.id
    BY <1>5, <2>1 DEF SupprimerBrouillon
  <2>3. enCours' \subseteq enCours
    BY <1>5 DEF SupprimerBrouillon, Repondue
  <2>. QED  BY <1>0, <2>1, <2>2, <2>3, RegistreRetrait
<1>6. ASSUME NEW f \in factures, GenererAvoir(f)
      PROVE  But
  <2>. DEFINE g == Avoir(f)
  <2>1. g \in FacturesPossibles /\ g.id = dernierId + 1
    BY <1>1, <1>2, AvoirGenere
  <2>2. g.origine = f.id /\ g.type = "avoir"
    BY <1>2 DEF Avoir, FacturesPossibles
  <2>3. factures' = factures \cup {g} /\ Emise(f) /\ enCours' = enCours
    BY <1>6 DEF GenererAvoir, Ajouter
  <2>4. g.id # SansOrigine
    BY <1>1, <2>1 DEF SansOrigine
  <2>. HIDE DEF g
  <2>. QED  BY <1>0, <1>2, <2>1, <2>2, <2>3, <2>4, RegistreAjout
<1>7. ASSUME NEW f \in factures, NEW statut \in StatutsEmis \ {"validee"},
             Transmettre(f, statut)
      PROVE  But
  <2>. DEFINE g == [f EXCEPT !.statut = statut]
  <2>1. g \in FacturesPossibles /\ Emise(g) /\ g.id = f.id /\ g.origine = f.origine
    BY <1>2, StatutChange
  <2>2. g.type = f.type
    BY <1>2 DEF FacturesPossibles
  <2>3. factures' = (factures \ {f}) \cup {g} /\ enCours' = enCours
    BY <1>7 DEF Transmettre, Remplacer
  <2>. HIDE DEF g
  <2>. QED  BY <1>0, <2>1, <2>2, <2>3, RegistreRemplace
<1>8. ASSUME NEW r \in Lues, FinirValidation(r)
      PROVE  But
  <2>. DEFINE w == FactureValidee(r.ligne, r.jour)
  <2>1. r.ligne \in FacturesPossibles /\ r.jour \in Moments
    BY LuesSures
  <2>2. w \in FacturesPossibles /\ w.statut = "validee" /\ w.type = r.ligne.type
    BY <2>1, Validee
  <2>3. Valider(r, w)
    BY <1>8 DEF FinirValidation
  <2>. HIDE DEF w
  <2>. QED  BY <1>0, <2>2, <2>3, ValiderRegistre
<1>9. ASSUME NEW r \in Lectures, PreparerEcriture(r)
      PROVE  But
  <2>1. factures' = factures /\ enCours' = enCours \cup {r}
    BY <1>9 DEF PreparerEcriture
  <2>2. r.ligne \in factures
    BY DEF Lectures, Lecture, Brouillons
  <2>3. r.ligne.origine # SansOrigine => r.ligne.type = "avoir"
    BY <2>2 DEF RegistreSain
  <2>. QED  BY <2>1, <2>3 DEF AvoirsLus
<1>10. ASSUME NEW r \in enCours, Abandonner(r)
      PROVE  But
  <2>1. factures' = factures /\ enCours' \subseteq enCours
    BY <1>10 DEF Abandonner
  <2>. QED  BY <1>0, <2>1
<1>. HIDE DEF But
<1>11. But
  BY <1>3, <1>4, <1>5, <1>6, <1>7, <1>8, <1>9, <1>10 DEF Ecrire
<1>. QED  BY <1>11 DEF But

LEMMA SuivieEtape ==
    ASSUME StatistiquesInv, ReponseSuivie, [Next]_vars
    PROVE  ReponseSuivie'
<1>0. enCours' = enCours => AvoirsLus'
  BY DEF ReponseSuivie, AvoirsLus
<1>1. CASE Ecrire
  <2>1. UNCHANGED <<demande, vue, reponse>>
    BY <1>1 DEF Ecrire, CreerBrouillon, ModifierBrouillon, SupprimerBrouillon, Abandonner,
                PreparerEcriture, GenererAvoir, Transmettre, FinirValidation, Ajouter,
                Valider, lecture
  <2>2. RegistreSain(factures') /\ AvoirsLus'
    BY <1>1, EcrireRegistre DEF ReponseSuivie
  <2>3. RegistreSain(vue')
    BY <2>1 DEF ReponseSuivie
  <2>4. \A q \in DOMAIN reponse' : reponse'[q] = Resultat(q, vue', demande')
    BY <2>1 DEF ReponseSuivie
  <2>. QED  BY <2>1, <2>2, <2>3, <2>4 DEF ReponseSuivie
<1>2. ASSUME NEW e \in Entreprises, Authentifier(e)
      PROVE  ReponseSuivie'
  <2>1. DOMAIN reponse' = {} /\ vue' = factures /\ UNCHANGED <<factures, enCours>>
    BY <1>2 DEF Authentifier, ReponseSuivie, ecritures
  <2>. QED  BY <1>0, <2>1 DEF ReponseSuivie
<1>3. ASSUME NEW p \in Periodes, Commencer(p)
      PROVE  ReponseSuivie'
  <2>1. DOMAIN reponse' = {} /\ UNCHANGED <<factures, enCours>> /\ vue' \in {vue, {}}
    BY <1>3 DEF Commencer, ReponseSuivie, ecritures
  <2>2. RegistreSain(vue')
    BY <2>1, RegistreVide DEF ReponseSuivie
  <2>. QED  BY <1>0, <2>1, <2>2 DEF ReponseSuivie
<1>4. CASE Interroger
  <2>. DEFINE q == Requetes[Cardinality(DOMAIN reponse) + 1]
  <2>1. /\ UNCHANGED <<factures, enCours, demande, vue>> /\ demande.phase = "calcul"
        /\ reponse' = [r \in DOMAIN reponse \cup {q} |->
                          IF r = q THEN Resultat(q, vue, demande) ELSE reponse[r]]
    BY <1>4 DEF Interroger, ecritures, TableLue
  <2>. HIDE DEF q
  <2>2. \A r \in DOMAIN reponse' : reponse'[r] = Resultat(r, vue, demande)
    BY <2>1 DEF ReponseSuivie
  <2>3. \A r \in DOMAIN reponse' : reponse'[r] = Resultat(r, vue', demande')
    BY <2>1, <2>2
  <2>4. RegistreSain(factures') /\ RegistreSain(vue') /\ demande'.phase = "calcul"
    BY <2>1 DEF ReponseSuivie
  <2>. QED  BY <1>0, <2>1, <2>3, <2>4 DEF ReponseSuivie
<1>5. CASE Repondre
  <2>1. DOMAIN reponse' = {} /\ UNCHANGED <<factures, enCours>> /\ vue' = {}
    BY <1>5 DEF Repondre, ecritures
  <2>. QED  BY <1>0, <2>1, RegistreVide DEF ReponseSuivie
<1>6. CASE JourSuivant \/ UNCHANGED vars
  <2>1. UNCHANGED <<factures, enCours, demande, vue, reponse>>
    BY <1>6 DEF JourSuivant, vars, ecritures, lecture
  <2>2. \A q \in DOMAIN reponse' : reponse'[q] = Resultat(q, vue', demande')
    BY <2>1 DEF ReponseSuivie
  <2>3. RegistreSain(factures') /\ RegistreSain(vue')
    BY <2>1 DEF ReponseSuivie
  <2>. QED  BY <1>0, <2>1, <2>2, <2>3 DEF ReponseSuivie
<1>. QED  BY <1>1, <1>2, <1>3, <1>4, <1>5, <1>6 DEF Next

LEMMA InvariantDeLaReponse == Spec => []ReponseSuivie
<1>1. Init => ReponseSuivie
  BY RegistreVide DEF Init, ReponseSuivie, AvoirsLus
<1>2. StatistiquesInv /\ ReponseSuivie /\ [Next]_vars => ReponseSuivie'
  BY SuivieEtape
<1>. QED  BY <1>1, <1>2, InvariantDesStatistiques, PTL DEF Spec

-----------------------------------------------------------------------------
(* Sums of documents *)

Signes(c) == [f \in FacturesPossibles |-> MontantSigne(f, c)]

LEMMA SigneEntier ==
    ASSUME NEW f \in FacturesPossibles, NEW c \in Colonnes
    PROVE  MontantSigne(f, c) \in Int
<1>1. f.montants[c] \in Int
  BY DEF FacturesPossibles
<1>. QED  BY <1>1 DEF MontantSigne

\* The column of a set of documents adds up to a sum of the lemmas.
LEMMA SommeSignee ==
    ASSUME NEW F, F \subseteq FacturesPossibles, IsFiniteSet(F), NEW c \in Colonnes
    PROVE  Somme(F, c) = SommeDe(Signes(c), F) /\ SommeDe(Signes(c), F) \in Int
<1>. DEFINE s == CHOOSE g : g = [T \in SUBSET F |->
                    IF T = {} THEN 0
                    ELSE MontantSigne(CHOOSE x \in T : TRUE, c) + g[T \ {CHOOSE x \in T : TRUE}]]
<1>1. Somme(F, c) = s[F]
  BY DEF Somme, MapThenSumSet, MapThenFoldSet
<1>2. \A T \in SUBSET F : T # {} => Signes(c)[Choix(T)] = MontantSigne(CHOOSE x \in T : TRUE, c)
  BY DEF Choix, Signes
<1>3. EstSomme(s, Signes(c), F)
  <2>1. PICK g : EstSomme(g, Signes(c), F)
    BY SommeExiste
  <2>2. g = [T \in SUBSET F |->
                IF T = {} THEN 0
                ELSE MontantSigne(CHOOSE x \in T : TRUE, c) + g[T \ {CHOOSE x \in T : TRUE}]]
    BY <1>2, <2>1 DEF EstSomme, Choix
  <2>3. s = [T \in SUBSET F |->
                IF T = {} THEN 0
                ELSE MontantSigne(CHOOSE x \in T : TRUE, c) + s[T \ {CHOOSE x \in T : TRUE}]]
    BY <2>2
  <2>. HIDE DEF s
  <2>. QED  BY <1>2, <2>3 DEF EstSomme, Choix
<1>. HIDE DEF s
<1>4. s[F] = SommeDe(Signes(c), F)
  <2>1. PICK g : EstSomme(g, Signes(c), F) /\ SommeDe(Signes(c), F) = g[F]
    BY SommeDef
  <2>2. s[F] = g[F]
    BY <1>3, <2>1, SommeUnique
  <2>. QED  BY <2>1, <2>2
<1>5. \A x \in F : Signes(c)[x] \in Int
  BY SigneEntier DEF Signes
<1>6. SommeDe(Signes(c), F) \in Int
  BY <1>5, SommeEntiere
<1>. QED  BY <1>1, <1>4, <1>6

\* A credit note and the invoice it settles count for nothing together.
LEMMA SoldeNul ==
    ASSUME RegistreSain(vue), NEW f \in vue, NEW a \in vue, Solde(a, f), NEW c \in Colonnes
    PROVE  Signes(c)[a] = -Signes(c)[f] /\ f.type = "facture" /\ a.type = "avoir"
<1>1. f \in FacturesPossibles /\ a \in FacturesPossibles /\ f.id # SansOrigine
  BY DEF RegistreSain
<1>2. a.origine = f.id
  BY DEF Solde
<1>3. f.type = "facture" /\ a.type = "avoir"
  BY <1>1, <1>2 DEF RegistreSain, Solde
<1>4. f.montants[c] \in Int /\ f.montants[c] >= 0 /\ a.montants[c] = -f.montants[c]
  BY <1>1 DEF Solde, FacturesPossibles
<1>5. MontantSigne(f, c) = f.montants[c] /\ MontantSigne(a, c) = a.montants[c]
  BY <1>3, <1>4 DEF MontantSigne
<1>. QED  BY <1>1, <1>3, <1>4, <1>5 DEF Signes

\* So do all those of a period.
LEMMA SoldesNuls ==
    ASSUME RegistreSain(vue), NEW P \in SUBSET vue, \A f \in P : Emise(f), NEW c \in Colonnes
    PROVE  LET soldees == {f \in P : \E a \in P : Solde(a, f) \/ Solde(f, a)}
           IN Somme(P, c) = Somme(P \ soldees, c)
<1>. DEFINE soldees == {f \in P : \E a \in P : Solde(a, f) \/ Solde(f, a)}
            X == {f \in P : \E a \in P : Solde(a, f)}
            A == {a \in P : \E f \in P : Solde(a, f)}
            h == [f \in X |-> CHOOSE a \in P : Solde(a, f)]
            v == Signes(c)
<1>1. /\ vue \subseteq FacturesPossibles /\ IsFiniteSet(vue)
      /\ \A T \in SUBSET vue : IsFiniteSet(T)
      /\ \A f, g \in vue : f.id = g.id => f = g
  BY FS_Subset DEF RegistreSain
<1>2. \A T \in SUBSET vue : IsFiniteSet(T) /\ T \subseteq FacturesPossibles
                            /\ Somme(T, c) = SommeDe(v, T) /\ SommeDe(v, T) \in Int
  BY <1>1, SommeSignee
<1>3. \A x \in vue : v[x] \in Int
  BY <1>1, SigneEntier DEF Signes
<1>4. \A f \in X : h[f] \in P /\ Solde(h[f], f)
  OBVIOUS
<1>5. \A a \in P, b \in P, f \in P : Solde(a, f) /\ Solde(b, f) => a = b
  <2> SUFFICES ASSUME NEW a \in P, NEW b \in P, NEW f \in P, Solde(a, f), Solde(b, f)
               PROVE  a = b
    OBVIOUS
  <2>1. a.id <= b.id /\ b.id <= a.id
    BY DEF Solde
  <2>2. a.id \in Nat /\ b.id \in Nat
    BY <1>1 DEF FacturesPossibles
  <2>. QED  BY <1>1, <2>1, <2>2
<1>6. \A a \in P, f \in P, g \in P : Solde(a, f) /\ Solde(a, g) => f = g
  BY <1>1 DEF Solde
<1>7. \A f, g \in X : h[f] = h[g] => f = g
  BY <1>4, <1>6
<1>8. A = ImageDe(h, X)
  <2>1. \A a \in A : \E f \in X : a = h[f]
    <3> TAKE a \in A
    <3>1. PICK f \in P : Solde(a, f)
      OBVIOUS
    <3>2. f \in X
      BY <3>1
    <3>3. h[f] \in P /\ Solde(h[f], f)
      BY <1>4, <3>2
    <3>. QED  BY <1>5, <3>1, <3>2, <3>3
  <2>2. \A f \in X : h[f] \in A
    BY <1>4
  <2>. HIDE DEF X, A, h
  <2>. QED  BY <2>1, <2>2 DEF ImageDe
<1>9. \A f \in X : v[h[f]] = -1 * v[f] /\ v[f] \in Int
  BY <1>3, <1>4, SoldeNul
<1>10. X \cap A = {}
  BY SoldeNul
<1>11. soldees = X \cup A
  OBVIOUS
<1>12. X \in SUBSET vue /\ A \in SUBSET vue /\ soldees \in SUBSET vue /\ P \ soldees \in SUBSET vue
  OBVIOUS
<1>. HIDE DEF X, A, h, v, soldees
<1>13. SommeDe(v, A) = -1 * SommeDe(v, X)
  <2>1. IsFiniteSet(X) /\ \A f \in X : v[f] \in Int
    BY <1>2, <1>9, <1>12
  <2>2. PICK signe \in {1, -1} : signe = -1
    OBVIOUS
  <2>3. \A f \in X : v[h[f]] = signe * v[f]
    BY <1>9, <2>2
  <2>4. SommeDe(v, A) = signe * SommeDe(v, X)
    BY <1>7, <1>8, <2>1, <2>3, SommeImage
  <2>5. SommeDe(v, X) \in Int
    BY <1>2, <1>12
  <2>. QED  BY <2>2, <2>4, <2>5
<1>14. SommeDe(v, X \cup A) = SommeDe(v, X) + SommeDe(v, A)
  BY <1>2, <1>3, <1>10, <1>12, SommeUnion
<1>15. SommeDe(v, soldees) = 0
  BY <1>2, <1>11, <1>12, <1>13, <1>14
<1>16. SommeDe(v, soldees \cup (P \ soldees)) = SommeDe(v, soldees) + SommeDe(v, P \ soldees)
  BY <1>2, <1>3, <1>12, SommeUnion
<1>17. soldees \cup (P \ soldees) = P
  BY DEF soldees
<1>18. Somme(P, c) = Somme(P \ soldees, c)
  <2>1. SommeDe(v, P) = SommeDe(v, P \ soldees)
    <3>1. SommeDe(v, P \ soldees) \in Int
      BY <1>2, <1>12
    <3>2. SommeDe(v, P) = 0 + SommeDe(v, P \ soldees)
      BY <1>15, <1>16, <1>17, Zenon
    <3>. QED  BY <3>1, <3>2
  <2>. QED  BY <1>2, <1>12, <2>1
<1>. QED  BY <1>18 DEF soldees

\* An invoice and its credit note net to zero in the three revenues of any
\* period, for any number of documents and whatever sign the other credit notes
\* were entered under (statistiques.py:16-20).
THEOREM NetDesAvoirs == Spec => []AvoirsNeutralises
<1>1. ASSUME ReponseSuivie
      PROVE  AvoirsNeutralises
  <2>. DEFINE P == DansLaDevise(Perimetre(vue, demande, FALSE))
  <2> SUFFICES ASSUME "totaux" \in DOMAIN reponse, NEW c \in Colonnes
               PROVE  LET soldees == {f \in P : \E a \in P : Solde(a, f) \/ Solde(f, a)}
                      IN reponse["totaux"].ca[c] = Somme(P \ soldees, c)
    BY DEF AvoirsNeutralises
  <2>1. reponse["totaux"] = Totaux(P, demande.aujourdhui)
    BY <1>1 DEF ReponseSuivie, Resultat
  <2>2. P \in SUBSET vue /\ \A f \in P : Emise(f)
    BY DEF Perimetre, DansLaDevise
  <2>. HIDE DEF P
  <2>3. reponse["totaux"].ca[c] = Somme(P, c)
    BY <2>1 DEF Totaux
  <2>. QED  BY <1>1, <2>2, <2>3, SoldesNuls DEF ReponseSuivie
<1>. QED  BY <1>1, InvariantDeLaReponse, PTL

-----------------------------------------------------------------------------
(* Groups *)

\* The column of a set of groups adds up to a sum of the lemmas.
LEMMA TotalDesGroupes ==
    ASSUME NEW G, IsFiniteSet(G), NEW c, NEW v, \A g \in G : v[g] = g[c]
    PROVE  Total(G, c) = SommeDe(v, G)
<1>. DEFINE s == CHOOSE h : h = [T \in SUBSET G |->
                    IF T = {} THEN 0
                    ELSE (CHOOSE x \in T : TRUE)[c] + h[T \ {CHOOSE x \in T : TRUE}]]
<1>1. Total(G, c) = s[G]
  BY DEF Total, MapThenSumSet, MapThenFoldSet
<1>2. \A T \in SUBSET G : T # {} => v[Choix(T)] = (CHOOSE x \in T : TRUE)[c]
  BY DEF Choix
<1>3. EstSomme(s, v, G)
  <2>1. PICK h : EstSomme(h, v, G)
    BY SommeExiste
  <2>2. h = [T \in SUBSET G |->
                IF T = {} THEN 0
                ELSE (CHOOSE x \in T : TRUE)[c] + h[T \ {CHOOSE x \in T : TRUE}]]
    BY <1>2, <2>1 DEF EstSomme, Choix
  <2>3. s = [T \in SUBSET G |->
                IF T = {} THEN 0
                ELSE (CHOOSE x \in T : TRUE)[c] + s[T \ {CHOOSE x \in T : TRUE}]]
    BY <2>2
  <2>. HIDE DEF s
  <2>. QED  BY <1>2, <2>3 DEF EstSomme, Choix
<1>. HIDE DEF s
<1>4. PICK h : EstSomme(h, v, G) /\ SommeDe(v, G) = h[G]
  BY SommeDef
<1>5. s[G] = h[G]
  BY <1>3, <1>4, SommeUnique
<1>. QED  BY <1>1, <1>4, <1>5

\* The groups of a GROUP BY add up to what is grouped, in each column.
LEMMA GroupesComplets ==
    ASSUME NEW P, P \subseteq FacturesPossibles, IsFiniteSet(P),
           NEW K, IsFiniteSet(K), NEW cle, \A f \in P : cle[f] \in K,
           NEW h, \A k \in K : h[k] = Groupe(k, Fibre(cle, P, k)),
           NEW G, G = ImageDe(h, K)
    PROVE  /\ Total(G, "nombre") = Cardinality(P)
           /\ Total(G, "ht") = Somme(P, "ht") /\ Total(G, "ttc") = Somme(P, "ttc")
<1>. DEFINE F(k) == Fibre(cle, P, k)
            un == [f \in P |-> 1]
            col(c) == [g \in G |-> g[c]]
<1>1. \A k \in K : F(k) \in SUBSET P /\ IsFiniteSet(F(k)) /\ F(k) \subseteq FacturesPossibles
  <2>1. \A k \in K : F(k) \in SUBSET P
    BY DEF Fibre
  <2>. HIDE DEF F
  <2>. QED  BY <2>1, FS_Subset
<1>2. \A k \in K : /\ h[k].cle = k /\ h[k].nombre = Cardinality(F(k))
                   /\ h[k].ht = Somme(F(k), "ht") /\ h[k].ttc = Somme(F(k), "ttc")
  <2> TAKE k \in K
  <2>. DEFINE g == Groupe(k, F(k))
  <2>1. /\ g.cle = k /\ g.nombre = Cardinality(F(k))
        /\ g.ht = Somme(F(k), "ht") /\ g.ttc = Somme(F(k), "ttc")
    BY DEF Groupe
  <2>2. h[k] = g
    OBVIOUS
  <2>. HIDE DEF g, F
  <2>. QED  BY <2>1, <2>2
<1>3. \A j, k \in K : h[j] = h[k] => j = k
  BY <1>2
<1>4. IsFiniteSet(G)
  BY ImageFinie
<1>5. \A k \in K : h[k] \in G
  BY DEF ImageDe
<1>6. \A k \in K : Cardinality(F(k)) = SommeDe(un, F(k))
  <2> TAKE k \in K
  <2>1. \A f \in F(k) : un[f] = 1
    BY DEF Fibre
  <2>. QED  BY <1>1, <2>1, SommeDesUns
<1>7. Cardinality(P) = SommeDe(un, P) /\ \A f \in P : un[f] \in Int
  <2>1. \A f \in P : un[f] = 1
    OBVIOUS
  <2>. QED  BY <2>1, SommeDesUns
<1>8. "ht" \in Colonnes /\ "ttc" \in Colonnes
  BY DEF Colonnes
<1>9. \A c \in Colonnes : /\ Somme(P, c) = SommeDe(Signes(c), P)
                          /\ \A f \in P : Signes(c)[f] \in Int
  BY SommeSignee, SigneEntier DEF Signes
<1>10. \A c : \A g \in G : col(c)[g] = g[c]
  OBVIOUS
<1>11. \A c : Total(G, c) = SommeDe(col(c), G)
  BY <1>4, <1>10, TotalDesGroupes
<1>12. \A k \in K : /\ col("nombre")[h[k]] = h[k].nombre
                     /\ col("ht")[h[k]] = h[k].ht /\ col("ttc")[h[k]] = h[k].ttc
  BY <1>5, <1>10
<1>13. \A k \in K : /\ Somme(F(k), "ht") = SommeDe(Signes("ht"), F(k))
                     /\ Somme(F(k), "ttc") = SommeDe(Signes("ttc"), F(k))
  <2> TAKE k \in K
  <2>. HIDE DEF F
  <2>. QED  BY <1>1, <1>8, SommeSignee
<1>14. (\A f \in P : Signes("ht")[f] \in Int) /\ \A f \in P : Signes("ttc")[f] \in Int
  BY <1>8, <1>9
<1>. HIDE DEF un, col
<1>15. SommeDe(col("nombre"), G) = SommeDe(un, P)
  <2>1. \A k \in K : col("nombre")[h[k]] = SommeDe(un, F(k))
    BY <1>2, <1>6, <1>12
  <2>. QED  BY <1>3, <1>7, <2>1, SommeParGroupes
<1>16. SommeDe(col("ht"), G) = SommeDe(Signes("ht"), P)
  <2>1. \A k \in K : col("ht")[h[k]] = SommeDe(Signes("ht"), F(k))
    BY <1>2, <1>12, <1>13
  <2>. QED  BY <1>3, <1>14, <2>1, SommeParGroupes
<1>17. SommeDe(col("ttc"), G) = SommeDe(Signes("ttc"), P)
  <2>1. \A k \in K : col("ttc")[h[k]] = SommeDe(Signes("ttc"), F(k))
    BY <1>2, <1>12, <1>13
  <2>. QED  BY <1>3, <1>14, <2>1, SommeParGroupes
<1>. QED  BY <1>7, <1>8, <1>9, <1>11, <1>15, <1>16, <1>17

LEMMA ParStatutComplet ==
    ASSUME NEW P, P \subseteq FacturesPossibles, IsFiniteSet(P)
    PROVE  /\ Total(ParStatut(P), "nombre") = Cardinality(P)
           /\ Total(ParStatut(P), "ht") = Somme(P, "ht")
           /\ Total(ParStatut(P), "ttc") = Somme(P, "ttc")
<1>. DEFINE cle == [f \in P |-> f.statut]
            K == {f.statut : f \in P}
            h == [k \in K |-> Groupe(k, Fibre(cle, P, k))]
<1>1. K = ImageDe(cle, P)
  BY DEF ImageDe
<1>2. IsFiniteSet(K)
  BY <1>1, ImageFinie
<1>3. ParStatut(P) = ImageDe(h, K)
  <2>1. \A k : {f \in P : f.statut = k} = Fibre(cle, P, k)
    BY DEF Fibre
  <2>. QED  BY <2>1 DEF ParStatut, ImageDe
<1>4. \A f \in P : cle[f] \in K
  OBVIOUS
<1>5. \A k \in K : h[k] = Groupe(k, Fibre(cle, P, k))
  OBVIOUS
<1>. HIDE DEF cle, K, h
<1>. QED  BY <1>2, <1>3, <1>4, <1>5, GroupesComplets

\* No document of the period falls outside its months.
LEMMA ParMoisComplet ==
    ASSUME NEW P, P \subseteq FacturesPossibles, IsFiniteSet(P),
           NEW d, d.min \in Bornes, d.max \in Bornes,
           \A f \in P : DansLaPeriode(f, d)
    PROVE  LET G == Range(SerieMensuelle(P, d))
           IN /\ Total(G, "nombre") = Cardinality(P)
              /\ Total(G, "ht") = Somme(P, "ht") /\ Total(G, "ttc") = Somme(P, "ttc")
<1>. DEFINE cle == [f \in P |-> f.date.mois]
            K == d.min.mois .. d.max.mois
            G == Range(SerieMensuelle(P, d))
            h == [k \in K |-> Groupe(k, Fibre(cle, P, k))]
<1>1. d.min.mois \in Int /\ d.max.mois \in Int
  BY DEF Bornes
<1>2. IsFiniteSet(K)
  BY <1>1, FS_Interval
<1>3. \A f \in P : cle[f] \in K
  <2> TAKE f \in P
  <2>1. f.date \in Moments /\ AuPlus(d.min, f.date) /\ AuPlus(f.date, d.max)
    BY DEF FacturesPossibles, DansLaPeriode
  <2>2. f.date.mois \in Nat
    BY <2>1 DEF Moments
  <2>3. d.min.mois <= f.date.mois /\ f.date.mois <= d.max.mois
    BY <1>1, <2>1, <2>2 DEF AuPlus, Avant
  <2>. QED  BY <1>1, <2>2, <2>3
<1>4. G = ImageDe(h, K)
  <2>1. \A k : ParMois(P, k) = Groupe(k, Fibre(cle, P, k))
    <3>1. \A k : {f \in P : f.date.mois = k} = Fibre(cle, P, k)
      BY DEF Fibre
    <3>. QED  BY <3>1 DEF ParMois
  <2>2. G = {ParMois(P, d.min.mois + i - 1) : i \in 1..(d.max.mois - d.min.mois + 1)}
    BY DEF Range, SerieMensuelle
  <2>3. \A k \in K : k - d.min.mois + 1 \in 1..(d.max.mois - d.min.mois + 1)
                     /\ d.min.mois + (k - d.min.mois + 1) - 1 = k
    BY <1>1
  <2>4. \A i \in 1..(d.max.mois - d.min.mois + 1) : d.min.mois + i - 1 \in K
    BY <1>1
  <2>. HIDE DEF G, K, cle
  <2>5. G = {ParMois(P, k) : k \in K}
    BY <2>2, <2>3, <2>4
  <2>. QED  BY <2>1, <2>5 DEF ImageDe
<1>6. \A k \in K : h[k] = Groupe(k, Fibre(cle, P, k))
  OBVIOUS
<1>. HIDE DEF cle, K, G, h
<1>5. /\ Total(G, "nombre") = Cardinality(P)
      /\ Total(G, "ht") = Somme(P, "ht") /\ Total(G, "ttc") = Somme(P, "ttc")
  BY <1>2, <1>3, <1>4, <1>6, GroupesComplets
<1>. QED  BY <1>5 DEF G
-----------------------------------------------------------------------------
(* The clients, in order *)

\* AvantClient ranks a finite set of groups of distinct keys from first to last.
LEMMA RangsDesGroupes ==
    ASSUME NEW G, IsFiniteSet(G), \A g \in G : g.cle \in Nat /\ g.ttc \in Int,
           \A g, h \in G : g.cle = h.cle => g = h
    PROVE  LET Devant(g) == {h \in G : AvantClient(h, g)}
           IN /\ \A g \in G : Cardinality(Devant(g)) \in 0..(Cardinality(G) - 1)
              /\ \A i \in 1..Cardinality(G) : \E g \in G : Cardinality(Devant(g)) = i - 1
              /\ \A g, h \in G : Cardinality(Devant(g)) = Cardinality(Devant(h)) => g = h
<1>. DEFINE Devant(g) == {h \in G : AvantClient(h, g)}
            n == Cardinality(G)
            rang == [g \in G |-> Cardinality(Devant(g)) + 1]
<1>1. /\ n \in Nat
      /\ \A T \in SUBSET G : IsFiniteSet(T) /\ Cardinality(T) \in Nat /\ Cardinality(T) <= n
  BY FS_Subset, FS_CardinalityType
<1>2. ASSUME NEW g \in G, NEW h \in G, AvantClient(g, h)
      PROVE  Cardinality(Devant(g)) < Cardinality(Devant(h))
  <2>1. \A k \in G : AvantClient(k, g) => AvantClient(k, h)
    BY <1>2 DEF AvantClient
  <2>2. g \in Devant(h) /\ g \notin Devant(g)
    BY <1>2 DEF AvantClient
  <2>3. Devant(g) \in SUBSET Devant(h) /\ Devant(g) # Devant(h) /\ Devant(h) \in SUBSET G
        /\ Devant(g) \in SUBSET G
    BY <2>1, <2>2
  <2>. HIDE DEF Devant
  <2>4. Cardinality(Devant(g)) <= Cardinality(Devant(h))
        /\ Cardinality(Devant(g)) # Cardinality(Devant(h))
    BY <1>1, <2>3, FS_Subset
  <2>. QED  BY <1>1, <2>3, <2>4
<1>3. \A g, h \in G : g = h \/ AvantClient(g, h) \/ AvantClient(h, g)
  BY DEF AvantClient
<1>4. \A g \in G : Cardinality(Devant(g)) \in 0..(n - 1)
  <2> TAKE g \in G
  <2>1. g \notin Devant(g)
    BY DEF AvantClient
  <2>2. Devant(g) \in SUBSET G /\ Devant(g) # G
    BY <2>1
  <2>. HIDE DEF Devant
  <2>3. Cardinality(Devant(g)) # n
    BY <2>2, FS_Subset
  <2>. QED  BY <1>1, <2>2, <2>3
<1>5. \A g, h \in G : Cardinality(Devant(g)) = Cardinality(Devant(h)) => g = h
  <2> SUFFICES ASSUME NEW g \in G, NEW h \in G,
                      Cardinality(Devant(g)) = Cardinality(Devant(h)), g # h
               PROVE  FALSE
    OBVIOUS
  <2>1. Cardinality(Devant(g)) \in Nat
    BY <1>1
  <2>. HIDE DEF Devant
  <2>. QED  BY <1>2, <1>3, <2>1
<1>6. IsFiniteSet(1..n) /\ Cardinality(1..n) = n
  <2>1. 1 \in Int /\ n \in Int
    BY <1>1
  <2>2. IsFiniteSet(1..n) /\ Cardinality(1..n) = IF 1 > n THEN 0 ELSE n - 1 + 1
    BY <2>1, FS_Interval
  <2>. QED  BY <1>1, <2>2
<1>. HIDE DEF Devant
<1>7. rang \in [G -> 1..n] /\ \A g, h \in G : rang[g] = rang[h] => g = h
  BY <1>1, <1>4, <1>5
<1>8. rang \in Injection(G, 1..n)
  BY <1>7 DEF Injection, IsInjective
<1>9. rang \in Surjection(G, 1..n)
  BY <1>6, <1>8, FS_Injection
<1>10. \A i \in 1..n : \E g \in G : Cardinality(Devant(g)) = i - 1
  <2> TAKE i \in 1..n
  <2>1. PICK g \in G : rang[g] = i
    BY <1>9 DEF Surjection
  <2>. QED  BY <1>1, <1>4, <2>1
<1>. QED  BY <1>4, <1>5, <1>10 DEF Devant

\* When none is cut off, the clients of the answer are all of them.
LEMMA TousLesClients ==
    ASSUME NEW P, P \subseteq FacturesPossibles, IsFiniteSet(P), Len(TopClients(P)) < Limite
    PROVE  LET G == Range(TopClients(P))
           IN /\ Total(G, "nombre") = Cardinality(P)
              /\ Total(G, "ht") = Somme(P, "ht") /\ Total(G, "ttc") = Somme(P, "ttc")
<1>. DEFINE cle == [f \in P |-> f.client]
            K == {f.client : f \in P}
            F(k) == {f \in P : f.client = k}
            G == {Groupe(k, F(k)) : k \in K}
            n == Cardinality(G)
            Devant(g) == {h \in G : AvantClient(h, g)}
            m == Min({Limite, n})
            h == [k \in K |-> Groupe(k, Fibre(cle, P, k))]
<1>1. K = ImageDe(cle, P) /\ \A f \in P : cle[f] \in K
  BY DEF ImageDe
<1>2. IsFiniteSet(K)
  BY <1>1, ImageFinie
<1>7. G = ImageDe(h, K) /\ \A k \in K : h[k] = Groupe(k, Fibre(cle, P, k))
  <2>1. \A k : F(k) = Fibre(cle, P, k)
    BY DEF Fibre
  <2>. QED  BY <2>1 DEF ImageDe
<1>3. IsFiniteSet(G)
  <2>. HIDE DEF h, G, K
  <2>. QED  BY <1>2, <1>7, ImageFinie
<1>4. \A g \in G : g.cle \in Nat /\ g.ttc \in Int
  <2>1. ASSUME NEW k \in K
        PROVE  k \in Nat /\ Somme(F(k), "ttc") \in Int
    <3>1. F(k) \subseteq FacturesPossibles /\ IsFiniteSet(F(k)) /\ "ttc" \in Colonnes
      BY FS_Subset DEF Colonnes
    <3>2. k \in Nat
      BY DEF FacturesPossibles
    <3>. QED  BY <3>1, <3>2, SommeSignee
  <2>2. \A k \in K : Groupe(k, F(k)).cle = k /\ Groupe(k, F(k)).ttc = Somme(F(k), "ttc")
    BY DEF Groupe
  <2>. HIDE DEF K, F
  <2>. QED  BY <2>1, <2>2
<1>5. \A a, b \in G : a.cle = b.cle => a = b
  <2>1. \A k \in K : Groupe(k, F(k)).cle = k
    BY DEF Groupe
  <2>. HIDE DEF K, F
  <2>. QED  BY <2>1
<1>6. TopClients(P) = [i \in 1..m |-> CHOOSE g \in G : Cardinality(Devant(g)) = i - 1]
  BY DEF TopClients
<1>. HIDE DEF G, K, cle, F, h
<1>8. n \in Nat /\ Limite \in Nat
  BY <1>3, FS_CardinalityType, HypStatistiques
<1>9. m \in {Limite, n} /\ m <= n /\ m <= Limite
  <2>1. \E x \in {Limite, n} : \A y \in {Limite, n} : x <= y
    BY <1>8
  <2>2. m \in {Limite, n} /\ \A y \in {Limite, n} : m <= y
    BY <2>1 DEF Min
  <2>. QED  BY <2>2
<1>. HIDE DEF m, n
<1>10. m = n
  <2>1. Len(TopClients(P)) = m
    BY <1>6, <1>8, <1>9
  <2>. QED  BY <1>8, <1>9, <2>1
<1>11. /\ \A g \in G : Cardinality(Devant(g)) \in 0..(n - 1)
       /\ \A i \in 1..n : \E g \in G : Cardinality(Devant(g)) = i - 1
       /\ \A a, b \in G : Cardinality(Devant(a)) = Cardinality(Devant(b)) => a = b
  BY <1>3, <1>4, <1>5, RangsDesGroupes DEF n
<1>. DEFINE s == TopClients(P)
<1>. HIDE DEF Devant
<1>12. DOMAIN s = 1..n
       /\ \A i \in 1..n : s[i] \in G /\ Cardinality(Devant(s[i])) = i - 1
  BY <1>6, <1>10, <1>11
<1>13. \A g \in G : \E i \in 1..n : s[i] = g
  <2> TAKE g \in G
  <2>. DEFINE i == Cardinality(Devant(g)) + 1
  <2>1. i \in 1..n /\ i - 1 = Cardinality(Devant(g))
    BY <1>8, <1>11
  <2>2. s[i] \in G /\ Cardinality(Devant(s[i])) = Cardinality(Devant(g))
    BY <1>12, <2>1
  <2>. HIDE DEF i, s
  <2>. QED  BY <1>11, <2>1, <2>2
<1>. HIDE DEF s
<1>14. Range(s) = G
  BY <1>12, <1>13 DEF Range
<1>15. /\ Total(G, "nombre") = Cardinality(P)
       /\ Total(G, "ht") = Somme(P, "ht") /\ Total(G, "ttc") = Somme(P, "ttc")
  BY <1>1, <1>2, <1>7, GroupesComplets
<1>. QED  BY <1>14, <1>15 DEF s
-----------------------------------------------------------------------------
(* The perimeter *)

\* What the other currencies leave out is what the currency asked for keeps out.
LEMMA DevisesComplementaires ==
    ASSUME NEW E, IsFiniteSet(E)
    PROVE  Cardinality(DansLaDevise(E)) + Total(DevisesExclues(E), "nombre") = Cardinality(E)
<1>. DEFINE P == {f \in E : f.devise # Devise}
            D == DansLaDevise(E)
            K == {f.devise : f \in E} \ {Devise}
            cle == [f \in E |-> f.devise]
            h == [k \in K |-> [devise |-> k, nombre |-> Cardinality({f \in E : f.devise = k})]]
            G == DevisesExclues(E)
            un == [f \in E |-> 1]
            col == [g \in G |-> g["nombre"]]
<1>1. IsFiniteSet(P) /\ IsFiniteSet(D) /\ Cardinality(P) \in Nat /\ Cardinality(D) \in Nat
  <2>1. P \in SUBSET E /\ D \in SUBSET E
    BY DEF DansLaDevise
  <2>. QED  BY <2>1, FS_Subset, FS_CardinalityType
<1>2. Cardinality(E) = Cardinality(D) + Cardinality(P)
  <2>1. D \cup P = E /\ D \cap P = {}
    BY DEF DansLaDevise
  <2>. HIDE DEF D, P
  <2>2. Cardinality(D \cup P) = Cardinality(D) + Cardinality(P) - Cardinality(D \cap P)
    BY <1>1, FS_Union
  <2>3. Cardinality(D \cap P) = 0
    BY <2>1, FS_EmptySet, Zenon
  <2>4. Cardinality(D \cup P) = Cardinality(E)
    BY <2>1, Zenon
  <2>. QED  BY <1>1, <2>2, <2>3, <2>4
<1>3. IsFiniteSet(K)
  <2>1. {f.devise : f \in E} = ImageDe(cle, E)
    BY DEF ImageDe
  <2>2. IsFiniteSet(ImageDe(cle, E))
    BY ImageFinie
  <2>. QED  BY <2>1, <2>2, FS_RemoveElement
<1>4. \A f \in P : cle[f] \in K
  OBVIOUS
<1>5. G = ImageDe(h, K)
  BY DEF DevisesExclues, ImageDe
<1>6. \A k \in K : {f \in E : f.devise = k} = Fibre(cle, P, k)
  BY DEF Fibre
<1>7. \A k \in K : h[k].devise = k /\ h[k].nombre = Cardinality(Fibre(cle, P, k))
  BY <1>6
<1>8. \A j, k \in K : h[j] = h[k] => j = k
  BY <1>7
<1>9. IsFiniteSet(G) /\ \A k \in K : h[k] \in G
  <2>. HIDE DEF G, h, K
  <2>1. \A k \in K : h[k] \in G
    BY <1>5 DEF ImageDe
  <2>. QED  BY <1>3, <1>5, <2>1, ImageFinie
<1>10. \A T \in SUBSET P : Cardinality(T) = SommeDe(un, T)
  <2> TAKE T \in SUBSET P
  <2>1. \A f \in T : un[f] = 1
    OBVIOUS
  <2>2. IsFiniteSet(T)
    BY <1>1, FS_Subset
  <2>. QED  BY <2>1, <2>2, SommeDesUns
<1>11. \A f \in P : un[f] \in Int
  OBVIOUS
<1>12. \A k \in K : col[h[k]] = SommeDe(un, Fibre(cle, P, k))
  <2>1. \A k \in K : Fibre(cle, P, k) \in SUBSET P
    BY DEF Fibre
  <2>2. \A k \in K : col[h[k]] = h[k].nombre
    BY <1>9
  <2>. HIDE DEF col, h, un, P
  <2>. QED  BY <1>7, <1>10, <2>1, <2>2
<1>13. \A g \in G : col[g] = g["nombre"]
  OBVIOUS
<1>. HIDE DEF P, D, K, cle, h, G, un, col
<1>14. Total(G, "nombre") = SommeDe(col, G)
  BY <1>9, <1>13, TotalDesGroupes
<1>15. SommeDe(col, G) = SommeDe(un, P)
  BY <1>1, <1>3, <1>4, <1>5, <1>8, <1>11, <1>12, SommeParGroupes
<1>16. Total(G, "nombre") = Cardinality(P)
  BY <1>10, <1>14, <1>15
<1>17. Cardinality(D) + Total(G, "nombre") = Cardinality(E)
  BY <1>1, <1>2, <1>16
<1>. QED  BY <1>17 DEF D, G

\* The six blocks of an answer describe one register, for any number of
\* documents, clients, currencies and months, whatever is written between the
\* six queries (statistiques.py:121-123, 284-285, 428-502).
THEOREM BlocsCoherents == Spec => []ReponseCoherente
<1>1. ASSUME StatistiquesInv, ReponseSuivie
      PROVE  ReponseCoherente
  <2>. DEFINE E == Perimetre(vue, demande, FALSE)
              P == DansLaDevise(E)
              t == reponse["totaux"]
  <2> SUFFICES ASSUME Complete
               PROVE  /\ FontLeTotal(reponse["par_statut"])
                      /\ FontLeTotal(Range(reponse["par_mois"]))
                      /\ Len(reponse["top_clients"]) < Limite
                         => FontLeTotal(Range(reponse["top_clients"]))
                      /\ t.factures + t.avoirs + Total(reponse["devises_exclues"], "nombre")
                         = Cardinality(OngletValidees(vue, demande))
    BY DEF ReponseCoherente
  <2>1. DOMAIN reponse = {"totaux", "par_statut", "par_mois", "top_clients",
                          "devises_exclues", "brouillons"}
    BY DEF Complete, Requetes, Range
  <2>2. /\ t = Totaux(P, demande.aujourdhui)
        /\ reponse["par_statut"] = ParStatut(P)
        /\ reponse["par_mois"] = SerieMensuelle(P, demande)
        /\ reponse["top_clients"] = TopClients(P)
        /\ reponse["devises_exclues"] = DevisesExclues(E)
    BY <1>1, <2>1 DEF ReponseSuivie, Resultat
  <2>3. /\ E \in SUBSET vue /\ P \in SUBSET vue /\ \A f \in P : DansLaPeriode(f, demande)
        /\ OngletValidees(vue, demande) = E
    BY DEF Perimetre, DansLaDevise, DansLaPeriode, OngletValidees, AuPlus, Emise
  <2>4. /\ IsFiniteSet(E) /\ IsFiniteSet(P) /\ P \subseteq FacturesPossibles
    BY <1>1, <2>3, FS_Subset DEF ReponseSuivie, RegistreSain
  <2>5. demande.min \in Bornes /\ demande.max \in Bornes
    BY <1>1 DEF StatistiquesInv, TypeOK
  <2>. HIDE DEF P, E, t
  <2>6. /\ t.factures + t.avoirs = Cardinality(P)
        /\ t.ca.ht = Somme(P, "ht") /\ t.ca.ttc = Somme(P, "ttc")
    <3>. DEFINE X == {f \in P : f.type = "facture"}
    <3>1. Cardinality(X) \in Nat /\ Cardinality(P) \in Nat
      BY <2>4, FS_Subset, FS_CardinalityType
    <3>2. t.factures = Cardinality(X) /\ t.avoirs = Cardinality(P) - Cardinality(X)
      BY <2>2 DEF Totaux
    <3>3. t.ca.ht = Somme(P, "ht") /\ t.ca.ttc = Somme(P, "ttc")
      BY <2>2 DEF Totaux, Colonnes
    <3>. HIDE DEF X
    <3>. QED  BY <3>1, <3>2, <3>3
  <2>7. ASSUME NEW G, Total(G, "nombre") = Cardinality(P),
               Total(G, "ht") = Somme(P, "ht"), Total(G, "ttc") = Somme(P, "ttc")
        PROVE  FontLeTotal(G)
    BY <2>6, <2>7 DEF FontLeTotal, t
  <2>8. FontLeTotal(reponse["par_statut"])
    BY <2>2, <2>4, <2>7, ParStatutComplet
  <2>9. FontLeTotal(Range(reponse["par_mois"]))
    BY <2>2, <2>3, <2>4, <2>5, <2>7, ParMoisComplet
  <2>10. Len(reponse["top_clients"]) < Limite => FontLeTotal(Range(reponse["top_clients"]))
    BY <2>2, <2>4, <2>7, TousLesClients
  <2>11. t.factures + t.avoirs + Total(reponse["devises_exclues"], "nombre")
         = Cardinality(OngletValidees(vue, demande))
    BY <2>2, <2>3, <2>4, <2>6, DevisesComplementaires DEF P
  <2>. QED  BY <2>8, <2>9, <2>10, <2>11
<1>. QED  BY <1>1, InvariantDeLaReponse, InvariantDesStatistiques, PTL
=============================================================================
