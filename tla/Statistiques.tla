----------------------------- MODULE Statistiques -----------------------------
(***************************************************************************)
(* GET /factures/statistiques beside the requests that write the invoices. *)
(*                                                                         *)
(* One request for statistics is served: authentication opens the snapshot *)
(* of its transaction, the handler reads the date once and resolves the    *)
(* period, then six aggregate queries run one after the other while other  *)
(* requests commit.  The writers create, modify, delete and validate       *)
(* drafts, generate credit notes and send invoices to Chorus Pro.  No lock *)
(* is taken: PATCH, DELETE and a validation read the draft in one step and *)
(* commit in a later one, on a row that other requests may have changed or *)
(* issued in between.  The other writers are one step, the commit.         *)
(*                                                                         *)
(* Numbers are in module CycleFacture, rounding and lines in               *)
(* LignesBrouillon, the exchange with Chorus Pro in TransmissionChorus.    *)
(***************************************************************************)
EXTENDS Calendrier, Montants, FiniteSets, FiniteSetsExt, Functions

CONSTANTS
    Entreprises,    \* companies
    Saisies,        \* what a payload may say of a draft
    Periodes,       \* the pairs <<date_min, date_max>> asked for
    Devise,         \* the currency asked for
    Limite,         \* limite_top_clients
    MaxFactures,    \* bound: ids the auto-increment key of facture gives out
    MaxCroisements, \* bound: writes on drafts that other ones may cross
    Melange,        \* bound: whether statistics are served beside those too
    PremierJour,    \* the day of the initial state
    DernierJour     \* bound: the clock stops there

Types == {"facture", "avoir"}
Operations == {"modifier", "supprimer", "valider"}
Colonnes == {"ht", "tva", "ttc"}

\* A date or an id that is NULL.
SansDate == [mois |-> 0, jour |-> 0]
SansClient == 0
SansOrigine == 0

\* Labels of the referential that some handler writes on an issued document.
StatutsEmis == {"validee", "deposee_pdp", "erreur_transmission"}

\* LIBELLES_SOLDES: no handler writes either of them.
LIBELLES_SOLDES == {"payee", "annulee"}

MOIS_PERIODE_PAR_DEFAUT == 12

Moments == [mois : Nat, jour : Nat]

ASSUME HypStatistiques ==
    /\ Limite \in Nat \ {0} /\ MaxFactures \in Nat /\ MaxCroisements \in Nat
    /\ PremierJour \in Moments /\ DernierJour \in Moments
ASSUME HypMelange == Melange \in BOOLEAN
ASSUME HypPeriodes == Periodes \subseteq Moments \X Moments
ASSUME HypSaisies ==
    Saisies \subseteq [type : Types, client : Nat, devise : STRING, ht : Int, tva : Int,
                       date : Moments, echeance : Moments]

VARIABLES
    factures,       \* table facture
    dernierId,      \* last id given to an invoice
    aujourdhui,     \* the clock
    enCours,        \* PATCH, DELETE and validations that have read their draft
    croises,        \* history: documents that a stale write has hit, issued or not
    demande,        \* the request for statistics: phase, tenant, period, date read
    vue,            \* the table as the snapshot of that request shows it
    reponse         \* results of the queries already run, by their name

vars == <<factures, dernierId, aujourdhui, enCours, croises, demande, vue, reponse>>

ecritures == <<factures, dernierId, enCours, croises>>
lecture == <<demande, vue, reponse>>
-----------------------------------------------------------------------------
(* Aggregates *)

Emise(f) == f.statut # "brouillon"

\* Mutant of MontantSigne: the sign that is stored is trusted for a credit note.
MontantSigneSansAbs(f, c) == IF f.type = "avoir" THEN -f.montants[c] ELSE f.montants[c]

\* _montant_signe: -ABS of a credit note, column by column.
MontantSigne(f, c) ==
    LET m == f.montants[c]
    IN IF f.type = "avoir" /\ m > 0 THEN -m ELSE m

\* SUM, NULL being shown as zero.
Somme(F, c) == MapThenSumSet(LAMBDA f : MontantSigne(f, c), F)

EstDue(f) == f.statut \notin LIBELLES_SOLDES
EstEnRetard(f, jour) == f.echeance # SansDate /\ Avant(f.echeance, jour) /\ EstDue(f)

DansLaPeriode(f, d) == AuPlus(d.min, f.date) /\ AuPlus(f.date, d.max)

\* _appliquer_perimetre with no currency: the issued documents, or the drafts.
Perimetre(F, d, brouillons) ==
    {f \in F : f.entreprise = d.entreprise /\ DansLaPeriode(f, d) /\ (~Emise(f) <=> brouillons)}

DansLaDevise(F) == {f \in F : f.devise = Devise}

\* _totaux: the average basket, per invoice, of a revenue net of credit notes.
PanierMoyen(ca, n) == IF n = 0 THEN 0 ELSE Arrondi(ca, n)

\* statement_totaux
Totaux(P, jour) ==
    LET n == Cardinality({f \in P : f.type = "facture"})
        ca == [c \in Colonnes |-> Somme(P, c)]
    IN [ca |-> ca, factures |-> n, avoirs |-> Cardinality(P) - n,
        panier |-> PanierMoyen(ca.ttc, n),
        retard |-> Somme({f \in P : EstEnRetard(f, jour)}, "ttc"),
        restant |-> Somme({f \in P : EstDue(f)}, "ttc")]

\* GET /factures/?statut=Validee between the same dates: its tab of the list.
OngletValidees(F, d) ==
    {f \in F : /\ f.entreprise = d.entreprise
               /\ f.statut # "brouillon"
               /\ ~Avant(f.date, d.min) /\ ~Avant(d.max, f.date)}

\* A row of a GROUP BY.
Groupe(cle, P) ==
    [cle |-> cle, nombre |-> Cardinality(P), ht |-> Somme(P, "ht"), ttc |-> Somme(P, "ttc")]

ParStatut(P) == {Groupe(s, {f \in P : f.statut = s}) : s \in {f.statut : f \in P}}

\* statement_par_mois, a month without document being the group of no row.
ParMois(P, m) == Groupe(m, {f \in P : f.date.mois = m})

\* _serie_mensuelle over _mois_de_la_periode: one point per month of the period.
SerieMensuelle(P, d) ==
    [i \in 1..(d.max.mois - d.min.mois + 1) |-> ParMois(P, d.min.mois + i - 1)]

\* ORDER BY ca_ttc DESC, id_client; the rows with no client are a group too.
AvantClient(g, h) == g.ttc > h.ttc \/ (g.ttc = h.ttc /\ g.cle < h.cle)

TopClients(P) ==
    LET groupes == {Groupe(k, {f \in P : f.client = k}) : k \in {f.client : f \in P}}
        Devant(g) == {h \in groupes : AvantClient(h, g)}
    IN [i \in 1..Min({Limite, Cardinality(groupes)}) |->
           CHOOSE g \in groupes : Cardinality(Devant(g)) = i - 1]

\* The same perimeter, in the other currencies.
DevisesExclues(emises) ==
    {[devise |-> v, nombre |-> Cardinality({f \in emises : f.devise = v})] :
        v \in {f.devise : f \in emises} \ {Devise}}

TotauxBrouillons(B) == [nombre |-> Cardinality(B), ttc |-> Somme(B, "ttc")]

\* The six queries, in the order of calculer_statistiques, on the table F.
Requetes ==
    <<"totaux", "par_statut", "par_mois", "top_clients", "devises_exclues", "brouillons">>

Resultat(q, F, d) ==
    LET emises == Perimetre(F, d, FALSE)
        P == DansLaDevise(emises)
    IN CASE q = "totaux" -> Totaux(P, d.aujourdhui)
         [] q = "par_statut" -> ParStatut(P)
         [] q = "par_mois" -> SerieMensuelle(P, d)
         [] q = "top_clients" -> TopClients(P)
         [] q = "devises_exclues" -> DevisesExclues(emises)
         [] q = "brouillons" -> TotauxBrouillons(DansLaDevise(Perimetre(F, d, TRUE)))
-----------------------------------------------------------------------------
(* The request for statistics *)

SansDemande ==
    [phase |-> "aucune", entreprise |-> "aucune",
     min |-> SansDate, max |-> SansDate, aujourdhui |-> SansDate]

\* get_current_user and verify_tenant_access: the first read opens the snapshot.
Authentifier(e) ==
    /\ demande.phase = "aucune"
    /\ Melange \/ enCours = {}
    /\ demande' = [SansDemande EXCEPT !.phase = "authentifiee", !.entreprise = e]
    /\ vue' = factures
    /\ UNCHANGED <<ecritures, aujourdhui, reponse>>

\* resoudre_periode
BorneMax(p) == IF p[2] = SansDate THEN aujourdhui ELSE p[2]
BorneMin(p) ==
    IF p[1] = SansDate THEN DecalerMois(BorneMax(p), -(MOIS_PERIODE_PAR_DEFAUT - 1))
    ELSE p[1]

\* statistiques_factures reads the date, once; a reversed period is refused (400).
Commencer(p) ==
    /\ demande.phase = "authentifiee"
    /\ IF Avant(BorneMax(p), BorneMin(p))
       THEN demande' = SansDemande /\ vue' = {}
       ELSE /\ demande' = [demande EXCEPT !.phase = "calcul", !.min = BorneMin(p),
                                          !.max = BorneMax(p), !.aujourdhui = aujourdhui]
            /\ UNCHANGED vue
    /\ UNCHANGED <<ecritures, aujourdhui, reponse>>

\* Mutant of TableLue: each query reads what is committed when it runs.
TableCourante(q) == factures

\* What a query of the request reads: the snapshot of its transaction.
TableLue(q) == vue

\* calculer_statistiques, one query at a time.
Interroger ==
    LET rang == Cardinality(DOMAIN reponse) + 1
        q == Requetes[rang]
    IN /\ demande.phase = "calcul"
       /\ rang <= Len(Requetes)
       /\ reponse' = [r \in DOMAIN reponse \cup {q} |->
              IF r = q THEN Resultat(q, TableLue(q), demande) ELSE reponse[r]]
       /\ UNCHANGED <<ecritures, aujourdhui, demande, vue>>

Complete == DOMAIN reponse = Range(Requetes)

\* The answer is sent, and the session closed.
Repondre ==
    /\ Complete
    /\ demande' = SansDemande
    /\ vue' = {}
    /\ reponse' = <<>>
    /\ UNCHANGED <<ecritures, aujourdhui>>
-----------------------------------------------------------------------------
(* The requests that write *)

Facture(id, e, s, origine) ==
    [id |-> id, entreprise |-> e, type |-> s.type, client |-> s.client, devise |-> s.devise,
     date |-> s.date, echeance |-> s.echeance, statut |-> "brouillon", origine |-> origine,
     montants |-> [ht |-> s.ht, tva |-> s.tva, ttc |-> s.ht + s.tva]]

Ajouter(f) ==
    /\ f.id <= MaxFactures
    /\ factures' = factures \cup {f}
    /\ dernierId' = f.id
    /\ UNCHANGED <<aujourdhui, enCours, croises, lecture>>

Remplacer(f, g) == factures' = (factures \ {f}) \cup {g}

\* POST /factures/
CreerBrouillon(e, s) == Ajouter(Facture(dernierId + 1, e, s, SansOrigine))

Brouillons == {f \in factures : ~Emise(f)}

\* What the three handlers of a draft start with: they read the row, and refuse
\* one that is issued; a validation refuses one without client, and reads the clock.
Lecture(f, op) ==
    [op |-> op, ligne |-> f, jour |-> IF op = "valider" THEN aujourdhui ELSE SansDate]

\* Mutant of Lectures: the status is not tested.
LecturesDeTout ==
    {Lecture(f, op) : f \in factures, op \in {"modifier", "supprimer"}} \cup
    {Lecture(f, "valider") : f \in {g \in Brouillons : g.client # SansClient}}

Lectures ==
    {Lecture(f, op) : f \in Brouillons, op \in {"modifier", "supprimer"}} \cup
    {Lecture(f, "valider") : f \in {g \in Brouillons : g.client # SansClient}}

\* A request that others may cross reads here, and commits later...
PreparerEcriture(r) ==
    /\ Cardinality(enCours) + Cardinality(croises) < MaxCroisements
    /\ Melange \/ demande.phase = "aucune"
    /\ enCours' = enCours \cup {r}
    /\ UNCHANGED <<factures, dernierId, aujourdhui, croises, lecture>>

\* ... one that nothing crosses reads in the step of its commit.
Lues == enCours \cup Lectures

\* An UPDATE names only the columns that differ from the ones read.
Colonne(lue, voulue, courante) == IF voulue = lue THEN courante ELSE voulue

\* The row f, once the request that read lue has written voulue.
Reecrite(lue, voulue, f) ==
    [f EXCEPT !.type = Colonne(lue.type, voulue.type, @),
              !.client = Colonne(lue.client, voulue.client, @),
              !.devise = Colonne(lue.devise, voulue.devise, @),
              !.date = Colonne(lue.date, voulue.date, @),
              !.echeance = Colonne(lue.echeance, voulue.echeance, @),
              !.statut = Colonne(lue.statut, voulue.statut, @),
              !.montants = [c \in Colonnes |->
                               Colonne(lue.montants[c], voulue.montants[c], @[c])]]

\* The request has answered; another one may have read the same thing.
Repondue(r) == enCours' \in {enCours, enCours \ {r}}

\* The row f becomes g by the write of a request that read something else.
Croise(f, emise) == [id |-> f.id, emise |-> emise]
Croiser(r, f, g) ==
    croises' = IF f = r.ligne THEN croises
               ELSE croises \cup {Croise(f, Emise(f) \/ Emise(g))}

\* The commit of a request that read r.ligne and wants voulue.
Valider(r, voulue) ==
    /\ \E f \in factures :
          /\ f.id = r.ligne.id
          /\ Remplacer(f, Reecrite(r.ligne, voulue, f))
          /\ Croiser(r, f, Reecrite(r.ligne, voulue, f))
    /\ Repondue(r)
    /\ UNCHANGED <<dernierId, aujourdhui, lecture>>

\* PATCH /factures/{id}, header and lines; a linked credit note keeps its type.
ModifierBrouillon(r, s) ==
    /\ r.op = "modifier"
    /\ s.type = r.ligne.type \/ r.ligne.origine = SansOrigine
    /\ Valider(r, Facture(r.ligne.id, r.ligne.entreprise, s, r.ligne.origine))

\* DELETE /factures/{id}: a credit note holds its origin by a foreign key.
SupprimerBrouillon(r) ==
    /\ r.op = "supprimer"
    /\ \A a \in factures : a.origine # r.ligne.id
    /\ \E f \in factures :
          /\ f.id = r.ligne.id
          /\ factures' = factures \ {f}
          /\ Croiser(r, f, f)
    /\ Repondue(r)
    /\ UNCHANGED <<dernierId, aujourdhui, lecture>>

\* Mutant of FactureValidee: the date entered in the draft is kept.
FactureValideeDateSaisie(f, jour) == [f EXCEPT !.statut = "validee"]

FactureValidee(f, jour) == [f EXCEPT !.statut = "validee", !.date = jour]

\* POST /factures/{id}/valider
FinirValidation(r) ==
    /\ r.op = "valider"
    /\ Valider(r, FactureValidee(r.ligne, r.jour))

\* The row has gone, a key holds it, the payload is refused, the commit fails:
\* the transaction leaves no trace.
Abandonner(r) ==
    /\ enCours' = enCours \ {r}
    /\ UNCHANGED <<factures, dernierId, aujourdhui, croises, lecture>>

\* POST /factures/{id}/avoir: dated today, due today.
Avoir(f) ==
    [f EXCEPT !.id = dernierId + 1, !.type = "avoir", !.origine = f.id,
              !.statut = "brouillon", !.date = aujourdhui, !.echeance = aujourdhui,
              !.montants = [c \in Colonnes |-> -f.montants[c]]]

GenererAvoir(f) == Emise(f) /\ f.type = "facture" /\ Ajouter(Avoir(f))

\* POST /factures/{id}/transmettre-choruspro, once (module TransmissionChorus).
Transmettre(f, statut) ==
    /\ f.statut = "validee"
    /\ Remplacer(f, [f EXCEPT !.statut = statut])
    /\ UNCHANGED <<dernierId, aujourdhui, enCours, croises, lecture>>

JourSuivant ==
    /\ Avant(aujourdhui, DernierJour)
    /\ aujourdhui' = Lendemain(aujourdhui)
    /\ UNCHANGED <<ecritures, lecture>>
-----------------------------------------------------------------------------
Init ==
    /\ factures = {} /\ dernierId = 0
    /\ aujourdhui = PremierJour
    /\ enCours = {} /\ croises = {}
    /\ demande = SansDemande /\ vue = {} /\ reponse = <<>>

Ecrire ==
    \/ \E e \in Entreprises, s \in Saisies : CreerBrouillon(e, s)
    \/ \E f \in factures :
          \/ GenererAvoir(f)
          \/ \E statut \in StatutsEmis \ {"validee"} : Transmettre(f, statut)
    \/ \E r \in Lectures : PreparerEcriture(r)
    \/ \E r \in Lues :
          \/ \E s \in Saisies : ModifierBrouillon(r, s)
          \/ SupprimerBrouillon(r)
          \/ FinirValidation(r)
    \/ \E r \in enCours : Abandonner(r)

Next ==
    \/ \E e \in Entreprises : Authentifier(e)
    \/ \E p \in Periodes : Commencer(p)
    \/ Interroger
    \/ Repondre
    \/ (Melange \/ croises = {} \/ demande.phase = "aucune") /\ Ecrire  \* a bound
    \/ JourSuivant

Spec == Init /\ [][Next]_vars
-----------------------------------------------------------------------------
(* Properties *)

FacturesPossibles ==
    [id : Nat, entreprise : Entreprises, type : Types, client : Nat, devise : STRING,
     date : Moments, echeance : Moments, statut : StatutsEmis \cup {"brouillon"},
     origine : Nat, montants : [Colonnes -> Int]]

\* Twelve months back may be before the first month of a calendar.
Bornes == [mois : Int, jour : Nat]

\* The variables have their types; ids are distinct; an issued document that no
\* stale write has hit is dated of a day on which the clock has stood; what a
\* request under way has read is a draft.
TypeOK ==
    /\ factures \subseteq FacturesPossibles
    /\ \A f \in factures : f.id <= dernierId
    /\ \A f, g \in factures : f.id = g.id => f = g
    /\ \A f \in factures : Emise(f) /\ Croise(f, TRUE) \notin croises =>
          AuPlus(PremierJour, f.date) /\ AuPlus(f.date, aujourdhui)
    /\ dernierId \in 0..MaxFactures
    /\ aujourdhui \in Moments
    /\ enCours \subseteq [op : Operations, ligne : FacturesPossibles, jour : Moments]
    /\ \A r \in enCours : ~Emise(r.ligne)
    /\ croises \subseteq [id : Nat, emise : BOOLEAN]
    /\ demande \in [phase : {"aucune", "authentifiee", "calcul"},
                    entreprise : Entreprises \cup {"aucune"},
                    min : Bornes, max : Bornes, aujourdhui : Moments]
    /\ demande.phase = "calcul" => AuPlus(demande.min, demande.max)
    /\ DOMAIN reponse \subseteq Range(Requetes)

Total(G, c) == MapThenSumSet(LAMBDA g : g[c], G)

\* The sum of a set of groups is the block of totals.
FontLeTotal(G) ==
    LET t == reponse["totaux"] IN
    /\ Total(G, "nombre") = t.factures + t.avoirs
    /\ Total(G, "ht") = t.ca.ht
    /\ Total(G, "ttc") = t.ca.ttc

\* The six blocks of an answer describe one and the same register, although
\* they are six queries run while others write (statistiques.py:428-502):
\* the breakdown by status, the months of the curve and, when none is cut off,
\* the clients add up to the totals; and the totals and the currencies left out
\* count together the documents of the tab "Validees" of the list, as the
\* perimeter promises (statistiques.py:121-123, 284-285).
ReponseCoherente ==
    Complete =>
        /\ FontLeTotal(reponse["par_statut"])
        /\ FontLeTotal(Range(reponse["par_mois"]))
        /\ Len(reponse["top_clients"]) < Limite => FontLeTotal(Range(reponse["top_clients"]))
        /\ reponse["totaux"].factures + reponse["totaux"].avoirs
              + Total(reponse["devises_exclues"], "nombre")
           = Cardinality(OngletValidees(vue, demande))

\* a is the first credit note, as it was generated, of the invoice f, none of
\* whose totals is negative.
Solde(a, f) ==
    /\ a.origine = f.id /\ a.devise = f.devise /\ f.type = "facture"
    /\ \A c \in Colonnes : f.montants[c] >= 0 /\ a.montants[c] = -f.montants[c]
    /\ \A b \in vue : b.origine = f.id /\ Emise(b) => a.id <= b.id

\* "Their credit note already neutralises them (invoice +X, credit note -X,
\* net 0)" (statistiques.py:16-20): the three revenues are those of the period
\* without the invoices credited in it and without their credit notes, whatever
\* the sign under which the other credit notes were entered.
AvoirsNeutralises ==
    "totaux" \in DOMAIN reponse =>
        LET P == DansLaDevise(Perimetre(vue, demande, FALSE))
            soldees == {f \in P : \E a \in P : Solde(a, f) \/ Solde(f, a)}
        IN \A c \in Colonnes : reponse["totaux"].ca[c] = Somme(P \ soldees, c)

\* What the statistics say of the documents issued up to a day, their status apart.
Chiffres(jour) ==
    {[f EXCEPT !.statut = "emis"] : f \in {g \in factures : Emise(g) /\ AuPlus(g.date, jour)}}

\* The figures of a period that is over do not change any more, once the
\* validations that read the clock before its end have committed: no document is
\* issued at an earlier date, changed or deleted (service.py:217-224, 493-497,
\* statistiques.py:144-147), except those that a PATCH, a DELETE or a validation
\* which read something else hits as issued documents (service.py:205-252, 298-330,
\* 398-500).  The exception is per document: such a write moves no other figure.
PeriodeCloseFigee ==
    [][\A jour \in {f.date : f \in factures'} \cup {f.date : f \in factures} :
          /\ Avant(jour, aujourdhui)
          /\ \A r \in enCours : r.op = "valider" => Avant(jour, r.jour)
          => \A f \in (Chiffres(jour) \ Chiffres(jour)') \cup (Chiffres(jour)' \ Chiffres(jour)) :
                Croise(f, TRUE) \in croises']_vars
=============================================================================
