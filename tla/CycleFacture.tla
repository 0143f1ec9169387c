---------------------------- MODULE CycleFacture ----------------------------
(***************************************************************************)
(* Life cycle and legal numbering of the invoices of src/factures: create, *)
(* edit, delete and validate a draft, generate a credit note ("avoir").    *)
(*                                                                         *)
(* Every endpoint is one request of a session: one MySQL transaction under *)
(* REPEATABLE READ (core/database.py sets no isolation level and no query  *)
(* takes a lock).  The transaction's reads all come from one snapshot, so  *)
(* that they are one step (Lire, which keeps in `lu' what the handler      *)
(* uses); its writes reach the table atomically at the commit (one action  *)
(* per endpoint), computed from what was read, on rows that other requests *)
(* may have changed in between.                                            *)
(*                                                                         *)
(* Left out: amounts and lines (module LignesBrouillon), dates, wording.   *)
(***************************************************************************)
EXTENDS Integers, FiniteSets

CONSTANTS
    MaxId,         \* bound: ids the auto-increment key of table facture gives out
    Entreprises,   \* tenants
    Clients,       \* rows of table client a payload may name
    Types,         \* values of type_facture that payloads carry
    Sessions,      \* concurrent HTTP requests
    Droits,        \* Droits[s]: the endpoints session s calls in the instance
    MaxMois,       \* bound: number of months the clock goes through
    BASE, PLAFOND, \* "{:04d}": BASE = 10 and PLAFOND = 9999 in the code
    Aucun,         \* SQL NULL
    Inchange       \* a field absent from the payload of a PATCH

Operations == {"creer", "modifier", "supprimer", "valider", "avoir"}

Factures == 1..MaxId

ASSUME HypId == MaxId \in Nat
ASSUME HypTypes == Types \subseteq {"facture", "avoir"}
ASSUME HypDroits == Droits \in [Sessions -> SUBSET Operations]
ASSUME HypMois == MaxMois \in Nat \ {0}
ASSUME HypTexte == BASE \in Nat /\ BASE >= 2 /\ PLAFOND \in Nat /\ PLAFOND >= 2
ASSUME HypNull ==
    /\ Aucun \notin Factures \cup Entreprises \cup Clients
    /\ Inchange \notin Types \cup Clients \cup {Aucun}

\* Attempts valider_facture_brouillon makes to get a number.
MAX_TENTATIVES_NUMEROTATION == 3

\* Bound of the history counter concurrentes.
Borner(k) == IF k > MAX_TENTATIVES_NUMEROTATION THEN MAX_TENTATIVES_NUMEROTATION ELSE k

VARIABLES
    base,       \* table facture: the committed rows
    mois,       \* the month datetime.now() is in
    etape,      \* per session: "libre", "lue" (snapshot read) or "reprise"
    demande,    \* per session: the request being served
    lu,         \* per session: what the transaction read in its snapshot
    ouvert,     \* per session: the month when the snapshot was taken
    tentative,  \* per session: index of the running attempt (valider)
    concurrentes, \* history, per validation request: validations committed meanwhile
    journal,    \* history: every (number, invoice) pair ever committed
    tardif      \* history: writes that hit an invoice sealed since it was read

vars == <<base, mois, etape, demande, lu, ouvert, tentative,
          concurrentes, journal, tardif>>
requete == <<etape, demande, lu, ouvert, tentative, concurrentes>>
historique == <<journal, tardif>>

-----------------------------------------------------------------------------
(* Rows *)

\* "BROUILLON-<uuid>": unique, and it starts with neither "FAC-" nor "AV-".
Provisoire == [prefixe |-> "BROUILLON", mois |-> 0, rang |-> 0]

Numeros == [mois : 1..MaxMois, prefixe : {"FAC", "AV"}, rang : Nat \ {0}]
           \cup {Provisoire}

\* id_statut by family (statuts.py): every status but "brouillon" is "emise".
Lignes == [etat    : {"absente", "brouillon", "emise", "supprimee"},
           ent     : Entreprises \cup {Aucun},
           type    : {"facture", "avoir"},
           origine : Factures \cup {Aucun},
           client  : Clients \cup {Aucun},
           numero  : Numeros,
           fige    : Clients \cup {Aucun}]   \* whose details snapshot_client holds

Vide == [etat |-> "absente", ent |-> Aucun, type |-> "facture",
         origine |-> Aucun, client |-> Aucun, numero |-> Provisoire,
         fige |-> Aucun]

BaseVide == [f \in Factures |-> Vide]

\* The row is in the table (est_brouillon or est_emise holds of it).
Existe(b, f) == b[f].etat \in {"brouillon", "emise"}

\* The query every endpoint starts with: by id, within the tenant.
Accessible(b, f, e) == Existe(b, f) /\ b[f].ent = e

\* SQLAlchemy emits a column only if its value differs from the one it loaded.
Ecrire(charge, voulu, courant) == IF voulu = charge THEN courant ELSE voulu

-----------------------------------------------------------------------------
(* Numbering *)

Prefixe(type) == IF type = "avoir" THEN "AV" ELSE "FAC"

\* Mutant of NumerosEmis: the query forgets the tenant.
NumerosEmisDeTous(b, e, p) ==
    {b[f].numero : f \in {g \in Factures : Existe(b, g) /\ b[g].numero.prefixe = p}}

\* The numbers of a tenant that start with a prefix.
NumerosEmis(b, e, p) ==
    {b[f].numero : f \in {g \in Factures :
                          Accessible(b, g, e) /\ b[g].numero.prefixe = p}}

RangsDuMois(numeros, m) == {n.rang : n \in {k \in numeros : k.mois = m}}

\* ORDER BY numero_facture DESC compares texts padded to the width of PLAFOND:
\* "10000" sorts just after "1000".
CleTexte(r) == IF r <= PLAFOND THEN 2 * BASE * r ELSE 2 * r + 1

\* Mutant of DernierRang: ascending order.
PremierRang(R) ==
    IF R = {} THEN 0
    ELSE CHOOSE r \in R : \A q \in R : CleTexte(r) <= CleTexte(q)

DernierRang(R) ==
    IF R = {} THEN 0
    ELSE CHOOSE r \in R : \A q \in R : CleTexte(q) <= CleTexte(r)

\* Mutant of NouveauNumero: the last number is not incremented.
NumeroSansSuite(numeros, type, m) ==
    [prefixe |-> Prefixe(type), mois |-> m, rang |-> DernierRang(RangsDuMois(numeros, m))]

NouveauNumero(numeros, type, m) ==
    [prefixe |-> Prefixe(type), mois |-> m,
     rang |-> DernierRang(RangsDuMois(numeros, m)) + 1]

\* UNIQUE (id_entreprise, numero_facture), checked on the rows as they are now.
Collision(b, f, e, n) ==
    \E g \in Factures \ {f} : Existe(b, g) /\ b[g].ent = e /\ b[g].numero = n
-----------------------------------------------------------------------------
(* Requests *)

Saisies == [type : Types \cup {Inchange}, client : Clients \cup {Aucun, Inchange}]
SansSaisie == [type |-> Inchange, client |-> Inchange]

Demandes == [ent : Entreprises \cup {Aucun}, op : Operations \cup {"aucune"},
             cible : Factures \cup {Aucun}, saisie : Saisies]
SansDemande == [ent |-> Aucun, op |-> "aucune", cible |-> Aucun, saisie |-> SansSaisie]

\* The requests on an existing invoice; only a PATCH carries fields.
Recevables ==
    {d \in [ent : Entreprises, op : Operations \ {"creer"}, cible : Factures,
            saisie : Saisies] :
        d.op # "modifier" => d.saisie = SansSaisie}

\* Mutants of RefusModifier, RefusValider and RefusAvoir: a guard is dropped.
ModifierTypeLibre(lue, saisie) == lue.etat # "brouillon"
ValiderToutStatut(lue) == lue.client = Aucun
AvoirSurBrouillon(lue) == lue.type = "avoir"

\* The guards of each handler, on the row its request names as it was read.
RefusModifier(lue, saisie) ==
    \/ lue.etat # "brouillon"
    \/ saisie.type \notin {Inchange, lue.type} /\ lue.origine # Aucun
RefusSupprimer(lue) == lue.etat # "brouillon"
RefusValider(lue) == lue.etat # "brouillon" \/ lue.client = Aucun
RefusAvoir(lue) == lue.type = "avoir" \/ lue.etat # "emise"

Refus(b, d) ==
    \/ ~Accessible(b, d.cible, d.ent)
    \/ d.op = "modifier" /\ RefusModifier(b[d.cible], d.saisie)
    \/ d.op = "supprimer" /\ RefusSupprimer(b[d.cible])
    \/ d.op = "valider" /\ RefusValider(b[d.cible])
    \/ d.op = "avoir" /\ RefusAvoir(b[d.cible])

\* What the handler uses of its snapshot b: the row and, to validate it, the
\* client details of its original and the numbers already in its series.
Lectures == [numeros : SUBSET Numeros, ligne : Lignes, figeOrigine : Clients \cup {Aucun}]
SansLecture == [numeros |-> {}, ligne |-> Vide, figeOrigine |-> Aucun]

Lecture(b, d) ==
    LET ligne == b[d.cible] IN
    [numeros |-> IF d.op = "valider"
                 THEN NumerosEmis(b, d.ent, Prefixe(ligne.type)) ELSE {},
     ligne |-> ligne,
     figeOrigine |-> IF d.op = "valider" /\ ligne.origine # Aucun
                     THEN b[ligne.origine].fige ELSE Aucun]

\* The request ends: its transaction is closed, the session forgets it.
Repondre(s) ==
    /\ etape' = [etape EXCEPT ![s] = "libre"]
    /\ demande' = [demande EXCEPT ![s] = SansDemande]
    /\ lu' = [lu EXCEPT ![s] = SansLecture]
    /\ ouvert' = [ouvert EXCEPT ![s] = 1]
    /\ tentative' = [tentative EXCEPT ![s] = 0]

Clore(s) == Repondre(s) /\ concurrentes' = [concurrentes EXCEPT ![s] = 0]

\* The first reads of the transaction; a request they refuse (404, 409) writes
\* nothing and ends at once.
Lire(s, d) ==
    /\ ~Refus(base, d)
    /\ etape' = [etape EXCEPT ![s] = "lue"]
    /\ lu' = [lu EXCEPT ![s] = Lecture(base, d)]
    /\ ouvert' = [ouvert EXCEPT ![s] = mois]

Recevoir(s, d) ==
    /\ etape[s] = "libre"
    /\ d.op \in Droits[s]
    /\ Lire(s, d)
    /\ demande' = [demande EXCEPT ![s] = d]
    /\ UNCHANGED <<base, mois, tentative, concurrentes, historique>>

\* Deadlock victim, lost connection, process crash: the transaction leaves no trace.
Abandonner(s) ==
    /\ etape[s] # "libre"
    /\ Clore(s)
    /\ UNCHANGED <<base, mois, historique>>

EnCours(s, op) == etape[s] = "lue" /\ demande[s].op = op

\* The row the request of s names, as s read it and as it is now.
Lue(s) == lu[s].ligne
Courante(s) == base[demande[s].cible]

\* INSERT: the key is the next one, ids are never given out twice.
Inserer(ligne) ==
    \E f \in Factures :
        /\ base[f].etat = "absente"
        /\ \A g \in Factures : g < f => base[g].etat # "absente"
        /\ base' = [base EXCEPT ![f] = ligne]
-----------------------------------------------------------------------------
(* Endpoints *)

\* POST /factures: reads nothing that can go stale.
Creer(s, e, type, client) ==
    /\ etape[s] = "libre"
    /\ "creer" \in Droits[s]
    /\ Inserer([Vide EXCEPT !.etat = "brouillon", !.ent = e, !.type = type,
                            !.client = client])
    /\ UNCHANGED <<mois, requete, historique>>

\* The row to write has gone: StaleDataError or a foreign-key error, answered 500.
LigneDisparue(s) ==
    /\ ~Existe(base, demande[s].cible)
    /\ Clore(s)
    /\ UNCHANGED <<base, mois, historique>>

\* A field of the payload, if sent, goes to the column, if it changes it.
Champ(saisi, charge, courant) ==
    IF saisi = Inchange THEN courant ELSE Ecrire(charge, saisi, courant)

LigneModifiee(s) ==
    [Courante(s) EXCEPT !.type = Champ(demande[s].saisie.type, Lue(s).type, @),
                        !.client = Champ(demande[s].saisie.client, Lue(s).client, @)]

\* PATCH /factures/{id}: UPDATE of the columns it changed.
Modifier(s) ==
    /\ EnCours(s, "modifier")
    /\ \/ LigneDisparue(s)
       \/ /\ Existe(base, demande[s].cible)
          /\ base' = [base EXCEPT ![demande[s].cible] = LigneModifiee(s)]
          /\ tardif' = IF Courante(s).etat = "emise"
                       THEN tardif \cup {"modification"} ELSE tardif
          /\ Clore(s)
          /\ UNCHANGED <<mois, journal>>

\* A credit note references f (foreign key id_facture_origine).
Reference(f) == \E g \in Factures : Existe(base, g) /\ base[g].origine = f

\* DELETE /factures/{id}: a row already gone is only a warning; a referenced one
\* makes the DELETE fail, and the transaction with it.
Supprimer(s) ==
    /\ EnCours(s, "supprimer")
    /\ Clore(s)
    /\ UNCHANGED <<mois, journal>>
    /\ LET f == demande[s].cible
       IN \/ /\ Reference(f)
             /\ UNCHANGED <<base, tardif>>
          \/ /\ ~Reference(f)
             /\ base' = [base EXCEPT ![f] = [Vide EXCEPT !.etat = "supprimee"]]
             /\ tardif' = IF base[f].etat = "emise"
                          THEN tardif \cup {"suppression"} ELSE tardif

\* The number the running attempt computes if it reads the clock in month m.
NumeroCalcule(s, m) == NouveauNumero(lu[s].numeros, Lue(s).type, m)

\* Mutant of Instantane: always the client of the draft.
InstantaneDuClient(s) == Lue(s).client

\* snapshot_client: from the original invoice for a linked credit note, else
\* from the client of the draft.
Instantane(s) ==
    IF Lue(s).origine # Aucun THEN lu[s].figeOrigine ELSE Lue(s).client

\* The kind of write a validation makes on an invoice sealed since it was read.
Revalidation(ligne, n) ==
    IF ligne.etat # "emise" THEN {}
    ELSE IF <<ligne.numero.prefixe, ligne.numero.mois>> = <<n.prefixe, n.mois>>
         THEN {"revalidation"} ELSE {"renumerotation"}

LigneValidee(s, n) ==
    [Courante(s) EXCEPT !.etat = "emise", !.numero = n,
                        !.fige = Ecrire(Lue(s).fige, Instantane(s), @)]

\* The commit of _valider_facture_tentative succeeds: number, status, snapshot.
Attribuer(s, n) ==
    LET f == demande[s].cible IN
    /\ ~Collision(base, f, demande[s].ent, n)
    /\ base' = [base EXCEPT ![f] = LigneValidee(s, n)]
    /\ journal' = journal \cup {[facture |-> f, ent |-> demande[s].ent, numero |-> n]}
    /\ tardif' = tardif \cup Revalidation(base[f], n)
    /\ concurrentes' = [t \in Sessions |->
           IF t # s /\ demande[t].op = "valider"
           THEN Borner(concurrentes[t] + 1) ELSE 0]
    /\ Repondre(s)

\* IntegrityError on the unique constraint: rollback, then another attempt...
Rejouer(s, n) ==
    /\ Collision(base, demande[s].cible, demande[s].ent, n)
    /\ tentative[s] < MAX_TENTATIVES_NUMEROTATION - 1
    /\ tentative' = [tentative EXCEPT ![s] = @ + 1]
    /\ etape' = [etape EXCEPT ![s] = "reprise"]
    /\ lu' = [lu EXCEPT ![s] = SansLecture]
    /\ ouvert' = [ouvert EXCEPT ![s] = 1]
    /\ UNCHANGED <<base, demande, concurrentes, historique>>

\* ... or NumerotationConcurrenceError (409) after the last one.
Renoncer(s, n) ==
    /\ Collision(base, demande[s].cible, demande[s].ent, n)
    /\ tentative[s] = MAX_TENTATIVES_NUMEROTATION - 1
    /\ Clore(s)
    /\ UNCHANGED <<base, historique>>

\* POST /factures/{id}/valider; datetime.now() is read after the snapshot is taken.
Valider(s) ==
    /\ EnCours(s, "valider")
    /\ \/ LigneDisparue(s)
       \/ /\ Existe(base, demande[s].cible)
          /\ \E m \in ouvert[s]..mois :
                LET n == NumeroCalcule(s, m)
                IN Attribuer(s, n) \/ Rejouer(s, n) \/ Renoncer(s, n)
          /\ UNCHANGED mois

\* The next attempt reads everything again, in a new transaction.
Reprendre(s) ==
    /\ etape[s] = "reprise"
    /\ \/ Lire(s, demande[s]) /\ UNCHANGED <<demande, tentative, concurrentes>>
       \/ Refus(base, demande[s]) /\ Clore(s)
    /\ UNCHANGED <<base, mois, historique>>

\* POST /factures/{id}/avoir: INSERT of a linked draft.
GenererAvoir(s) ==
    /\ EnCours(s, "avoir")
    /\ \/ LigneDisparue(s)
       \/ /\ Existe(base, demande[s].cible)
          /\ Inserer([Vide EXCEPT !.etat = "brouillon", !.ent = demande[s].ent,
                                  !.type = "avoir", !.origine = demande[s].cible,
                                  !.client = Lue(s).client, !.fige = Lue(s).fige])
          /\ Clore(s)
          /\ UNCHANGED <<mois, historique>>

MoisSuivant ==
    /\ mois < MaxMois
    /\ mois' = mois + 1
    /\ UNCHANGED <<base, requete, historique>>
-----------------------------------------------------------------------------
Init ==
    /\ base = BaseVide
    /\ mois = 1
    /\ etape = [s \in Sessions |-> "libre"]
    /\ demande = [s \in Sessions |-> SansDemande]
    /\ lu = [s \in Sessions |-> SansLecture]
    /\ ouvert = [s \in Sessions |-> 1]
    /\ tentative = [s \in Sessions |-> 0]
    /\ concurrentes = [s \in Sessions |-> 0]
    /\ journal = {}
    /\ tardif = {}

\* The steps of a request that is under way.
Poursuivre(s) ==
    \/ Modifier(s)
    \/ Supprimer(s)
    \/ Valider(s)
    \/ Reprendre(s)
    \/ GenererAvoir(s)

Next ==
    \/ \E s \in Sessions, d \in Recevables : Recevoir(s, d)
    \/ \E s \in Sessions, e \in Entreprises, type \in Types,
          client \in Clients \cup {Aucun} : Creer(s, e, type, client)
    \/ \E s \in Sessions : Poursuivre(s)
    \/ \E s \in Sessions : Abandonner(s)
    \/ MoisSuivant

Spec == Init /\ [][Next]_vars
-----------------------------------------------------------------------------
(* Properties *)

\* The variables have their types.
TypeOK ==
    /\ base \in [Factures -> Lignes]
    /\ mois \in 1..MaxMois
    /\ etape \in [Sessions -> {"libre", "lue", "reprise"}]
    /\ demande \in [Sessions -> Demandes]
    /\ lu \in [Sessions -> Lectures]
    /\ ouvert \in [Sessions -> 1..MaxMois]
    /\ tentative \in [Sessions -> 0..MAX_TENTATIVES_NUMEROTATION - 1]
    /\ concurrentes \in [Sessions -> 0..MAX_TENTATIVES_NUMEROTATION]
    /\ journal \subseteq [facture : Factures, ent : Entreprises, numero : Numeros]
    /\ tardif \subseteq {"modification", "suppression", "renumerotation", "revalidation"}

\* No stale write has deleted, edited or moved to another series an invoice
\* validated since the request read it.
Intact == tardif \subseteq {"revalidation"}

Continue(R) == \E n \in R \cup {0} : R = 1..n

\* The ranks of the invoices a tenant has in a series.
RangsAttribues(e, p, m) ==
    {base[f].numero.rang : f \in {g \in Factures :
        /\ base[g].etat = "emise" /\ base[g].ent = e
        /\ base[g].numero.prefixe = p /\ base[g].numero.mois = m}}

\* "Max + 1" without a lock still gives continuous series (service.py:362-367):
\* as long as no stale write hits a validated invoice, the numbers of a series
\* are 1..n, whatever validations, second validations of the same draft,
\* retries and crashes interleave.
SerieContinue ==
    Intact => \A e \in Entreprises, p \in {"FAC", "AV"}, m \in 1..MaxMois :
        Continue(RangsAttribues(e, p, m))

\* A number is given out once and for all: under the same condition no number
\* ever went to two invoices of a tenant, and no invoice ever had two numbers.
NumeroIrrevocable ==
    Intact => \A i, j \in journal :
        (i.ent = j.ent /\ i.numero = j.numero) <=> i.facture = j.facture

\* "Each failure means that a concurrent validation succeeded in the meantime"
\* (service.py:333-335), and the 409 of NumerotationConcurrenceError is only for
\* a request under heavy load: an attempt that is going to fail has had one more
\* validation succeed beside it, since the request came in, than the attempts
\* already lost.
ConflitSeulementSousCharge ==
    \A s \in Sessions : EnCours(s, "valider") =>
        \A m \in ouvert[s]..mois :
            Collision(base, demande[s].cible, demande[s].ent, NumeroCalcule(s, m))
            => concurrentes[s] > tentative[s]

\* The invoice a credit note corrects is validated and stays in the table: the
\* emitted-only guard, the foreign key and the delete guard together make sure
\* of it, even against stale deletes.
OrigineEmise ==
    \A f \in Factures : Existe(base, f) /\ base[f].origine # Aucun =>
        base[base[f].origine].etat = "emise"

\* A linked credit note is a credit note for good: whatever PATCHes race with
\* its validation, it ends in the AV series (service.py:226-235).
AvoirLieEnSerieAvoir ==
    \A f \in Factures : Existe(base, f) /\ base[f].origine # Aucun =>
        /\ base[f].type = "avoir"
        /\ base[f].etat = "emise" => base[f].numero.prefixe = "AV"

\* A linked credit note carries the client details its original was issued
\* with (service.py:465-477), as long as no stale write hits the original.
AvoirFigeCommeOrigine ==
    tardif = {} => \A f \in Factures : Existe(base, f) /\ base[f].origine # Aucun =>
        base[f].fige = base[base[f].origine].fige

\* The validated documents as pieces of the register of RegistreFactures.
Piece(f) == [facture |-> f, ent |-> base[f].ent, origine |-> base[f].origine,
             numero |-> base[f].numero]

PiecesEmises == {Piece(f) : f \in {g \in Factures : base[g].etat = "emise"}}

Registre == INSTANCE RegistreFactures WITH registre <- PiecesEmises, fiable <- Intact

\* The endpoints together keep the legal register (service.py:189-190, 279-280,
\* 362-367): every step of every request, retries, crashes and second
\* validations included, is invisible in it or adds the next piece of a series,
\* a credit note after its original, until a stale write breaks the promise.
RegistreLegal == Registre!Spec

\* "Seuls les brouillons sont modifiables : une facture validee est immuable
\* [...] et ne peut jamais etre supprimee" (service.py:189-190, 279-280): no
\* step changes the row of a validated invoice.  Unconditional: see the README.
FactureValideeImmuable ==
    [][\A f \in Factures : base[f].etat = "emise" => base'[f] = base[f]]_vars

\* "Une facture annulee (deja annulee par un avoir, un second creerait un
\* double credit)" (service.py:531-532): one validated credit note per invoice.
\* Unconditional: see the README.
UnSeulAvoirParFacture ==
    \A f, g \in Factures :
        /\ base[f].etat = "emise" /\ base[g].etat = "emise"
        /\ base[f].origine # Aucun /\ base[f].origine = base[g].origine
        => f = g
=============================================================================
