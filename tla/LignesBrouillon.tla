--------------------------- MODULE LignesBrouillon ---------------------------
(***************************************************************************)
(* Lines and totals of an invoice and of its credit note: PATCHes of the   *)
(* drafts, validation of the invoice, generation of the credit note.       *)
(*                                                                         *)
(* A request reads the document and its lines in one snapshot, then, in    *)
(* one commit: a PATCH with lines deletes the lines it read, inserts the   *)
(* new ones and sums these; a PATCH without sums the lines it read; the    *)
(* credit note takes the opposite of the amounts that were read.  The      *)
(* three totals are columns of the invoice, each written only if the sum   *)
(* differs from the value that was read.                                   *)
(*                                                                         *)
(* Numbers, guards on types and deletions are in module CycleFacture.      *)
(***************************************************************************)
EXTENDS Montants, Sequences, FiniteSets, FiniteSetsExt

CONSTANTS
    Sessions,   \* concurrent requests
    Articles,   \* sequence of the lines that payloads may hold
    MaxLignes   \* bound: ids the auto-increment key of facture_ligne gives out

ASSUME HypLignes == MaxLignes \in Nat
ASSUME HypArticles == Articles \in Seq([quantite : Int, prix : Int, taux : Nat])

\* One invoice, and the one credit note generated from it (bound).
Documents == {"facture", "avoir"}

Ids == 1..MaxLignes

VARIABLES
    etat,       \* status of each document
    lignes,     \* table facture_ligne, for the two documents
    totaux,     \* total_ht, total_tva and total_ttc of each document
    dernierId,  \* last id given to a line
    requete,    \* per session: the request being served and what it read
    seul,       \* history, per session: nobody wrote its document since it read it
    croise,     \* history: a request that was not alone has committed
    retouche    \* history: the lines of the credit note have been replaced

vars == <<etat, lignes, totaux, dernierId, requete, seul, croise, retouche>>

-----------------------------------------------------------------------------
(* Lines and totals *)

\* The row inserted for an article of a payload.
Ligne(id, doc, a) ==
    [id |-> id, doc |-> doc, article |-> a, ht |-> MontantHT(a), tva |-> MontantTVA(a)]

\* The row inserted in the credit note for a row of the invoice: the amounts are
\* those of the row, not computed again.
LigneOpposee(id, l) ==
    [id |-> id, doc |-> "avoir", article |-> Oppose(l.article), ht |-> -l.ht, tva |-> -l.tva]

LignesDe(doc) == {l \in lignes : l.doc = doc}

SommeHT(L) == MapThenSumSet(LAMBDA l : l.ht, L)
SommeTVA(L) == MapThenSumSet(LAMBDA l : l.tva, L)

\* _resync_totaux: the amounts are cents already, and quantize changes nothing.
Totaux(L) == [ht |-> SommeHT(L), tva |-> SommeTVA(L), ttc |-> SommeHT(L) + SommeTVA(L)]

TotauxNuls == [ht |-> 0, tva |-> 0, ttc |-> 0]
TotauxOpposes(t) == [ht |-> -t.ht, tva |-> -t.tva, ttc |-> -t.ttc]

\* Mutant of EcrireTotaux: the third column is forgotten.
EcrireTotauxSansTTC(lus, voulus, courants) == [voulus EXCEPT !.ttc = courants.ttc]

\* SQLAlchemy emits a column only if its value differs from the one it loaded.
EcrireTotaux(lus, voulus, courants) ==
    [c \in {"ht", "tva", "ttc"} |-> IF voulus[c] = lus[c] THEN courants[c] ELSE voulus[c]]

\* Mutant of Inserees: every row gets the same id.
InsereesMemeId(P, doc, dernier) == {Ligne(dernier + 1, doc, Articles[i]) : i \in P}

\* The rows inserted for a payload, with the ids that follow: P is the set of
\* the articles it holds, by their place in Articles.
Inserees(P, doc, dernier) ==
    {Ligne(dernier + Cardinality({k \in P : k <= i}), doc, Articles[i]) : i \in P}

\* Mutant of Copiees: the amounts keep their sign.
CopieesTellesQuelles(L, dernier) ==
    {[l EXCEPT !.id = dernier + Cardinality({k \in L : k.id <= l.id}), !.doc = "avoir"] : l \in L}

\* The rows inserted in the credit note for those of the invoice.
Copiees(L, dernier) ==
    {LigneOpposee(dernier + Cardinality({k \in L : k.id <= l.id}), l) : l \in L}
-----------------------------------------------------------------------------
(* Requests *)

\* The payloads: "lignes" absent, or at least one line.
Listes == SUBSET DOMAIN Articles \ {{}}
EnTete == {}
Saisies == Listes \cup {EnTete}

Demandes ==
    [op : {"modifier"}, doc : Documents, saisie : Saisies]
    \cup [op : {"valider", "avoir"}, doc : {"facture"}, saisie : {EnTete}]

SansRequete == [op |-> "aucune", doc |-> "facture", saisie |-> EnTete, lues |-> {},
                totaux |-> TotauxNuls]

\* The guards of the handlers.
Recevable(d) ==
    \/ d.op \in {"modifier", "valider"} /\ etat[d.doc] = "brouillon"
    \/ d.op = "avoir" /\ etat["facture"] = "emise"

Recevoir(s, d) ==
    /\ requete[s].op = "aucune"
    /\ Recevable(d)
    /\ requete' = [requete EXCEPT ![s] =
           [op |-> d.op, doc |-> d.doc, saisie |-> d.saisie, lues |-> LignesDe(d.doc),
            totaux |-> totaux[d.doc]]]
    /\ seul' = [seul EXCEPT ![s] = TRUE]
    /\ UNCHANGED <<etat, lignes, totaux, dernierId, croise, retouche>>

\* The request of s writes doc and commits: those that have read doc are no
\* longer alone.
Committer(s, doc) ==
    /\ requete' = [requete EXCEPT ![s] = SansRequete]
    /\ seul' = [t \in Sessions |-> seul[t] /\ t # s /\ requete[t].doc # doc]
    /\ croise' = (croise \/ ~seul[s])

\* Mutant of Sommees: the rows that were read are summed in every case.
SommeesLues(r) == r.lues

\* The rows _resync_totaux sums.
Sommees(r) == IF r.saisie = EnTete THEN r.lues ELSE Inserees(r.saisie, r.doc, dernierId)

\* PATCH /factures/{id}: deletion of the rows read, flush, _apply_lignes if the
\* payload has lines; _resync_totaux in both cases.
Modifier(s) ==
    LET r == requete[s] IN
    /\ r.op = "modifier"
    /\ dernierId + Cardinality(r.saisie) <= MaxLignes
    /\ lignes' = IF r.saisie = EnTete THEN lignes
                 ELSE (lignes \ r.lues) \cup Inserees(r.saisie, r.doc, dernierId)
    /\ dernierId' = dernierId + Cardinality(r.saisie)
    /\ totaux' = [totaux EXCEPT ![r.doc] = EcrireTotaux(r.totaux, Totaux(Sommees(r)), @)]
    /\ retouche' = (retouche \/ (r.doc = "avoir" /\ r.saisie # EnTete))
    /\ Committer(s, r.doc)
    /\ UNCHANGED etat

\* POST /factures/{id}/valider: the status; the amounts are not looked at.
Valider(s) ==
    /\ requete[s].op = "valider"
    /\ etat' = [etat EXCEPT !["facture"] = "emise"]
    /\ Committer(s, "facture")
    /\ UNCHANGED <<lignes, totaux, dernierId, retouche>>

\* POST /factures/{id}/avoir: the totals and the rows, from those that were read.
GenererAvoir(s) ==
    LET r == requete[s] IN
    /\ r.op = "avoir"
    /\ etat["avoir"] = "absente"
    /\ dernierId + Cardinality(r.lues) <= MaxLignes
    /\ etat' = [etat EXCEPT !["avoir"] = "brouillon"]
    /\ lignes' = lignes \cup Copiees(r.lues, dernierId)
    /\ dernierId' = dernierId + Cardinality(r.lues)
    /\ totaux' = [totaux EXCEPT !["avoir"] = TotauxOpposes(r.totaux)]
    /\ Committer(s, "avoir")
    /\ UNCHANGED retouche

\* Deadlock, lost connection, crash: the transaction leaves no trace.
Abandonner(s) ==
    /\ requete[s].op # "aucune"
    /\ requete' = [requete EXCEPT ![s] = SansRequete]
    /\ seul' = [seul EXCEPT ![s] = FALSE]
    /\ UNCHANGED <<etat, lignes, totaux, dernierId, croise, retouche>>

\* A draft as create_facture_brouillon leaves it.
Init ==
    /\ etat = [doc \in Documents |-> IF doc = "facture" THEN "brouillon" ELSE "absente"]
    /\ \E P \in Listes :
          /\ Cardinality(P) <= MaxLignes
          /\ lignes = Inserees(P, "facture", 0)
          /\ dernierId = Cardinality(P)
    /\ totaux = [doc \in Documents |-> Totaux(LignesDe(doc))]
    /\ requete = [s \in Sessions |-> SansRequete]
    /\ seul = [s \in Sessions |-> FALSE]
    /\ croise = FALSE
    /\ retouche = FALSE

Next ==
    \/ \E s \in Sessions, d \in Demandes : Recevoir(s, d)
    \/ \E s \in Sessions : Modifier(s) \/ Valider(s) \/ GenererAvoir(s) \/ Abandonner(s)

Spec == Init /\ [][Next]_vars
-----------------------------------------------------------------------------
(* Properties *)

LignesPossibles ==
    [id : Ids, doc : Documents, article : [quantite : Int, prix : Int, taux : Nat],
     ht : Int, tva : Int]
TotauxPossibles == [ht : Int, tva : Int, ttc : Int]

\* The variables have their types, and the ids of the lines are distinct.
TypeOK ==
    /\ etat \in [Documents -> {"absente", "brouillon", "emise"}]
    /\ lignes \subseteq LignesPossibles
    /\ \A k, l \in lignes : k.id = l.id => k = l
    /\ totaux \in [Documents -> TotauxPossibles]
    /\ dernierId \in 0..MaxLignes
    /\ requete \in [Sessions ->
           [op : {"aucune", "modifier", "valider", "avoir"}, doc : Documents,
            saisie : Saisies, lues : SUBSET LignesPossibles, totaux : TotauxPossibles]]
    /\ seul \in [Sessions -> BOOLEAN]
    /\ croise \in BOOLEAN /\ retouche \in BOOLEAN

\* "A draft with diverging totals is consistent again at the first PATCH"
\* (service.py:41-45): a PATCH of a document that nobody else writes meanwhile
\* leaves its totals equal to the sums of its lines, whatever came before it.
PatchIsoleRepare ==
    [][\A s \in Sessions, doc \in Documents :
          seul[s] /\ requete[s].doc = doc /\ Modifier(s)
          => totaux'[doc] = Totaux(LignesDe(doc)')]_vars

\* As long as no two requests on one document cross, the totals of the invoice
\* and of its credit note are the sums of their lines, column by column, from
\* the creation to the validation and after it (service.py:241-243).
TotauxSansCourse ==
    ~croise => \A doc \in Documents : totaux[doc] = Totaux(LignesDe(doc))

\* The lines of the credit note are those of the invoice, one by one, for the
\* opposite quantities.
LigneALigne ==
    \E h \in Bijection(LignesDe("facture"), LignesDe("avoir")) :
        \A l \in LignesDe("facture") : h[l].article = Oppose(l.article)

\* A credit note cancels its original to the cent (service.py:603-606, 612-627),
\* in each of the three totals: as it was generated, after PATCHes of its
\* header, and after its lines were entered again for the opposite quantities,
\* which rounds them again.
AvoirSolde ==
    ~croise /\ etat["avoir"] # "absente" /\ (retouche => LigneALigne)
    => totaux["avoir"] = TotauxOpposes(totaux["facture"])
=============================================================================
