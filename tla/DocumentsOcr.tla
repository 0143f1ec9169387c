---------------------------- MODULE DocumentsOcr ----------------------------
(***************************************************************************)
(* Life of an uploaded document of src/documents: the upload writes a file *)
(* and a row and leaves a background task (dispatch_extraction) that asks  *)
(* the external AI service for an extraction; the service answers later,   *)
(* maybe twice, on the OCR webhook (traiter_callback_ocr), which commits a *)
(* draft invoice, then, in a second transaction, its extraction and the    *)
(* status; meanwhile the document or the draft may be deleted.             *)
(*                                                                         *)
(* A handler's reads come from one snapshot (one step); its commit is      *)
(* another step, computed from what was read.  Any of them may end on an   *)
(* exception instead of its next step: a foreign key, a value its column   *)
(* refuses, a lost connection, a file system that refuses.  The process    *)
(* may stop once.                                                          *)
(***************************************************************************)
EXTENDS Naturals, FiniteSets

CONSTANTS
    Documents,      \* bound: the documents ever uploaded
    MaxBrouillons,  \* bound: draft invoices created from them
    MaxLivraisons,  \* bound: calls of the webhook for one accepted document
    Webhooks,       \* concurrent webhook requests
    Suppressions,   \* concurrent DELETE /documents/{id} requests
    Aucun           \* SQL NULL

Brouillons == 1..MaxBrouillons

ASSUME HypBornes == MaxBrouillons \in Nat /\ MaxLivraisons \in Nat
ASSUME HypAucun == Aucun \notin Documents \cup Brouillons

VARIABLES
    doc,         \* statut of each row of table document, "absent" if there is none
    fichiers,    \* documents whose file is in uploads/documents
    envois,      \* uploads that wrote their file and have not committed their row
    tache,       \* per document: its background task
    travaux,     \* documents the AI service has accepted to process
    livraisons,  \* per document: webhook calls so far
    webhook,     \* per webhook request: where it is and what it read
    suppression, \* per deletion request: where it is and what it read
    brouillons,  \* table facture: drafts and their id_document
    dernierId,   \* last id given to a draft
    extractions, \* table extraction_ocr
    incidents    \* history: what went wrong, and for which document or draft

vars == <<doc, fichiers, envois, tache, travaux, livraisons, webhook,
          suppression, brouillons, dernierId, extractions, incidents>>
ia == <<travaux, livraisons>>

Statuts == {"en_attente", "en_cours", "traite", "erreur"}
Finaux == {"traite", "erreur"}

\* Mutant of Existe: rows that have been deleted are still served.
ExisteOuSupprime(d) == doc[d] # "absent"

Existe(d) == doc[d] \in Statuts

Taches == [etape : {"aucune", "a_lancer", "repondue", "lue"},
           acceptee : BOOLEAN, statut : Statuts \cup {"absent"}]
SansTache == [etape |-> "aucune", acceptee |-> FALSE, statut |-> "absent"]

EtatsWebhook == [etape : {"libre", "lue", "creee", "echec", "relue"},
                 doc : Documents \cup {Aucun}, statut : Statuts \cup {"absent"},
                 brouillon : Brouillons \cup {Aucun}]
SansWebhook == [etape |-> "libre", doc |-> Aucun, statut |-> "absent",
                brouillon |-> Aucun]

Extractions == [doc : Documents, resultat : {"succes", "echec"},
                brouillon : Brouillons \cup {Aucun}]

EtatsSuppression == [etape : {"libre", "lue", "commise"},
                     doc : Documents \cup {Aucun}, lues : SUBSET Extractions]
SansSuppression == [etape |-> "libre", doc |-> Aucun, lues |-> {}]

Incidents == [quoi : {"arret", "sans ligne", "non efface", "tache perdue", "sans trace",
                      "reponse perdue", "redelivrance"},
              sur : Documents \cup Brouillons \cup {Aucun}]
Note(quoi, sur) == [quoi |-> quoi, sur |-> sur]

\* UPDATE of document.statut, emitted only if it differs from the value read.
EcrireStatut(d, voulu, lu) ==
    doc' = IF voulu = lu THEN doc ELSE [doc EXCEPT ![d] = voulu]
-----------------------------------------------------------------------------
(* Upload and background task *)

\* The file is written first...
Televerser(d) ==
    /\ doc[d] = "absent" /\ d \notin envois \cup fichiers
    /\ fichiers' = fichiers \cup {d}
    /\ envois' = envois \cup {d}
    /\ UNCHANGED <<doc, tache, ia, webhook, suppression, brouillons, dernierId,
                   extractions, incidents>>

\* ... then the row, and the task is scheduled for after the response, unless
\* the connection is lost after the commit (the refresh raises).
Enregistrer(d) ==
    /\ d \in envois
    /\ envois' = envois \ {d}
    /\ doc' = [doc EXCEPT ![d] = "en_attente"]
    /\ \/ tache' = [tache EXCEPT ![d].etape = "a_lancer"] /\ UNCHANGED incidents
       \/ incidents' = incidents \cup {Note("tache perdue", d)} /\ UNCHANGED tache
    /\ UNCHANGED <<fichiers, ia, webhook, suppression, brouillons, dernierId, extractions>>

\* The copy or the commit raises (500): nothing takes the file back.
AbandonnerEnvoi(d) ==
    /\ d \in envois
    /\ envois' = envois \ {d}
    /\ incidents' = incidents \cup {Note("sans ligne", d)}
    /\ UNCHANGED <<doc, fichiers, tache, ia, webhook, suppression, brouillons, dernierId,
                   extractions>>

\* trigger_extraction: the service accepts, refuses (or the file is gone), or
\* accepts and its answer is lost (time-out), which the task takes for a refusal.
Declencher(d) ==
    /\ tache[d].etape = "a_lancer"
    /\ \E acceptee \in BOOLEAN, recue \in BOOLEAN :
          /\ acceptee => d \in fichiers
          /\ acceptee \/ recue
          /\ travaux' = IF acceptee THEN travaux \cup {d} ELSE travaux
          /\ tache' = [tache EXCEPT ![d].etape = "repondue",
                                    ![d].acceptee = acceptee /\ recue]
          /\ incidents' = IF recue THEN incidents
                        ELSE incidents \cup {Note("reponse perdue", d)}
    /\ UNCHANGED <<doc, fichiers, envois, livraisons, webhook, suppression, brouillons,
                   dernierId, extractions>>

\* session.get(Document)
LireDocument(d) ==
    /\ tache[d].etape = "repondue"
    /\ tache' = IF Existe(d)
                THEN [tache EXCEPT ![d].etape = "lue", ![d].statut = doc[d]]
                ELSE [tache EXCEPT ![d] = SansTache]
    /\ UNCHANGED <<doc, fichiers, envois, ia, webhook, suppression, brouillons,
                   dernierId, extractions, incidents>>

\* Mutants of StatutApresEnvoi: the two tests are one, with one default; a refusal leaves the document as it is.
StatutOuErreur(acceptee, statut) ==
    IF acceptee /\ statut = "en_attente" THEN "en_cours" ELSE "erreur"
StatutSiAccepte(acceptee, statut) ==
    IF acceptee /\ statut = "en_attente" THEN "en_cours" ELSE statut

\* EN_COURS if accepted, unless the status has moved on; ERREUR if not.
StatutApresEnvoi(acceptee, statut) ==
    IF ~acceptee THEN "erreur"
    ELSE IF statut = "en_attente" THEN "en_cours" ELSE statut

\* The commit of the task (nothing is written on a row that has gone).
MajStatut(d) ==
    /\ tache[d].etape = "lue"
    /\ LET t == tache[d] IN
       IF Existe(d) THEN EcrireStatut(d, StatutApresEnvoi(t.acceptee, t.statut), t.statut)
       ELSE UNCHANGED doc
    /\ tache' = [tache EXCEPT ![d] = SansTache]
    /\ UNCHANGED <<fichiers, envois, ia, webhook, suppression, brouillons, dernierId,
                   extractions, incidents>>

\* An exception ends the task (no connection to the database, say): nobody retries it.
PerdreTache(d) ==
    /\ tache[d].etape # "aucune"
    /\ tache' = [tache EXCEPT ![d] = SansTache]
    /\ incidents' = incidents \cup {Note("tache perdue", d)}
    /\ UNCHANGED <<doc, fichiers, envois, ia, webhook, suppression, brouillons, dernierId,
                   extractions>>
-----------------------------------------------------------------------------
(* Webhook *)

\* The service delivers a result; a row that has gone is answered 404.
Recevoir(w, d, exploitable) ==
    /\ webhook[w].etape = "libre"
    /\ d \in travaux /\ livraisons[d] < MaxLivraisons
    /\ Existe(d)
    /\ livraisons' = [livraisons EXCEPT ![d] = @ + 1]
    /\ webhook' = [webhook EXCEPT ![w] =
           [etape |-> IF exploitable THEN "lue" ELSE "echec", doc |-> d,
            statut |-> doc[d], brouillon |-> Aucun]]
    /\ incidents' = IF livraisons[d] = 0 THEN incidents
                    ELSE incidents \cup {Note("redelivrance", d)}
    /\ UNCHANGED <<doc, fichiers, envois, tache, travaux, suppression, brouillons,
                   dernierId, extractions>>

Conclure(w) == webhook' = [webhook EXCEPT ![w] = SansWebhook]

\* First commit: the draft (create_facture_brouillon), whose foreign key needs
\* the document.
CreerBrouillon(w) ==
    /\ webhook[w].etape = "lue"
    /\ Existe(webhook[w].doc)
    /\ dernierId < MaxBrouillons
    /\ dernierId' = dernierId + 1
    /\ brouillons' = brouillons \cup {[id |-> dernierId', doc |-> webhook[w].doc]}
    /\ webhook' = [webhook EXCEPT ![w].etape = "creee", ![w].brouillon = dernierId']
    /\ UNCHANGED <<doc, fichiers, envois, tache, ia, suppression, extractions, incidents>>

\* Mutant of LierExtraction: the extraction does not carry id_facture.
TracerSansLier(w) ==
    extractions' = extractions \cup
        {[doc |-> webhook[w].doc, resultat |-> "succes", brouillon |-> Aucun]}

LierExtraction(w) ==
    extractions' = extractions \cup
        {[doc |-> webhook[w].doc, resultat |-> "succes", brouillon |-> webhook[w].brouillon]}

\* Second commit: status and extraction, whose foreign key needs the draft.
ConclureSucces(w) ==
    LET k == webhook[w] IN
    /\ k.etape = "creee"
    /\ [id |-> k.brouillon, doc |-> k.doc] \in brouillons
    /\ EcrireStatut(k.doc, "traite", k.statut)
    /\ LierExtraction(w)
    /\ Conclure(w)
    /\ UNCHANGED <<fichiers, envois, tache, ia, suppression, brouillons, dernierId,
                   incidents>>

\* _enregistrer_echec: after the rollback the document is read again...
RelireDocument(w) ==
    /\ webhook[w].etape = "echec"
    /\ Existe(webhook[w].doc)
    /\ webhook' = [webhook EXCEPT ![w].etape = "relue", ![w].statut = doc[webhook[w].doc]]
    /\ UNCHANGED <<doc, fichiers, envois, tache, ia, suppression, brouillons, dernierId,
                   extractions, incidents>>

\* ... and one transaction writes the error and its trace.
ConclureEchec(w) ==
    LET k == webhook[w] IN
    /\ k.etape = "relue"
    /\ Existe(k.doc)
    /\ EcrireStatut(k.doc, "erreur", k.statut)
    /\ extractions' = extractions \cup
          {[doc |-> k.doc, resultat |-> "echec", brouillon |-> Aucun]}
    /\ Conclure(w)
    /\ UNCHANGED <<fichiers, envois, tache, ia, suppression, brouillons, dernierId,
                   incidents>>

\* An exception ends the request (500): the document or the draft it refers to
\* has gone, a score does not fit its column, the connection is lost.  What its
\* first commit wrote stays.
Abandonner(w) ==
    /\ webhook[w].etape # "libre"
    /\ incidents' = IF webhook[w].etape = "creee"
                    THEN incidents \cup {Note("sans trace", webhook[w].brouillon)}
                    ELSE incidents
    /\ Conclure(w)
    /\ UNCHANGED <<doc, fichiers, envois, tache, ia, suppression, brouillons, dernierId,
                   extractions>>
-----------------------------------------------------------------------------
(* Deletions *)

\* DELETE /documents/{id}, refused (409) if an invoice references the document.
LirePourSupprimer(x, d) ==
    /\ suppression[x].etape = "libre"
    /\ Existe(d)
    /\ \A b \in brouillons : b.doc # d
    /\ suppression' = [suppression EXCEPT ![x] =
           [etape |-> "lue", doc |-> d, lues |-> {e \in extractions : e.doc = d}]]
    /\ UNCHANGED <<doc, fichiers, envois, tache, ia, webhook, brouillons, dernierId,
                   extractions, incidents>>

\* A row committed since the snapshot still references the document.
Reference(x) ==
    \/ \E b \in brouillons : b.doc = suppression[x].doc
    \/ \E e \in extractions : e.doc = suppression[x].doc /\ e \notin suppression[x].lues

\* The commit: the extractions it read, and the row.
CommettreSuppression(x) ==
    /\ suppression[x].etape = "lue"
    /\ ~Reference(x)
    /\ doc' = [doc EXCEPT ![suppression[x].doc] = "supprime"]
    /\ extractions' = extractions \ suppression[x].lues
    /\ suppression' = [suppression EXCEPT ![x].etape = "commise"]
    /\ UNCHANGED <<fichiers, envois, tache, ia, webhook, brouillons, dernierId, incidents>>

\* Mutant of Effacable: the file is removed before the commit.
EffacableAvant(x) == suppression[x].etape \in {"lue", "commise"}

\* The file goes only after the commit.
Effacable(x) == suppression[x].etape = "commise"

EffacerFichier(x) ==
    /\ Effacable(x)
    /\ fichiers' = fichiers \ {suppression[x].doc}
    /\ suppression' = [suppression EXCEPT ![x] = SansSuppression]
    /\ UNCHANGED <<doc, envois, tache, ia, webhook, brouillons, dernierId,
                   extractions, incidents>>

\* A foreign key or a lost connection undoes the transaction (500); once it is
\* committed, an OSError, or a path outside the directory, leaves the file (204).
AbandonnerSuppression(x) ==
    /\ suppression[x].etape # "libre"
    /\ incidents' = IF suppression[x].etape = "commise"
                    THEN incidents \cup {Note("non efface", suppression[x].doc)}
                    ELSE incidents
    /\ suppression' = [suppression EXCEPT ![x] = SansSuppression]
    /\ UNCHANGED <<doc, fichiers, envois, tache, ia, webhook, brouillons, dernierId,
                   extractions>>

\* delete_facture_brouillon detaches the extractions and deletes the draft.
SupprimerBrouillon(b) ==
    /\ b \in brouillons
    /\ brouillons' = brouillons \ {b}
    /\ extractions' = {IF e.brouillon = b.id THEN [e EXCEPT !.brouillon = Aucun] ELSE e :
                       e \in extractions}
    /\ UNCHANGED <<doc, fichiers, envois, tache, ia, webhook, suppression, dernierId,
                   incidents>>

\* What a stop of the process cuts short.
Interrompus ==
    {Note("sans ligne", d) : d \in envois}
    \cup {Note("tache perdue", d) : d \in {e \in Documents : tache[e].etape # "aucune"}}
    \cup {Note("sans trace", webhook[w].brouillon) :
              w \in {v \in Webhooks : webhook[v].etape = "creee"}}
    \cup {Note("non efface", suppression[x].doc) :
              x \in {y \in Suppressions : suppression[y].etape = "commise"}}

\* The process stops: tasks and requests under way vanish, committed rows stay.
Arreter ==
    /\ Note("arret", Aucun) \notin incidents
    /\ incidents' = incidents \cup Interrompus \cup {Note("arret", Aucun)}
    /\ envois' = {}
    /\ tache' = [d \in Documents |-> SansTache]
    /\ webhook' = [w \in Webhooks |-> SansWebhook]
    /\ suppression' = [x \in Suppressions |-> SansSuppression]
    /\ UNCHANGED <<doc, fichiers, ia, brouillons, dernierId, extractions>>
-----------------------------------------------------------------------------
Init ==
    /\ doc = [d \in Documents |-> "absent"]
    /\ fichiers = {} /\ envois = {}
    /\ tache = [d \in Documents |-> SansTache]
    /\ travaux = {} /\ livraisons = [d \in Documents |-> 0]
    /\ webhook = [w \in Webhooks |-> SansWebhook]
    /\ suppression = [x \in Suppressions |-> SansSuppression]
    /\ brouillons = {} /\ dernierId = 0
    /\ extractions = {}
    /\ incidents = {}

EtapeEnvoi(d) == Televerser(d) \/ Enregistrer(d) \/ AbandonnerEnvoi(d)
EtapeTache(d) == Declencher(d) \/ LireDocument(d) \/ MajStatut(d) \/ PerdreTache(d)
EtapeWebhook(w) ==
    \/ CreerBrouillon(w) \/ ConclureSucces(w)
    \/ RelireDocument(w) \/ ConclureEchec(w)
    \/ Abandonner(w)
EtapeSuppression(x) ==
    CommettreSuppression(x) \/ EffacerFichier(x) \/ AbandonnerSuppression(x)

Next ==
    \/ \E d \in Documents : EtapeEnvoi(d) \/ EtapeTache(d)
    \/ \E w \in Webhooks, d \in Documents, exploitable \in BOOLEAN :
          Recevoir(w, d, exploitable)
    \/ \E w \in Webhooks : EtapeWebhook(w)
    \/ \E x \in Suppressions, d \in Documents : LirePourSupprimer(x, d)
    \/ \E x \in Suppressions : EtapeSuppression(x)
    \/ \E b \in brouillons : SupprimerBrouillon(b)
    \/ Arreter

\* The event loop runs the background task of a process that stays up to its
\* end, if only by an exception (its calls have time-outs); nothing is asked of
\* the AI service.
Spec ==
    /\ Init
    /\ [][Next]_vars
    /\ \A d \in Documents : WF_vars(EtapeTache(d))
-----------------------------------------------------------------------------
(* Properties *)

\* The variables have their types.
TypeOK ==
    /\ doc \in [Documents -> Statuts \cup {"absent", "supprime"}]
    /\ fichiers \subseteq Documents /\ envois \subseteq Documents
    /\ tache \in [Documents -> Taches]
    /\ travaux \subseteq Documents
    /\ livraisons \in [Documents -> 0..MaxLivraisons]
    /\ webhook \in [Webhooks -> EtatsWebhook]
    /\ suppression \in [Suppressions -> EtatsSuppression]
    /\ brouillons \subseteq [id : Brouillons, doc : Documents]
    /\ dernierId \in 0..MaxBrouillons
    /\ extractions \subseteq Extractions
    /\ incidents \subseteq Incidents

\* "A failed transaction never leaves a row without its file" (router.py:274-275):
\* whatever deletions race and whatever fails, a document that is in the table
\* has its file.  The converse needs a failure of this very document: a file
\* without a row is being uploaded or erased, or its upload was cut short before
\* the row (router.py:82-112), or its erasure after it (router.py:291-301).
FichierDuDocument ==
    /\ \A d \in Documents : Existe(d) => d \in fichiers
    /\ \A d \in fichiers :
          \/ Existe(d) \/ d \in envois
          \/ \E x \in Suppressions : suppression[x].doc = d
          \/ Note("sans ligne", d) \in incidents \/ Note("non efface", d) \in incidents

\* A draft made from a document can be traced to it by its extraction, whatever
\* deliveries and deletions cross: untraced is only the draft of a request still
\* between its two commits, or of one that ended there, on an exception or by a
\* stop (service.py:212-259).
BrouillonTrace ==
    \A b \in brouillons :
        \/ [doc |-> b.doc, resultat |-> "succes", brouillon |-> b.id] \in extractions
        \/ \E w \in Webhooks : webhook[w].etape = "creee" /\ webhook[w].brouillon = b.id
        \/ Note("sans trace", b.id) \in incidents

\* The documents delivered once at most, and for which no answer was lost.
Sereins == {d \in Documents : /\ Note("reponse perdue", d) \notin incidents
                              /\ Note("redelivrance", d) \notin incidents}

\* A document whose answer was not lost and that is delivered once is not shown
\* in error while it has a draft, whatever fails in between: the user who uploads
\* it again bills nobody twice.
ErreurSansBrouillon ==
    \A b \in brouillons : b.doc \in Sereins => doc[b.doc] # "erreur"

\* A document does not wait for ever: its task ends in EN_COURS or ERREUR
\* (service.py:29-53) unless it was never scheduled, raised, or was cut by a stop;
\* no other task and no other request can leave it waiting.
SortDAttente ==
    \A d \in Documents :
        doc[d] = "en_attente" ~>
            (doc[d] # "en_attente" \/ Note("tache perdue", d) \in incidents)

\* "Si le webhook OCR a deja pose un statut final entre-temps, on ne l'ecrase
\* pas" (service.py:35-36): the background task never overwrites a final
\* status.  Unconditional: see the README.
StatutFinalConserve ==
    [][\A d \in Documents : MajStatut(d) /\ doc[d] \in Finaux => doc'[d] = doc[d]]_vars
=============================================================================
