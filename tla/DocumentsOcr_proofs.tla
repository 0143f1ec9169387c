-------------------------- MODULE DocumentsOcr_proofs --------------------------
(***************************************************************************)
(* Files, drafts and errors of the uploaded documents, for any number of   *)
(* documents, requests, deliveries and drafts.                             *)
(***************************************************************************)
EXTENDS DocumentsOcr, TLAPS

\* A webhook request names a document that the service has accepted and
\* delivered, and the draft it created, if it is still there, is of this document.
WebhookSuivi ==
    \A w \in Webhooks :
        /\ webhook[w].etape # "libre" =>
              /\ webhook[w].doc \in travaux
              /\ livraisons[webhook[w].doc] # 0
        /\ webhook[w].etape = "creee" =>
              /\ webhook[w].brouillon \in 1..dernierId
              /\ \A b \in brouillons : b.id = webhook[w].brouillon => b.doc = webhook[w].doc

\* A deletion names a document that has been in the table, and what it read of
\* its extractions; once committed, the row is gone.
SuppressionSuivie ==
    \A x \in Suppressions :
        /\ suppression[x].etape # "libre" =>
              /\ suppression[x].doc \in Documents
              /\ doc[suppression[x].doc] # "absent"
              /\ \A e \in suppression[x].lues : e.doc = suppression[x].doc
        /\ suppression[x].etape = "commise" => doc[suppression[x].doc] = "supprime"

\* The service works on what a task has sent it, and a task only runs on a row.
DocumentSuivi ==
    \A d \in Documents :
        /\ doc[d] = "absent" => d \notin travaux
        /\ d \in envois => doc[d] = "absent" /\ d \in fichiers
        /\ livraisons[d] # 0 => d \in travaux
        /\ tache[d].etape = "a_lancer" => d \notin travaux /\ doc[d] \notin {"absent", "erreur"}

\* Ids are not given twice, and the foreign key of a draft holds.
BrouillonSuivi ==
    /\ \A b \in brouillons :
          /\ b.id <= dernierId
          /\ Existe(b.doc)
          /\ livraisons[b.doc] # 0
    /\ \A a, b \in brouillons : a.id = b.id => a = b

\* The file of a deleted row is about to be erased by whoever deleted it.
FichierSuivi ==
    /\ \A d \in Documents : Existe(d) => d \in fichiers
    /\ \A d \in fichiers :
          \/ Existe(d) \/ d \in envois
          \/ \E x \in Suppressions : suppression[x].etape = "commise" /\ suppression[x].doc = d
          \/ Note("sans ligne", d) \in incidents \/ Note("non efface", d) \in incidents

\* As long as no answer is lost for it and it is not delivered again: a document
\* is in the hands of one webhook request, which finds neither a draft of it nor
\* an error; and only a delivery puts in error what the service has accepted.
LivraisonUnique ==
    /\ \A w \in Webhooks : webhook[w].doc \in Sereins =>
          /\ webhook[w].etape \in {"lue", "echec", "relue"} =>
                \A b \in brouillons : b.doc # webhook[w].doc
          /\ webhook[w].etape \in {"lue", "creee"} => doc[webhook[w].doc] # "erreur"
          /\ \A v \in Webhooks :
                /\ webhook[w].etape # "libre" /\ webhook[v].etape # "libre"
                /\ webhook[v].doc = webhook[w].doc
                => v = w
    /\ \A d \in travaux : d \in Sereins =>
          /\ doc[d] = "erreur" => livraisons[d] # 0
          /\ tache[d].etape \in {"repondue", "lue"} => tache[d].acceptee

\* The inductive invariant.
DocumentsInv ==
    /\ TypeOK
    /\ WebhookSuivi
    /\ SuppressionSuivie
    /\ DocumentSuivi
    /\ BrouillonSuivi
    /\ FichierSuivi
    /\ BrouillonTrace
    /\ LivraisonUnique
    /\ ErreurSansBrouillon
-----------------------------------------------------------------------------
(* Types of what is written *)

LEMMA TypesVides ==
    /\ SansTache \in Taches /\ SansTache.etape = "aucune"
    /\ SansWebhook \in EtatsWebhook /\ SansWebhook.etape = "libre"
    /\ SansSuppression \in EtatsSuppression /\ SansSuppression.etape = "libre"
    BY DEF SansTache, Taches, SansWebhook, EtatsWebhook, SansSuppression, EtatsSuppression

\* A failure is noted for one document or draft, and nothing noted is forgotten.
LEMMA NoteAjoutee ==
    ASSUME TypeOK, NEW quoi, NEW sur, Note(quoi, sur) \in Incidents,
           incidents' = incidents \cup {Note(quoi, sur)}
    PROVE  /\ incidents \subseteq incidents' /\ incidents' \subseteq Incidents
           /\ Note(quoi, sur) \in incidents'
           /\ Sereins' \subseteq Sereins
    BY DEF TypeOK, Sereins, Note

\* A commit of a status writes the one row, or nothing.
LEMMA StatutEcrit ==
    ASSUME TypeOK, NEW d \in Documents, NEW voulu \in Statuts, NEW lu,
           doc[d] \in Statuts, EcrireStatut(d, voulu, lu)
    PROVE  /\ doc' \in [Documents -> Statuts \cup {"absent", "supprime"}]
           /\ \A e \in Documents : \/ doc'[e] = doc[e]
                                   \/ e = d /\ voulu # lu /\ doc'[e] = voulu
           /\ \A e \in Documents : Existe(e)' <=> Existe(e)
           /\ \A e \in Documents : doc'[e] = "absent" <=> doc[e] = "absent"
           /\ \A e \in Documents : doc'[e] = "supprime" <=> doc[e] = "supprime"
    BY DEF TypeOK, EcrireStatut, Existe, Statuts
-----------------------------------------------------------------------------
(* Upload and background task *)

LEMMA TeleverserInv ==
    ASSUME DocumentsInv, NEW d \in Documents, Televerser(d)
    PROVE  DocumentsInv'
<1> USE DEF DocumentsInv
<1>1. /\ doc[d] = "absent" /\ d \notin fichiers
      /\ fichiers' = fichiers \cup {d} /\ envois' = envois \cup {d}
      /\ UNCHANGED <<doc, tache, travaux, livraisons, webhook, suppression, brouillons,
                     dernierId, extractions, incidents>>
    BY DEF Televerser, ia
<1>2. TypeOK'
    BY <1>1 DEF TypeOK
<1>3. WebhookSuivi' /\ SuppressionSuivie' /\ BrouillonSuivi'
    BY <1>1 DEF WebhookSuivi, SuppressionSuivie, BrouillonSuivi, Existe
<1>4. DocumentSuivi'
    BY <1>1 DEF DocumentSuivi
<1>5. FichierSuivi'
    BY <1>1 DEF FichierSuivi, Existe
<1>6. BrouillonTrace' /\ LivraisonUnique' /\ ErreurSansBrouillon'
    BY <1>1 DEF BrouillonTrace, LivraisonUnique, ErreurSansBrouillon, Sereins
<1> QED
    BY <1>2, <1>3, <1>4, <1>5, <1>6

LEMMA EnregistrerInv ==
    ASSUME DocumentsInv, NEW d \in Documents, Enregistrer(d)
    PROVE  DocumentsInv'
<1> USE DEF DocumentsInv
<1>1. /\ d \in envois /\ envois' = envois \ {d}
      /\ doc' = [doc EXCEPT ![d] = "en_attente"]
      /\ UNCHANGED <<fichiers, travaux, livraisons, webhook, suppression, brouillons,
                     dernierId, extractions>>
    BY DEF Enregistrer, ia
<1>2. doc[d] = "absent" /\ d \in fichiers /\ d \notin travaux
    BY <1>1 DEF DocumentSuivi
<1>3. /\ doc' \in [Documents -> Statuts \cup {"absent", "supprime"}]
      /\ doc'[d] = "en_attente" /\ \A e \in Documents \ {d} : doc'[e] = doc[e]
    BY <1>1 DEF TypeOK, Statuts
<1>4. /\ tache' \in [Documents -> Taches]
      /\ \A e \in Documents \ {d} : tache'[e] = tache[e]
  <2>1. \/ tache' = [tache EXCEPT ![d].etape = "a_lancer"] \/ tache' = tache
      BY DEF Enregistrer
  <2> QED
      BY <2>1 DEF TypeOK, Taches
<1>14. /\ incidents \subseteq incidents' /\ incidents' \subseteq Incidents
       /\ Sereins' \subseteq Sereins
  <2>1. Note("tache perdue", d) \in Incidents
      BY DEF Note, Incidents
  <2>2. UNCHANGED incidents \/ incidents' = incidents \cup {Note("tache perdue", d)}
      BY DEF Enregistrer
  <2>3. CASE UNCHANGED incidents
      BY <2>3 DEF Sereins, TypeOK
  <2>4. CASE incidents' = incidents \cup {Note("tache perdue", d)}
      BY <2>1, <2>4, NoteAjoutee
  <2> QED
      BY <2>2, <2>3, <2>4
<1>5. TypeOK'
    BY <1>1, <1>3, <1>4, <1>14 DEF TypeOK
<1>6. WebhookSuivi'
    BY <1>1 DEF WebhookSuivi
<1>7. SuppressionSuivie'
    BY <1>1, <1>2, <1>3 DEF SuppressionSuivie
<1>8. DocumentSuivi'
    BY <1>1, <1>2, <1>3, <1>4 DEF DocumentSuivi
<1>9. \A b \in brouillons : b.doc \in Documents \ {d}
    BY <1>2 DEF BrouillonSuivi, TypeOK, Existe, Statuts
<1>10. BrouillonSuivi' /\ BrouillonTrace'
    BY <1>1, <1>3, <1>9, <1>14 DEF BrouillonSuivi, BrouillonTrace, Existe
<1>11. FichierSuivi'
  <2>1. Existe(d)' /\ \A e \in Documents \ {d} : Existe(e)' = Existe(e)
      BY <1>3 DEF Existe, Statuts
  <2>2. fichiers \subseteq Documents
      BY DEF TypeOK
  <2> QED
      BY <1>1, <1>2, <1>14, <2>1, <2>2 DEF FichierSuivi
<1>12. LivraisonUnique'
  <2>1. \A w \in Webhooks : webhook[w].etape # "libre" => webhook[w].doc \in Documents \ {d}
      BY <1>2 DEF WebhookSuivi, TypeOK
  <2>2. travaux \subseteq Documents \ {d}
      BY <1>2 DEF TypeOK
  <2> QED
      BY <1>1, <1>3, <1>4, <1>14, <2>1, <2>2 DEF LivraisonUnique
<1>13. ErreurSansBrouillon'
    BY <1>1, <1>3, <1>9, <1>14 DEF ErreurSansBrouillon
<1> QED
    BY <1>5, <1>6, <1>7, <1>8, <1>10, <1>11, <1>12, <1>13

\* Only the file is left, and it is noted.
LEMMA AbandonnerEnvoiInv ==
    ASSUME DocumentsInv, NEW d \in Documents, AbandonnerEnvoi(d)
    PROVE  DocumentsInv'
<1> USE DEF DocumentsInv
<1>1. /\ d \in envois /\ envois' = envois \ {d}
      /\ incidents' = incidents \cup {Note("sans ligne", d)}
      /\ UNCHANGED <<doc, fichiers, tache, travaux, livraisons, webhook, suppression,
                     brouillons, dernierId, extractions>>
    BY DEF AbandonnerEnvoi, ia
<1>2. /\ incidents \subseteq incidents' /\ incidents' \subseteq Incidents
      /\ Note("sans ligne", d) \in incidents' /\ Sereins' \subseteq Sereins
  <2>1. Note("sans ligne", d) \in Incidents
      BY DEF Note, Incidents
  <2> QED
      BY <1>1, <2>1, NoteAjoutee
<1>3. TypeOK'
    BY <1>1, <1>2 DEF TypeOK
<1>4. WebhookSuivi' /\ SuppressionSuivie' /\ BrouillonSuivi'
    BY <1>1 DEF WebhookSuivi, SuppressionSuivie, BrouillonSuivi, Existe
<1>5. DocumentSuivi' /\ FichierSuivi'
    BY <1>1, <1>2 DEF DocumentSuivi, FichierSuivi, Existe
<1>6. BrouillonTrace' /\ LivraisonUnique' /\ ErreurSansBrouillon'
    BY <1>1, <1>2 DEF BrouillonTrace, LivraisonUnique, ErreurSansBrouillon
<1> QED
    BY <1>3, <1>4, <1>5, <1>6

LEMMA DeclencherInv ==
    ASSUME DocumentsInv, NEW d \in Documents, Declencher(d)
    PROVE  DocumentsInv'
<1> USE DEF DocumentsInv
<1>1. PICK acceptee \in BOOLEAN, recue \in BOOLEAN :
         /\ acceptee => d \in fichiers
         /\ acceptee \/ recue
         /\ travaux' = IF acceptee THEN travaux \cup {d} ELSE travaux
         /\ tache' = [tache EXCEPT ![d].etape = "repondue", ![d].acceptee = acceptee /\ recue]
         /\ incidents' = IF recue THEN incidents ELSE incidents \cup {Note("reponse perdue", d)}
    BY DEF Declencher
<1>2. /\ tache[d].etape = "a_lancer" /\ d \notin travaux /\ doc[d] # "erreur"
      /\ UNCHANGED <<doc, fichiers, envois, livraisons, webhook, suppression, brouillons,
                     dernierId, extractions>>
    BY DEF Declencher, DocumentSuivi
<1>3. /\ tache' \in [Documents -> Taches]
      /\ tache'[d].etape = "repondue" /\ tache'[d].acceptee = (acceptee /\ recue)
      /\ \A e \in Documents \ {d} : tache'[e] = tache[e]
    BY <1>1 DEF TypeOK, Taches
<1>4. travaux \subseteq travaux' /\ travaux' \subseteq travaux \cup {d} /\ (d \in travaux' <=> acceptee)
    BY <1>1, <1>2
<1>5. /\ incidents \subseteq incidents' /\ incidents' \subseteq Incidents
      /\ Sereins' \subseteq Sereins
      /\ d \in Sereins' => recue
  <2>1. Note("reponse perdue", d) \in Incidents
      BY DEF Note, Incidents
  <2>2. CASE recue
      BY <1>1, <2>2 DEF TypeOK, Sereins
  <2>3. CASE ~recue
    <3>1. incidents' = incidents \cup {Note("reponse perdue", d)}
        BY <1>1, <2>3
    <3>2. d \notin Sereins'
        BY <3>1 DEF Sereins
    <3> QED
        BY <2>1, <3>1, <3>2, NoteAjoutee
  <2> QED
      BY <2>2, <2>3
<1>6. TypeOK'
    BY <1>2, <1>3, <1>4, <1>5 DEF TypeOK
<1>7. WebhookSuivi' /\ SuppressionSuivie' /\ BrouillonSuivi'
    BY <1>2, <1>4 DEF WebhookSuivi, SuppressionSuivie, BrouillonSuivi, Existe
<1>8. DocumentSuivi'
    BY <1>2, <1>3, <1>4 DEF DocumentSuivi
<1>9. FichierSuivi' /\ BrouillonTrace'
    BY <1>2, <1>5 DEF FichierSuivi, BrouillonTrace, Existe
<1>10. LivraisonUnique'
  <2>1. travaux \subseteq Documents
      BY DEF TypeOK
  <2> QED
      BY <1>2, <1>3, <1>4, <1>5, <2>1 DEF LivraisonUnique
<1>11. ErreurSansBrouillon'
    BY <1>2, <1>5 DEF ErreurSansBrouillon
<1> QED
    BY <1>6, <1>7, <1>8, <1>9, <1>10, <1>11

LEMMA LireDocumentInv ==
    ASSUME DocumentsInv, NEW d \in Documents, LireDocument(d)
    PROVE  DocumentsInv'
<1> USE DEF DocumentsInv
<1>1. /\ tache[d].etape = "repondue"
      /\ UNCHANGED <<doc, fichiers, envois, travaux, livraisons, webhook, suppression,
                     brouillons, dernierId, extractions, incidents>>
    BY DEF LireDocument, ia
<1>2. /\ tache' \in [Documents -> Taches]
      /\ tache'[d].etape \in {"aucune", "lue"}
      /\ tache'[d].etape = "lue" => tache'[d].acceptee = tache[d].acceptee
      /\ \A e \in Documents \ {d} : tache'[e] = tache[e]
  <2>1. CASE Existe(d)
    <3>1. tache' = [tache EXCEPT ![d].etape = "lue", ![d].statut = doc[d]]
        BY <2>1 DEF LireDocument
    <3> QED
        BY <2>1, <3>1 DEF TypeOK, Taches, Existe
  <2>2. CASE ~Existe(d)
      BY <2>2, TypesVides DEF LireDocument, TypeOK
  <2> QED
      BY <2>1, <2>2
<1>3. TypeOK'
    BY <1>1, <1>2 DEF TypeOK
<1>4. WebhookSuivi' /\ SuppressionSuivie' /\ BrouillonSuivi' /\ FichierSuivi'
    BY <1>1 DEF WebhookSuivi, SuppressionSuivie, BrouillonSuivi, FichierSuivi, Existe
<1>5. DocumentSuivi'
    BY <1>1, <1>2 DEF DocumentSuivi
<1>6. BrouillonTrace' /\ ErreurSansBrouillon'
    BY <1>1 DEF BrouillonTrace, ErreurSansBrouillon, Sereins
<1>7. LivraisonUnique'
  <2>1. travaux \subseteq Documents
      BY DEF TypeOK
  <2> QED
      BY <1>1, <1>2, <2>1 DEF LivraisonUnique, Sereins
<1> QED
    BY <1>3, <1>4, <1>5, <1>6, <1>7

\* A lost task leaves its document as it is.
LEMMA PerdreTacheInv ==
    ASSUME DocumentsInv, NEW d \in Documents, PerdreTache(d)
    PROVE  DocumentsInv'
<1> USE DEF DocumentsInv
<1>1. /\ tache' = [tache EXCEPT ![d] = SansTache]
      /\ incidents' = incidents \cup {Note("tache perdue", d)}
      /\ UNCHANGED <<doc, fichiers, envois, travaux, livraisons, webhook, suppression,
                     brouillons, dernierId, extractions>>
    BY DEF PerdreTache, ia
<1>2. /\ incidents \subseteq incidents' /\ incidents' \subseteq Incidents
      /\ Sereins' \subseteq Sereins
  <2>1. Note("tache perdue", d) \in Incidents
      BY DEF Note, Incidents
  <2> QED
      BY <1>1, <2>1, NoteAjoutee
<1>3. /\ tache' \in [Documents -> Taches] /\ tache'[d].etape = "aucune"
      /\ \A e \in Documents \ {d} : tache'[e] = tache[e]
    BY <1>1, TypesVides DEF TypeOK
<1>4. TypeOK'
    BY <1>1, <1>2, <1>3 DEF TypeOK
<1>5. WebhookSuivi' /\ SuppressionSuivie' /\ BrouillonSuivi'
    BY <1>1 DEF WebhookSuivi, SuppressionSuivie, BrouillonSuivi, Existe
<1>6. DocumentSuivi' /\ FichierSuivi'
    BY <1>1, <1>2, <1>3 DEF DocumentSuivi, FichierSuivi, Existe
<1>7. BrouillonTrace' /\ ErreurSansBrouillon'
    BY <1>1, <1>2 DEF BrouillonTrace, ErreurSansBrouillon
<1>8. LivraisonUnique'
  <2>1. travaux \subseteq Documents
      BY DEF TypeOK
  <2> QED
      BY <1>1, <1>2, <1>3, <2>1 DEF LivraisonUnique
<1> QED
    BY <1>4, <1>5, <1>6, <1>7, <1>8

\* The conjuncts that only depend on which rows exist survive a change of status.
LEMMA StatutSuivi ==
    ASSUME DocumentsInv,
           \A e \in Documents : doc'[e] = "absent" <=> doc[e] = "absent",
           \A e \in Documents : doc'[e] = "supprime" <=> doc[e] = "supprime",
           \A e \in Documents : Existe(e)' <=> Existe(e),
           incidents \subseteq incidents',
           UNCHANGED <<fichiers, envois, suppression, brouillons, dernierId, livraisons>>
    PROVE  SuppressionSuivie' /\ BrouillonSuivi' /\ FichierSuivi'
<1> USE DEF DocumentsInv
<1>1. SuppressionSuivie'
    BY DEF SuppressionSuivie
<1>2. \A b \in brouillons : b.doc \in Documents
    BY DEF TypeOK
<1>3. BrouillonSuivi'
    BY <1>2 DEF BrouillonSuivi
<1>4. fichiers \subseteq Documents
    BY DEF TypeOK
<1>5. FichierSuivi'
    BY <1>4 DEF FichierSuivi
<1> QED
    BY <1>1, <1>3, <1>5

\* The task writes an error only if the service has accepted nothing, or if its
\* answer was lost.
LEMMA MajStatutInv ==
    ASSUME DocumentsInv, NEW d \in Documents, MajStatut(d)
    PROVE  DocumentsInv'
<1> USE DEF DocumentsInv
<1> DEFINE t == tache[d]
           voulu == StatutApresEnvoi(t.acceptee, t.statut)
<1>1. /\ t.etape = "lue" /\ tache' = [tache EXCEPT ![d] = SansTache]
      /\ UNCHANGED <<fichiers, envois, travaux, livraisons, webhook, suppression,
                     brouillons, dernierId, extractions, incidents>>
    BY DEF MajStatut, ia
<1>2. /\ tache' \in [Documents -> Taches] /\ tache'[d].etape = "aucune"
      /\ \A e \in Documents \ {d} : tache'[e] = tache[e]
    BY <1>1, TypesVides DEF TypeOK
<1>3. voulu # t.statut => voulu \in {"en_cours", "erreur"} /\ (voulu = "erreur" => ~t.acceptee)
    BY DEF StatutApresEnvoi
<1>4. \/ UNCHANGED doc
      \/ /\ Existe(d) /\ voulu # t.statut /\ doc' = [doc EXCEPT ![d] = voulu]
    BY DEF MajStatut, EcrireStatut
<1> HIDE DEF voulu
<1>5. /\ doc' \in [Documents -> Statuts \cup {"absent", "supprime"}]
      /\ \A e \in Documents : \/ doc'[e] = doc[e]
                              \/ /\ e = d /\ doc'[e] \in {"en_cours", "erreur"}
                                 /\ (doc'[e] = "erreur" => ~t.acceptee)
      /\ \A e \in Documents : Existe(e)' <=> Existe(e)
      /\ \A e \in Documents : doc'[e] = "absent" <=> doc[e] = "absent"
      /\ \A e \in Documents : doc'[e] = "supprime" <=> doc[e] = "supprime"
    BY <1>3, <1>4 DEF TypeOK, Existe, Statuts
<1>6. TypeOK'
    BY <1>1, <1>2, <1>5 DEF TypeOK
<1>7. SuppressionSuivie' /\ BrouillonSuivi' /\ FichierSuivi'
    BY <1>1, <1>5, StatutSuivi
<1>8. WebhookSuivi' /\ BrouillonTrace'
    BY <1>1 DEF WebhookSuivi, BrouillonTrace
<1>9. DocumentSuivi'
    BY <1>1, <1>2, <1>5 DEF DocumentSuivi
<1>10. \A e \in travaux : e \in Sereins /\ doc'[e] = "erreur" => doc[e] = "erreur"
  <2>1. d \in Sereins /\ d \in travaux => t.acceptee
      BY <1>1 DEF LivraisonUnique
  <2>2. travaux \subseteq Documents
      BY DEF TypeOK
  <2> QED
      BY <1>5, <2>1, <2>2
<1>14. Sereins' = Sereins
    BY <1>1 DEF Sereins
<1>11. LivraisonUnique'
  <2>1. travaux \subseteq Documents /\ \A w \in Webhooks : webhook[w].etape # "libre" => webhook[w].doc \in travaux
      BY DEF TypeOK, WebhookSuivi
  <2> QED
      BY <1>1, <1>2, <1>10, <1>14, <2>1 DEF LivraisonUnique
<1>12. ErreurSansBrouillon'
  <2>1. \A b \in brouillons : b.doc \in travaux
      BY DEF BrouillonSuivi, DocumentSuivi, TypeOK
  <2> QED
      BY <1>1, <1>10, <1>14, <2>1 DEF ErreurSansBrouillon
<1> QED
    BY <1>6, <1>7, <1>8, <1>9, <1>11, <1>12
-----------------------------------------------------------------------------
(* Webhook *)

LEMMA RecevoirInv ==
    ASSUME DocumentsInv, NEW w \in Webhooks, NEW d \in Documents, NEW exploitable \in BOOLEAN,
           Recevoir(w, d, exploitable)
    PROVE  DocumentsInv'
<1> USE DEF DocumentsInv
<1>1. /\ webhook[w].etape = "libre" /\ d \in travaux /\ livraisons[d] < MaxLivraisons /\ Existe(d)
      /\ livraisons' = [livraisons EXCEPT ![d] = @ + 1]
      /\ incidents' = IF livraisons[d] = 0 THEN incidents
                      ELSE incidents \cup {Note("redelivrance", d)}
      /\ UNCHANGED <<doc, fichiers, envois, tache, travaux, suppression, brouillons,
                     dernierId, extractions>>
    BY DEF Recevoir
<1> DEFINE k == [etape |-> IF exploitable THEN "lue" ELSE "echec", doc |-> d,
                 statut |-> doc[d], brouillon |-> Aucun]
<1>2. /\ k \in EtatsWebhook /\ k.etape \in {"lue", "echec"} /\ k.doc = d
      /\ webhook' = [webhook EXCEPT ![w] = k]
    BY <1>1 DEF Recevoir, EtatsWebhook, Existe
<1> HIDE DEF k
<1>3. /\ webhook' \in [Webhooks -> EtatsWebhook] /\ webhook'[w] = k
      /\ \A v \in Webhooks \ {w} : webhook'[v] = webhook[v]
    BY <1>2 DEF TypeOK
<1>4. /\ livraisons' \in [Documents -> 0..MaxLivraisons]
      /\ \A e \in Documents : livraisons[e] # 0 => livraisons'[e] # 0
      /\ livraisons'[d] # 0
      /\ \A e \in Documents \ {d} : livraisons'[e] = livraisons[e]
  <2>1. MaxLivraisons \in Nat /\ livraisons \in [Documents -> 0..MaxLivraisons]
      BY HypBornes DEF TypeOK
  <2>2. livraisons[d] + 1 \in 0..MaxLivraisons /\ livraisons[d] + 1 # 0
      BY <1>1, <2>1
  <2> QED
      BY <1>1, <2>1, <2>2
<1>5. /\ incidents \subseteq incidents' /\ incidents' \subseteq Incidents
      /\ Sereins' \subseteq Sereins
      /\ d \in Sereins' => livraisons[d] = 0
  <2>1. Note("redelivrance", d) \in Incidents
      BY DEF Note, Incidents
  <2>2. CASE livraisons[d] = 0
      BY <1>1, <2>2 DEF TypeOK, Sereins
  <2>3. CASE livraisons[d] # 0
    <3>1. incidents' = incidents \cup {Note("redelivrance", d)}
        BY <1>1, <2>3
    <3>2. d \notin Sereins'
        BY <3>1 DEF Sereins
    <3> QED
        BY <2>1, <3>1, <3>2, NoteAjoutee
  <2> QED
      BY <2>2, <2>3
<1>6. TypeOK'
    BY <1>1, <1>3, <1>4, <1>5 DEF TypeOK
<1>7. WebhookSuivi'
  <2>1. travaux \subseteq Documents
      BY DEF TypeOK
  <2> QED
      BY <1>1, <1>2, <1>3, <1>4, <2>1 DEF WebhookSuivi
<1>8. SuppressionSuivie' /\ DocumentSuivi'
    BY <1>1, <1>4 DEF SuppressionSuivie, DocumentSuivi
<1>9. BrouillonSuivi'
  <2>1. \A b \in brouillons : b.doc \in Documents
      BY DEF TypeOK
  <2> QED
      BY <1>1, <1>4, <2>1 DEF BrouillonSuivi, Existe
<1>10. FichierSuivi'
    BY <1>1, <1>5 DEF FichierSuivi, Existe
<1>11. BrouillonTrace'
  <2>1. \A v \in Webhooks : webhook[v].etape = "creee" => webhook'[v] = webhook[v]
      BY <1>1, <1>3
  <2> QED
      BY <1>1, <1>5, <2>1 DEF BrouillonTrace
<1>12. LivraisonUnique'
  <2>1. d \in Sereins' => \A v \in Webhooks : webhook[v].etape # "libre" => webhook[v].doc # d
      BY <1>5 DEF WebhookSuivi
  <2>2. d \in Sereins' => \A b \in brouillons : b.doc # d
      BY <1>5 DEF BrouillonSuivi
  <2>3. d \in Sereins' => doc[d] # "erreur"
      BY <1>1, <1>5 DEF LivraisonUnique
  <2>4. \A e \in travaux : livraisons[e] # 0 => livraisons'[e] # 0
      BY <1>4 DEF TypeOK
  <2>5. \A v \in Webhooks : webhook'[v].doc \in Sereins' =>
           /\ webhook'[v].etape \in {"lue", "echec", "relue"} =>
                 \A b \in brouillons' : b.doc # webhook'[v].doc
           /\ webhook'[v].etape \in {"lue", "creee"} => doc'[webhook'[v].doc] # "erreur"
           /\ \A u \in Webhooks :
                 /\ webhook'[v].etape # "libre" /\ webhook'[u].etape # "libre"
                 /\ webhook'[u].doc = webhook'[v].doc
                 => u = v
    <3> SUFFICES ASSUME NEW v \in Webhooks, webhook'[v].doc \in Sereins'
                 PROVE  /\ webhook'[v].etape \in {"lue", "echec", "relue"} =>
                              \A b \in brouillons' : b.doc # webhook'[v].doc
                        /\ webhook'[v].etape \in {"lue", "creee"} => doc'[webhook'[v].doc] # "erreur"
                        /\ \A u \in Webhooks :
                              /\ webhook'[v].etape # "libre" /\ webhook'[u].etape # "libre"
                              /\ webhook'[u].doc = webhook'[v].doc
                              => u = v
        OBVIOUS
    <3>1. CASE v = w
        BY <1>1, <1>2, <1>3, <2>1, <2>2, <2>3, <3>1
    <3>2. CASE v # w
      <4>1. webhook'[v] = webhook[v] /\ webhook[v].doc \in Sereins
          BY <1>3, <1>5, <3>2
      <4>2. webhook[v].etape # "libre" => webhook[v].doc # d
          BY <2>1, <3>2, <4>1
      <4> QED
          BY <1>1, <1>2, <1>3, <4>1, <4>2 DEF LivraisonUnique
    <3> QED
        BY <3>1, <3>2
  <2>6. \A e \in travaux' : e \in Sereins' =>
           /\ doc'[e] = "erreur" => livraisons'[e] # 0
           /\ tache'[e].etape \in {"repondue", "lue"} => tache'[e].acceptee
      BY <1>1, <1>5, <2>4 DEF LivraisonUnique
  <2> QED
      BY <2>5, <2>6 DEF LivraisonUnique
<1>13. ErreurSansBrouillon'
    BY <1>1, <1>5 DEF ErreurSansBrouillon
<1> QED
    BY <1>6, <1>7, <1>8, <1>9, <1>10, <1>11, <1>12, <1>13

\* The end of a webhook request.
Libere(w) ==
    /\ webhook' \in [Webhooks -> EtatsWebhook]
    /\ webhook'[w].etape = "libre"
    /\ \A v \in Webhooks \ {w} : webhook'[v] = webhook[v]

LEMMA Conclusion ==
    ASSUME TypeOK, NEW w \in Webhooks, Conclure(w)
    PROVE  Libere(w)
    BY TypesVides DEF TypeOK, Conclure, Libere

\* The conjuncts about webhooks and documents, when a request ends and writes a
\* status at most; an error, only on what it was the one to deliver.
LEMMA LibereInv ==
    ASSUME DocumentsInv, NEW w \in Webhooks, Libere(w), webhook[w].etape # "libre",
           \A e \in Documents : doc'[e] = "absent" <=> doc[e] = "absent",
           \A e \in Documents : doc'[e] = "supprime" <=> doc[e] = "supprime",
           \A e \in Documents : Existe(e)' <=> Existe(e),
           \A e \in Documents : doc'[e] = "erreur" =>
               doc[e] = "erreur" \/ (e = webhook[w].doc /\ webhook[w].etape = "relue"),
           incidents \subseteq incidents', Sereins' \subseteq Sereins,
           UNCHANGED <<fichiers, envois, tache, ia, suppression, brouillons, dernierId>>
    PROVE  /\ WebhookSuivi' /\ SuppressionSuivie' /\ DocumentSuivi' /\ BrouillonSuivi'
           /\ FichierSuivi' /\ LivraisonUnique' /\ ErreurSansBrouillon'
<1> USE DEF DocumentsInv
<1>1. UNCHANGED <<travaux, livraisons>>
    BY DEF ia
<1>2. travaux \subseteq Documents /\ webhook[w].doc \in travaux /\ livraisons[webhook[w].doc] # 0
    BY DEF TypeOK, WebhookSuivi
<1>3. WebhookSuivi'
    BY <1>1 DEF WebhookSuivi, Libere
<1>4. SuppressionSuivie' /\ BrouillonSuivi' /\ FichierSuivi'
    BY <1>1, StatutSuivi
<1>5. DocumentSuivi'
    BY <1>1, <1>2 DEF DocumentSuivi
<1>6. /\ \A b \in brouillons : b.doc \in Sereins' => doc'[b.doc] # "erreur"
      /\ \A v \in Webhooks \ {w} :
            webhook[v].doc \in Sereins' /\ webhook[v].etape \in {"lue", "creee"}
            => doc'[webhook[v].doc] # "erreur"
      /\ \A e \in travaux : e \in Sereins' /\ doc'[e] = "erreur" => livraisons[e] # 0
  <2>1. \A b \in brouillons : b.doc \in Documents /\ (b.doc \in Sereins' => doc[b.doc] # "erreur")
      BY DEF TypeOK, ErreurSansBrouillon
  <2>2. webhook[w].etape = "relue" /\ webhook[w].doc \in Sereins =>
            \A b \in brouillons : b.doc # webhook[w].doc
      BY DEF LivraisonUnique
  <2>3. \A v \in Webhooks \ {w} : webhook[v].etape # "libre" =>
            webhook[v].doc \in Documents /\ (webhook[v].doc \in Sereins' => webhook[v].doc # webhook[w].doc)
      BY <1>2 DEF LivraisonUnique, WebhookSuivi
  <2>4. \A v \in Webhooks : webhook[v].doc \in Sereins' /\ webhook[v].etape \in {"lue", "creee"}
            => doc[webhook[v].doc] # "erreur"
      BY DEF LivraisonUnique
  <2>5. \A e \in travaux : e \in Sereins' /\ doc[e] = "erreur" => livraisons[e] # 0
      BY DEF LivraisonUnique
  <2> QED
      BY <1>2, <2>1, <2>2, <2>3, <2>4, <2>5
<1>7. LivraisonUnique'
    BY <1>1, <1>6 DEF LivraisonUnique, Libere
<1>8. ErreurSansBrouillon'
    BY <1>6 DEF ErreurSansBrouillon
<1> QED
    BY <1>3, <1>4, <1>5, <1>7, <1>8

\* A draft is created under a new id, and carried by the request until its
\* second commit.
LEMMA CreerBrouillonInv ==
    ASSUME DocumentsInv, NEW w \in Webhooks, CreerBrouillon(w)
    PROVE  DocumentsInv'
<1> USE DEF DocumentsInv
<1> DEFINE d == webhook[w].doc
           n == dernierId + 1
<1>1. /\ webhook[w].etape = "lue"
      /\ UNCHANGED <<doc, fichiers, envois, tache, travaux, livraisons, suppression,
                     extractions, incidents>>
    BY DEF CreerBrouillon, ia
<1>2. d \in travaux /\ d \in Documents /\ livraisons[d] # 0
    BY <1>1 DEF WebhookSuivi, TypeOK
<1>3. Sereins' = Sereins
    BY <1>1 DEF Sereins
<1>4. /\ Existe(d) /\ dernierId < MaxBrouillons /\ dernierId' = n
      /\ brouillons' = brouillons \cup {[id |-> n, doc |-> d]}
      /\ webhook' = [webhook EXCEPT ![w].etape = "creee", ![w].brouillon = n]
    BY DEF CreerBrouillon
<1>5. dernierId \in Nat /\ n \in Brouillons /\ n \in 0..MaxBrouillons /\ n \in 1..n
      /\ \A i \in 1..dernierId : i \in 1..n /\ i # n
  <2>1. MaxBrouillons \in Nat /\ dernierId \in 0..MaxBrouillons /\ dernierId < MaxBrouillons
      BY <1>4, HypBornes DEF TypeOK
  <2>2. dernierId \in Nat /\ dernierId + 1 \in 1..MaxBrouillons
      BY <2>1
  <2> QED
      BY <2>1, <2>2 DEF Brouillons
<1>6. /\ webhook' \in [Webhooks -> EtatsWebhook]
      /\ webhook'[w].etape = "creee" /\ webhook'[w].brouillon = n /\ webhook'[w].doc = d
      /\ \A v \in Webhooks \ {w} : webhook'[v] = webhook[v]
    BY <1>4, <1>5 DEF TypeOK, EtatsWebhook
<1>7. \A b \in brouillons : b.id \in Nat /\ b.id <= dernierId /\ b.id # n /\ b.id <= n
  <2>1. \A b \in brouillons : b.id \in 1..MaxBrouillons /\ b.id <= dernierId
      BY DEF BrouillonSuivi, TypeOK, Brouillons
  <2> QED
      BY <1>5, <2>1, HypBornes
<1>8. TypeOK'
  <2>1. [id |-> n, doc |-> d] \in [id : Brouillons, doc : Documents]
      BY <1>2, <1>5
  <2>2. brouillons' \subseteq [id : Brouillons, doc : Documents]
      BY <1>4, <2>1 DEF TypeOK
  <2> QED
      BY <1>1, <1>4, <1>5, <1>6, <2>2 DEF TypeOK
<1>9. WebhookSuivi'
  <2> SUFFICES ASSUME NEW v \in Webhooks
               PROVE  /\ webhook'[v].etape # "libre" =>
                            webhook'[v].doc \in travaux' /\ livraisons'[webhook'[v].doc] # 0
                      /\ webhook'[v].etape = "creee" =>
                            /\ webhook'[v].brouillon \in 1..dernierId'
                            /\ \A b \in brouillons' : b.id = webhook'[v].brouillon
                                                      => b.doc = webhook'[v].doc
      BY DEF WebhookSuivi
  <2>1. CASE v = w
      BY <1>1, <1>2, <1>4, <1>5, <1>6, <1>7, <2>1
  <2>2. CASE v # w
      BY <1>1, <1>4, <1>5, <1>6, <2>2 DEF WebhookSuivi
  <2> QED
      BY <2>1, <2>2
<1>10. SuppressionSuivie' /\ DocumentSuivi' /\ FichierSuivi'
    BY <1>1 DEF SuppressionSuivie, DocumentSuivi, FichierSuivi, Existe
<1>11. BrouillonSuivi'
    BY <1>1, <1>2, <1>4, <1>5, <1>7 DEF BrouillonSuivi, Existe
<1>12. BrouillonTrace'
  <2>1. \A v \in Webhooks : webhook[v].etape = "creee" => webhook'[v] = webhook[v]
      BY <1>1, <1>6
  <2>2. \A b \in brouillons' : b \in brouillons \/ b.id = n
      BY <1>4
  <2>3. ASSUME NEW b \in brouillons', b.id = n
        PROVE  webhook'[w].etape = "creee" /\ webhook'[w].brouillon = b.id
      BY <1>6, <2>3
  <2> QED
      BY <1>1, <2>1, <2>2, <2>3 DEF BrouillonTrace
<1>13. d \in Sereins => doc[d] # "erreur" /\ \A v \in Webhooks \ {w} :
                       webhook[v].etape # "libre" => webhook[v].doc # d
    BY <1>1 DEF LivraisonUnique
<1>14. LivraisonUnique'
    BY <1>1, <1>2, <1>3, <1>4, <1>6, <1>13 DEF LivraisonUnique
<1>15. ErreurSansBrouillon'
    BY <1>1, <1>3, <1>4, <1>13 DEF ErreurSansBrouillon
<1> QED
    BY <1>8, <1>9, <1>10, <1>11, <1>12, <1>14, <1>15

LEMMA ConclureSuccesInv ==
    ASSUME DocumentsInv, NEW w \in Webhooks, ConclureSucces(w)
    PROVE  DocumentsInv'
<1> USE DEF DocumentsInv
<1> DEFINE k == webhook[w]
           b0 == [id |-> k.brouillon, doc |-> k.doc]
           e0 == [doc |-> k.doc, resultat |-> "succes", brouillon |-> k.brouillon]
<1>1. /\ k.etape = "creee" /\ b0 \in brouillons /\ Libere(w)
      /\ UNCHANGED <<fichiers, envois, tache, ia, suppression, brouillons, dernierId, incidents>>
    BY Conclusion DEF ConclureSucces
<1>2. k.doc \in Documents /\ k.brouillon \in Brouillons
    BY <1>1 DEF TypeOK
<1>3. /\ doc' \in [Documents -> Statuts \cup {"absent", "supprime"}]
      /\ \A e \in Documents : /\ doc'[e] = "absent" <=> doc[e] = "absent"
                              /\ doc'[e] = "supprime" <=> doc[e] = "supprime"
                              /\ Existe(e)' <=> Existe(e)
                              /\ doc'[e] = "erreur" => doc[e] = "erreur"
  <2>1. doc[k.doc] \in Statuts
      BY <1>1 DEF BrouillonSuivi, Existe
  <2>2. EcrireStatut(k.doc, "traite", k.statut)
      BY DEF ConclureSucces
  <2> QED
      BY <1>2, <2>1, <2>2, StatutEcrit DEF Statuts
<1>4. extractions \subseteq extractions' /\ extractions' \subseteq Extractions /\ e0 \in extractions'
  <2>1. e0 \in Extractions
      BY <1>2 DEF Extractions
  <2>2. extractions' = extractions \cup {e0}
      BY DEF ConclureSucces, LierExtraction
  <2> QED
      BY <2>1, <2>2 DEF TypeOK
<1>5. TypeOK'
    BY <1>1, <1>3, <1>4 DEF TypeOK, Libere, ia
<1>6. BrouillonTrace'
  <2> SUFFICES ASSUME NEW b \in brouillons
               PROVE  \/ [doc |-> b.doc, resultat |-> "succes", brouillon |-> b.id] \in extractions'
                      \/ \E v \in Webhooks : webhook'[v].etape = "creee"
                                             /\ webhook'[v].brouillon = b.id
                      \/ Note("sans trace", b.id) \in incidents'
      BY <1>1 DEF BrouillonTrace
  <2>1. CASE b.id = k.brouillon
    <3>1. b.doc = k.doc
        BY <1>1, <2>1 DEF WebhookSuivi
    <3> QED
        BY <1>4, <2>1, <3>1
  <2>2. CASE b.id # k.brouillon
    <3>1. \A v \in Webhooks : webhook[v].brouillon = b.id => webhook'[v] = webhook[v]
        BY <1>1, <2>2 DEF Libere
    <3> QED
        BY <1>1, <1>4, <3>1 DEF BrouillonTrace
  <2> QED
      BY <2>1, <2>2
<1>7. incidents \subseteq incidents' /\ Sereins' \subseteq Sereins
    BY <1>1 DEF Sereins
<1> QED
    BY <1>1, <1>3, <1>5, <1>6, <1>7, LibereInv

\* A second reading changes nothing but what the request knows.
LEMMA RelireDocumentInv ==
    ASSUME DocumentsInv, NEW w \in Webhooks, RelireDocument(w)
    PROVE  DocumentsInv'
<1> USE DEF DocumentsInv
<1>1. /\ webhook[w].etape = "echec" /\ Existe(webhook[w].doc)
      /\ webhook' = [webhook EXCEPT ![w].etape = "relue", ![w].statut = doc[webhook[w].doc]]
      /\ UNCHANGED <<doc, fichiers, envois, tache, travaux, livraisons, suppression,
                     brouillons, dernierId, extractions, incidents>>
    BY DEF RelireDocument, ia
<1>2. /\ webhook' \in [Webhooks -> EtatsWebhook]
      /\ webhook'[w].etape = "relue" /\ webhook'[w].doc = webhook[w].doc
      /\ \A v \in Webhooks \ {w} : webhook'[v] = webhook[v]
    BY <1>1 DEF TypeOK, EtatsWebhook, Existe
<1>3. TypeOK'
    BY <1>1, <1>2 DEF TypeOK
<1>4. WebhookSuivi'
    BY <1>1, <1>2 DEF WebhookSuivi
<1>5. SuppressionSuivie' /\ DocumentSuivi' /\ BrouillonSuivi' /\ FichierSuivi'
    BY <1>1 DEF SuppressionSuivie, DocumentSuivi, BrouillonSuivi, FichierSuivi, Existe
<1>6. BrouillonTrace'
  <2>1. \A v \in Webhooks : webhook[v].etape = "creee" => webhook'[v] = webhook[v]
      BY <1>1, <1>2
  <2> QED
      BY <1>1, <2>1 DEF BrouillonTrace
<1>7. Sereins' = Sereins
    BY <1>1 DEF Sereins
<1>8. \A v \in Webhooks :
          /\ webhook'[v].doc = webhook[v].doc
          /\ webhook'[v].etape # "libre" <=> webhook[v].etape # "libre"
          /\ webhook'[v].etape \in {"lue", "echec", "relue"} =>
                webhook[v].etape \in {"lue", "echec", "relue"}
          /\ webhook'[v].etape \in {"lue", "creee"} => webhook[v].etape \in {"lue", "creee"}
    BY <1>1, <1>2
<1>9. LivraisonUnique'
  <2>1. \A v \in Webhooks : webhook'[v].doc \in Sereins =>
           /\ webhook'[v].etape \in {"lue", "echec", "relue"} =>
                 \A b \in brouillons : b.doc # webhook'[v].doc
           /\ webhook'[v].etape \in {"lue", "creee"} => doc[webhook'[v].doc] # "erreur"
      BY <1>8 DEF LivraisonUnique
  <2>2. \A v, u \in Webhooks :
           /\ webhook'[v].doc \in Sereins
           /\ webhook'[v].etape # "libre" /\ webhook'[u].etape # "libre"
           /\ webhook'[u].doc = webhook'[v].doc
           => u = v
      BY <1>8 DEF LivraisonUnique
  <2> QED
      BY <1>1, <1>7, <2>1, <2>2 DEF LivraisonUnique
<1>10. ErreurSansBrouillon'
    BY <1>1, <1>7 DEF ErreurSansBrouillon
<1> QED
    BY <1>3, <1>4, <1>5, <1>6, <1>9, <1>10

LEMMA ConclureEchecInv ==
    ASSUME DocumentsInv, NEW w \in Webhooks, ConclureEchec(w)
    PROVE  DocumentsInv'
<1> USE DEF DocumentsInv
<1> DEFINE k == webhook[w]
<1>1. /\ k.etape = "relue" /\ Existe(k.doc) /\ Libere(w)
      /\ UNCHANGED <<fichiers, envois, tache, ia, suppression, brouillons, dernierId, incidents>>
    BY Conclusion DEF ConclureEchec
<1>2. k.doc \in Documents
    BY <1>1 DEF WebhookSuivi, TypeOK
<1>3. /\ doc' \in [Documents -> Statuts \cup {"absent", "supprime"}]
      /\ \A e \in Documents : /\ doc'[e] = "absent" <=> doc[e] = "absent"
                              /\ doc'[e] = "supprime" <=> doc[e] = "supprime"
                              /\ Existe(e)' <=> Existe(e)
                              /\ doc'[e] = "erreur" => doc[e] = "erreur" \/ e = k.doc
  <2>1. doc[k.doc] \in Statuts /\ EcrireStatut(k.doc, "erreur", k.statut)
      BY <1>1 DEF ConclureEchec, Existe
  <2> QED
      BY <1>2, <2>1, StatutEcrit DEF Statuts
<1>4. extractions \subseteq extractions' /\ extractions' \subseteq Extractions
  <2> DEFINE e0 == [doc |-> k.doc, resultat |-> "echec", brouillon |-> Aucun]
  <2>1. e0 \in Extractions
      BY <1>2 DEF Extractions
  <2>2. extractions' = extractions \cup {e0}
      BY DEF ConclureEchec
  <2> QED
      BY <2>1, <2>2 DEF TypeOK
<1>5. TypeOK'
    BY <1>1, <1>3, <1>4 DEF TypeOK, Libere, ia
<1>6. BrouillonTrace'
  <2>1. \A v \in Webhooks : webhook[v].etape = "creee" => webhook'[v] = webhook[v]
      BY <1>1 DEF Libere
  <2> QED
      BY <1>1, <1>4, <2>1 DEF BrouillonTrace
<1>7. incidents \subseteq incidents' /\ Sereins' \subseteq Sereins
    BY <1>1 DEF Sereins
<1> QED
    BY <1>1, <1>3, <1>5, <1>6, <1>7, LibereInv

\* The draft a request leaves behind is noted.
LEMMA AbandonnerInv ==
    ASSUME DocumentsInv, NEW w \in Webhooks, Abandonner(w)
    PROVE  DocumentsInv'
<1> USE DEF DocumentsInv
<1> DEFINE k == webhook[w]
<1>1. /\ k.etape # "libre" /\ Libere(w)
      /\ UNCHANGED <<doc, fichiers, envois, tache, ia, suppression, brouillons, dernierId,
                     extractions>>
    BY Conclusion DEF Abandonner
<1>2. /\ incidents \subseteq incidents' /\ incidents' \subseteq Incidents
      /\ k.etape = "creee" => Note("sans trace", k.brouillon) \in incidents'
      /\ Sereins' \subseteq Sereins
  <2>1. CASE k.etape # "creee"
    <3>1. UNCHANGED incidents
        BY <2>1 DEF Abandonner
    <3> QED
        BY <2>1, <3>1 DEF TypeOK, Sereins
  <2>2. CASE k.etape = "creee"
    <3>1. incidents' = incidents \cup {Note("sans trace", k.brouillon)}
        BY <2>2 DEF Abandonner
    <3>2. Note("sans trace", k.brouillon) \in Incidents
        BY DEF Note, Incidents, TypeOK, EtatsWebhook
    <3> QED
        BY <3>1, <3>2, NoteAjoutee
  <2> QED
      BY <2>1, <2>2
<1>3. TypeOK'
    BY <1>1, <1>2 DEF TypeOK, Libere, ia
<1>4. BrouillonTrace'
  <2>1. \A v \in Webhooks : webhook[v].etape = "creee" => v = w \/ webhook'[v] = webhook[v]
      BY <1>1 DEF Libere
  <2> QED
      BY <1>1, <1>2, <2>1 DEF BrouillonTrace
<1>5. \A e \in Documents : doc'[e] = doc[e] /\ (Existe(e)' <=> Existe(e))
    BY <1>1 DEF Existe
<1> QED
    BY <1>1, <1>2, <1>3, <1>4, <1>5, LibereInv
-----------------------------------------------------------------------------
(* Deletions *)

\* The request that is read or closed: only its own record changes.
LEMMA SuppressionEcrite ==
    ASSUME TypeOK, NEW x \in Suppressions, NEW k \in EtatsSuppression,
           suppression' = [suppression EXCEPT ![x] = k]
    PROVE  /\ suppression' \in [Suppressions -> EtatsSuppression]
           /\ suppression'[x] = k
           /\ \A y \in Suppressions \ {x} : suppression'[y] = suppression[y]
    BY DEF TypeOK

\* What the deletions leave alone.
LEMMA SuppressionSeule ==
    ASSUME DocumentsInv,
           UNCHANGED <<doc, envois, tache, ia, webhook, brouillons, dernierId, extractions>>,
           incidents \subseteq incidents'
    PROVE  WebhookSuivi' /\ BrouillonSuivi' /\ BrouillonTrace' /\ LivraisonUnique'
           /\ ErreurSansBrouillon'
<1>1. Sereins' \subseteq Sereins
    BY DEF Sereins
<1> QED
    BY <1>1 DEF DocumentsInv, WebhookSuivi, BrouillonSuivi, BrouillonTrace, LivraisonUnique,
                ErreurSansBrouillon, Existe, ia

LEMMA LirePourSupprimerInv ==
    ASSUME DocumentsInv, NEW x \in Suppressions, NEW d \in Documents, LirePourSupprimer(x, d)
    PROVE  DocumentsInv'
<1> USE DEF DocumentsInv
<1> DEFINE k == [etape |-> "lue", doc |-> d, lues |-> {e \in extractions : e.doc = d}]
<1>1. /\ suppression[x].etape = "libre" /\ Existe(d)
      /\ suppression' = [suppression EXCEPT ![x] = k]
      /\ UNCHANGED <<doc, fichiers, envois, tache, ia, webhook, brouillons, dernierId,
                     extractions, incidents>>
    BY DEF LirePourSupprimer
<1>2. /\ k \in EtatsSuppression /\ k.etape = "lue" /\ k.doc = d /\ \A e \in k.lues : e.doc = d
    BY DEF EtatsSuppression, TypeOK
<1> HIDE DEF k
<1>3. /\ suppression' \in [Suppressions -> EtatsSuppression] /\ suppression'[x] = k
      /\ \A y \in Suppressions \ {x} : suppression'[y] = suppression[y]
    BY <1>1, <1>2, SuppressionEcrite
<1>4. TypeOK'
    BY <1>1, <1>3 DEF TypeOK, ia
<1>5. SuppressionSuivie'
    BY <1>1, <1>2, <1>3 DEF SuppressionSuivie, Existe, Statuts
<1>6. DocumentSuivi'
    BY <1>1 DEF DocumentSuivi, ia
<1>7. FichierSuivi'
  <2>1. \A y \in Suppressions : suppression[y].etape = "commise" => suppression'[y] = suppression[y]
      BY <1>1, <1>3
  <2> QED
      BY <1>1, <2>1 DEF FichierSuivi, Existe
<1> QED
    BY <1>1, <1>4, <1>5, <1>6, <1>7, SuppressionSeule

\* The foreign keys keep what a draft refers to.
LEMMA CommettreSuppressionInv ==
    ASSUME DocumentsInv, NEW x \in Suppressions, CommettreSuppression(x)
    PROVE  DocumentsInv'
<1> USE DEF DocumentsInv
<1> DEFINE d == suppression[x].doc
<1>1. /\ suppression[x].etape = "lue" /\ ~Reference(x)
      /\ doc' = [doc EXCEPT ![d] = "supprime"]
      /\ extractions' = extractions \ suppression[x].lues
      /\ suppression' = [suppression EXCEPT ![x].etape = "commise"]
      /\ UNCHANGED <<fichiers, envois, tache, travaux, livraisons, webhook, brouillons,
                     dernierId, incidents>>
    BY DEF CommettreSuppression, ia
<1>2. d \in Documents /\ doc[d] # "absent" /\ \A e \in suppression[x].lues : e.doc = d
    BY <1>1 DEF SuppressionSuivie
<1>3. /\ suppression' \in [Suppressions -> EtatsSuppression]
      /\ suppression'[x].etape = "commise" /\ suppression'[x].doc = d
      /\ suppression'[x].lues = suppression[x].lues
      /\ \A y \in Suppressions \ {x} : suppression'[y] = suppression[y]
    BY <1>1 DEF TypeOK, EtatsSuppression
<1>4. /\ doc' \in [Documents -> Statuts \cup {"absent", "supprime"}]
      /\ doc'[d] = "supprime" /\ \A e \in Documents \ {d} : doc'[e] = doc[e]
    BY <1>1, <1>2 DEF TypeOK
<1>5. \A b \in brouillons : b.doc \in Documents \ {d}
    BY <1>1 DEF Reference, TypeOK
<1>6. TypeOK'
    BY <1>1, <1>3, <1>4 DEF TypeOK
<1>7. travaux \subseteq Documents /\ Sereins' = Sereins
    BY <1>1 DEF TypeOK, Sereins
<1>8. WebhookSuivi'
    BY <1>1 DEF WebhookSuivi
<1>9. SuppressionSuivie'
    BY <1>2, <1>3, <1>4 DEF SuppressionSuivie
<1>10. DocumentSuivi'
    BY <1>1, <1>2, <1>4, <1>7 DEF DocumentSuivi
<1>11. BrouillonSuivi'
    BY <1>1, <1>4, <1>5 DEF BrouillonSuivi, Existe
<1>12. FichierSuivi'
  <2>1. \A e \in Documents : Existe(e)' <=> e # d /\ Existe(e)
      BY <1>4 DEF Existe, Statuts
  <2>2. \A y \in Suppressions : suppression[y].etape = "commise" => suppression'[y] = suppression[y]
      BY <1>1, <1>3
  <2>3. fichiers \subseteq Documents
      BY DEF TypeOK
  <2> QED
      BY <1>1, <1>3, <2>1, <2>2, <2>3 DEF FichierSuivi
<1>13. BrouillonTrace'
  <2>1. ASSUME NEW b \in brouillons,
               [doc |-> b.doc, resultat |-> "succes", brouillon |-> b.id] \in extractions
        PROVE  [doc |-> b.doc, resultat |-> "succes", brouillon |-> b.id] \in extractions'
      BY <1>1, <1>2, <1>5, <2>1
  <2> QED
      BY <1>1, <2>1 DEF BrouillonTrace
<1>14. LivraisonUnique'
  <2>1. \A w \in Webhooks : webhook[w].etape # "libre" => webhook[w].doc \in Documents
      BY <1>7 DEF WebhookSuivi
  <2> QED
      BY <1>1, <1>4, <1>7, <2>1 DEF LivraisonUnique
<1>15. ErreurSansBrouillon'
    BY <1>1, <1>4, <1>5, <1>7 DEF ErreurSansBrouillon
<1> QED
    BY <1>6, <1>8, <1>9, <1>10, <1>11, <1>12, <1>13, <1>14, <1>15

\* The file of a row that has gone, and is nobody's.
LEMMA EffacerFichierInv ==
    ASSUME DocumentsInv, NEW x \in Suppressions, EffacerFichier(x)
    PROVE  DocumentsInv'
<1> USE DEF DocumentsInv
<1> DEFINE d == suppression[x].doc
<1>1. /\ suppression[x].etape = "commise" /\ fichiers' = fichiers \ {d}
      /\ suppression' = [suppression EXCEPT ![x] = SansSuppression]
      /\ UNCHANGED <<doc, envois, tache, ia, webhook, brouillons, dernierId, extractions,
                     incidents>>
    BY DEF EffacerFichier, Effacable
<1>2. d \in Documents /\ doc[d] = "supprime"
    BY <1>1 DEF SuppressionSuivie
<1>3. /\ suppression' \in [Suppressions -> EtatsSuppression] /\ suppression'[x] = SansSuppression
      /\ \A y \in Suppressions \ {x} : suppression'[y] = suppression[y]
    BY <1>1, SuppressionEcrite, TypesVides
<1>4. TypeOK'
    BY <1>1, <1>3 DEF TypeOK, ia
<1>5. SuppressionSuivie'
    BY <1>1, <1>3, TypesVides DEF SuppressionSuivie
<1>6. DocumentSuivi'
    BY <1>1, <1>2 DEF DocumentSuivi, ia
<1>7. FichierSuivi'
  <2>1. \A y \in Suppressions : suppression[y].doc # d => suppression'[y] = suppression[y]
      BY <1>3
  <2>2. ~Existe(d)
      BY <1>2 DEF Existe, Statuts
  <2> QED
      BY <1>1, <2>1, <2>2 DEF FichierSuivi, Existe
<1> QED
    BY <1>1, <1>4, <1>5, <1>6, <1>7, SuppressionSeule

\* A file that a committed deletion leaves behind is noted.
LEMMA AbandonnerSuppressionInv ==
    ASSUME DocumentsInv, NEW x \in Suppressions, AbandonnerSuppression(x)
    PROVE  DocumentsInv'
<1> USE DEF DocumentsInv
<1> DEFINE k == suppression[x]
<1>1. /\ k.etape # "libre" /\ suppression' = [suppression EXCEPT ![x] = SansSuppression]
      /\ UNCHANGED <<doc, fichiers, envois, tache, ia, webhook, brouillons, dernierId,
                     extractions>>
    BY DEF AbandonnerSuppression
<1>2. /\ incidents \subseteq incidents' /\ incidents' \subseteq Incidents
      /\ k.etape = "commise" => Note("non efface", k.doc) \in incidents'
  <2>1. CASE k.etape # "commise"
    <3>1. UNCHANGED incidents
        BY <2>1 DEF AbandonnerSuppression
    <3> QED
        BY <2>1, <3>1 DEF TypeOK
  <2>2. CASE k.etape = "commise"
    <3>1. incidents' = incidents \cup {Note("non efface", k.doc)}
        BY <2>2 DEF AbandonnerSuppression
    <3>2. Note("non efface", k.doc) \in Incidents
        BY DEF Note, Incidents, TypeOK, EtatsSuppression
    <3> QED
        BY <3>1, <3>2, NoteAjoutee
  <2> QED
      BY <2>1, <2>2
<1>3. /\ suppression' \in [Suppressions -> EtatsSuppression] /\ suppression'[x] = SansSuppression
      /\ \A y \in Suppressions \ {x} : suppression'[y] = suppression[y]
    BY <1>1, SuppressionEcrite, TypesVides
<1>4. TypeOK'
    BY <1>1, <1>2, <1>3 DEF TypeOK, ia
<1>5. SuppressionSuivie'
    BY <1>1, <1>3, TypesVides DEF SuppressionSuivie
<1>6. DocumentSuivi'
    BY <1>1 DEF DocumentSuivi, ia
<1>7. FichierSuivi'
  <2>1. \A y \in Suppressions : y = x \/ suppression'[y] = suppression[y]
      BY <1>3
  <2> QED
      BY <1>1, <1>2, <2>1 DEF FichierSuivi, Existe
<1> QED
    BY <1>1, <1>2, <1>4, <1>5, <1>6, <1>7, SuppressionSeule

\* The extractions of the other drafts keep their link.
LEMMA SupprimerBrouillonInv ==
    ASSUME DocumentsInv, NEW b \in brouillons, SupprimerBrouillon(b)
    PROVE  DocumentsInv'
<1> USE DEF DocumentsInv
<1> DEFINE Detachee(e) == IF e.brouillon = b.id THEN [e EXCEPT !.brouillon = Aucun] ELSE e
<1>1. /\ brouillons' = brouillons \ {b}
      /\ extractions' = {Detachee(e) : e \in extractions}
      /\ UNCHANGED <<doc, fichiers, envois, tache, travaux, livraisons, webhook, suppression,
                     dernierId, incidents>>
    BY DEF SupprimerBrouillon, ia
<1>2. \A e \in Extractions : Detachee(e) \in Extractions
    BY DEF Extractions
<1>3. extractions' \subseteq Extractions
    BY <1>1, <1>2 DEF TypeOK
<1>4. TypeOK'
    BY <1>1, <1>3 DEF TypeOK
<1>5. /\ WebhookSuivi' /\ SuppressionSuivie' /\ DocumentSuivi' /\ BrouillonSuivi'
      /\ FichierSuivi' /\ LivraisonUnique' /\ ErreurSansBrouillon'
    BY <1>1 DEF WebhookSuivi, SuppressionSuivie, DocumentSuivi, BrouillonSuivi, FichierSuivi,
                LivraisonUnique, ErreurSansBrouillon, Sereins, Existe
<1>6. BrouillonTrace'
  <2>1. ASSUME NEW a \in brouillons \ {b},
               [doc |-> a.doc, resultat |-> "succes", brouillon |-> a.id] \in extractions
        PROVE  [doc |-> a.doc, resultat |-> "succes", brouillon |-> a.id] \in extractions'
    <3> DEFINE e == [doc |-> a.doc, resultat |-> "succes", brouillon |-> a.id]
    <3>1. e.brouillon = a.id /\ a.id # b.id
        BY DEF BrouillonSuivi
    <3>2. Detachee(e) = e
        BY <3>1
    <3> HIDE DEF Detachee, e
    <3>3. e \in extractions
        BY <2>1 DEF e
    <3>4. e \in extractions'
        BY <1>1, <3>2, <3>3
    <3> QED
        BY <3>4 DEF e
  <2> QED
      BY <1>1, <2>1 DEF BrouillonTrace
<1> QED
    BY <1>4, <1>5, <1>6

\* What a stop cuts short is noted, one by one.
LEMMA ArreterInv ==
    ASSUME DocumentsInv, Arreter
    PROVE  DocumentsInv'
<1> USE DEF DocumentsInv
<1>1. /\ incidents' = incidents \cup Interrompus \cup {Note("arret", Aucun)} /\ envois' = {}
      /\ tache' = [d \in Documents |-> SansTache]
      /\ webhook' = [w \in Webhooks |-> SansWebhook]
      /\ suppression' = [x \in Suppressions |-> SansSuppression]
      /\ UNCHANGED <<doc, fichiers, travaux, livraisons, brouillons, dernierId, extractions>>
    BY DEF Arreter, ia
<1>2. /\ \A d \in Documents : tache'[d].etape = "aucune"
      /\ \A w \in Webhooks : webhook'[w].etape = "libre"
      /\ \A x \in Suppressions : suppression'[x].etape = "libre"
    BY <1>1, TypesVides
<1>10. /\ \A d \in envois : Note("sans ligne", d) \in incidents'
       /\ \A w \in Webhooks : webhook[w].etape = "creee"
             => Note("sans trace", webhook[w].brouillon) \in incidents'
       /\ \A x \in Suppressions : suppression[x].etape = "commise"
             => Note("non efface", suppression[x].doc) \in incidents'
    BY <1>1 DEF Interrompus
<1>11. incidents \subseteq incidents' /\ incidents' \subseteq Incidents
  <2>1. Interrompus \subseteq Incidents
    <3>1. \A d \in envois : Note("sans ligne", d) \in Incidents
        BY DEF Note, Incidents, TypeOK
    <3>2. \A d \in Documents : Note("tache perdue", d) \in Incidents
        BY DEF Note, Incidents
    <3>3. \A w \in Webhooks : Note("sans trace", webhook[w].brouillon) \in Incidents
        BY DEF Note, Incidents, TypeOK, EtatsWebhook
    <3>4. \A x \in Suppressions : Note("non efface", suppression[x].doc) \in Incidents
        BY DEF Note, Incidents, TypeOK, EtatsSuppression
    <3> QED
        BY <3>1, <3>2, <3>3, <3>4 DEF Interrompus
  <2>2. Note("arret", Aucun) \in Incidents
      BY DEF Note, Incidents
  <2> QED
      BY <1>1, <2>1, <2>2 DEF TypeOK
<1>3. TypeOK'
    BY <1>1, <1>11, TypesVides DEF TypeOK
<1>4. WebhookSuivi' /\ SuppressionSuivie'
    BY <1>2 DEF WebhookSuivi, SuppressionSuivie
<1>5. DocumentSuivi'
    BY <1>1, <1>2 DEF DocumentSuivi
<1>6. BrouillonSuivi' /\ FichierSuivi' /\ BrouillonTrace'
  <2>1. BrouillonSuivi'
      BY <1>1 DEF BrouillonSuivi, Existe
  <2>2. FichierSuivi'
      BY <1>1, <1>10, <1>11 DEF FichierSuivi, Existe
  <2>3. BrouillonTrace'
      BY <1>1, <1>10, <1>11 DEF BrouillonTrace
  <2> QED
      BY <2>1, <2>2, <2>3
<1>7. Sereins' \subseteq Sereins
    BY <1>11 DEF Sereins
<1>8. LivraisonUnique'
  <2>1. travaux \subseteq Documents
      BY DEF TypeOK
  <2> QED
      BY <1>1, <1>2, <1>7, <2>1 DEF LivraisonUnique
<1>9. ErreurSansBrouillon'
    BY <1>1, <1>7 DEF ErreurSansBrouillon
<1> QED
    BY <1>3, <1>4, <1>5, <1>6, <1>8, <1>9
-----------------------------------------------------------------------------
(* Every step *)

LEMMA DocumentsInit == Init => DocumentsInv
<1> SUFFICES ASSUME Init
             PROVE  DocumentsInv
    OBVIOUS
<1>1. /\ doc = [d \in Documents |-> "absent"] /\ fichiers = {} /\ envois = {}
      /\ travaux = {} /\ livraisons = [d \in Documents |-> 0]
      /\ brouillons = {} /\ dernierId = 0 /\ extractions = {} /\ incidents = {}
    BY DEF Init
<1>2. /\ tache \in [Documents -> Taches] /\ \A d \in Documents : tache[d].etape = "aucune"
      /\ webhook \in [Webhooks -> EtatsWebhook] /\ \A w \in Webhooks : webhook[w].etape = "libre"
      /\ suppression \in [Suppressions -> EtatsSuppression]
      /\ \A x \in Suppressions : suppression[x].etape = "libre"
    BY TypesVides DEF Init
<1>3. TypeOK
    BY <1>1, <1>2, HypBornes DEF TypeOK
<1>4. WebhookSuivi /\ SuppressionSuivie /\ DocumentSuivi
    BY <1>1, <1>2 DEF WebhookSuivi, SuppressionSuivie, DocumentSuivi
<1>5. BrouillonSuivi /\ FichierSuivi /\ BrouillonTrace /\ ErreurSansBrouillon
    BY <1>1 DEF BrouillonSuivi, FichierSuivi, BrouillonTrace, ErreurSansBrouillon, Existe, Statuts
<1>6. LivraisonUnique
    BY <1>1, <1>2 DEF LivraisonUnique
<1> QED
    BY <1>3, <1>4, <1>5, <1>6 DEF DocumentsInv

LEMMA DocumentsEtape == DocumentsInv /\ [Next]_vars => DocumentsInv'
<1> SUFFICES ASSUME DocumentsInv, [Next]_vars
             PROVE  DocumentsInv'
    OBVIOUS
<1>1. CASE UNCHANGED vars
  <2>1. UNCHANGED <<doc, fichiers, envois, tache, travaux, livraisons, webhook, suppression,
                    brouillons, dernierId, extractions, incidents>>
      BY <1>1 DEF vars
  <2>2. TypeOK'
      BY <2>1 DEF DocumentsInv, TypeOK
  <2>3. SuppressionSuivie' /\ DocumentSuivi' /\ FichierSuivi'
      BY <2>1 DEF DocumentsInv, SuppressionSuivie, DocumentSuivi, FichierSuivi, Existe
  <2>4. WebhookSuivi' /\ BrouillonSuivi' /\ BrouillonTrace' /\ LivraisonUnique'
        /\ ErreurSansBrouillon'
      BY <2>1, SuppressionSeule DEF ia
  <2> QED
      BY <2>2, <2>3, <2>4 DEF DocumentsInv
<1>2. ASSUME NEW d \in Documents, EtapeEnvoi(d) \/ EtapeTache(d)
      PROVE  DocumentsInv'
    BY <1>2, TeleverserInv, EnregistrerInv, AbandonnerEnvoiInv, DeclencherInv,
       LireDocumentInv, MajStatutInv, PerdreTacheInv DEF EtapeEnvoi, EtapeTache
<1>3. ASSUME NEW w \in Webhooks, NEW d \in Documents, NEW exploitable \in BOOLEAN,
             Recevoir(w, d, exploitable)
      PROVE  DocumentsInv'
    BY <1>3, RecevoirInv
<1>4. ASSUME NEW w \in Webhooks, EtapeWebhook(w)
      PROVE  DocumentsInv'
    BY <1>4, CreerBrouillonInv, ConclureSuccesInv, RelireDocumentInv, ConclureEchecInv,
       AbandonnerInv DEF EtapeWebhook
<1>5. ASSUME NEW x \in Suppressions, NEW d \in Documents, LirePourSupprimer(x, d)
      PROVE  DocumentsInv'
    BY <1>5, LirePourSupprimerInv
<1>6. ASSUME NEW x \in Suppressions, EtapeSuppression(x)
      PROVE  DocumentsInv'
    BY <1>6, CommettreSuppressionInv, EffacerFichierInv, AbandonnerSuppressionInv
       DEF EtapeSuppression
<1>7. ASSUME NEW b \in brouillons, SupprimerBrouillon(b)
      PROVE  DocumentsInv'
    BY <1>7, SupprimerBrouillonInv
<1>8. CASE Arreter
    BY <1>8, ArreterInv
<1> QED
    BY <1>1, <1>2, <1>3, <1>4, <1>5, <1>6, <1>7, <1>8 DEF Next

LEMMA Invariance == Spec => []DocumentsInv
<1> QED
    BY DocumentsInit, DocumentsEtape, PTL DEF Spec
-----------------------------------------------------------------------------
(* Results *)

\* The variables keep their types, for every bound.
THEOREM TypesCorrects == Spec => []TypeOK
<1>1. DocumentsInv => TypeOK
    BY DEF DocumentsInv
<1> QED
    BY <1>1, Invariance, PTL

\* A document of the table always has its file, whatever fails, and a file without
\* a row is about to get one, about to be erased, or belongs to an upload or a
\* deletion that was cut short (documents/router.py:82-112, 291-301), for any
\* number of concurrent deletions.
THEOREM FichierToujoursLa == Spec => []FichierDuDocument
<1>1. DocumentsInv => FichierDuDocument
    BY DEF DocumentsInv, FichierSuivi, FichierDuDocument
<1> QED
    BY <1>1, Invariance, PTL

\* A draft is traced to its document by an extraction, between whatever deliveries
\* and deletions, unless its own request ended between its two commits
\* (documents/service.py:212-259).
THEOREM BrouillonsTraces == Spec => []BrouillonTrace
<1>1. DocumentsInv => BrouillonTrace
    BY DEF DocumentsInv
<1> QED
    BY <1>1, Invariance, PTL

\* A document delivered once, whose answer was not lost, has no draft while it is in
\* error, whatever fails in between (documents/service.py:29-53, 198-259).
THEOREM ErreurRien == Spec => []ErreurSansBrouillon
<1>1. DocumentsInv => ErreurSansBrouillon
    BY DEF DocumentsInv
<1> QED
    BY <1>1, Invariance, PTL
=============================================================================
