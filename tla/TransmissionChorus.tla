------------------------- MODULE TransmissionChorus -------------------------
(***************************************************************************)
(* POST /factures/{id}/transmettre-choruspro on one validated invoice:     *)
(* the endpoint reads the invoice, refuses it if it carries a deposit      *)
(* number, calls Chorus Pro (token, deposit, one retry on 401, time-out)   *)
(* while no lock is held, then commits the outcome and an event.           *)
(*                                                                         *)
(* Chorus Pro is external: a deposit it accepts may be answered late, when *)
(* the client has given up.  The commit of the outcome may fail.  The      *)
(* process may stop once.                                                  *)
(***************************************************************************)
EXTENDS Naturals, Sequences, FiniteSets

CONSTANTS
    Requetes,      \* concurrent requests
    MaxPosts,      \* bound: deposits ever posted; a deposit's number is its rank
    MaxEvenements  \* bound: requests received stop at that many events

ASSUME HypBornes == MaxPosts \in Nat /\ MaxEvenements \in Nat

Posts == 1..MaxPosts

VARIABLES
    facture,     \* committed columns: statut, numero_flux_depot_chorus (0 is NULL)
    evenements,  \* table evenement_pdp, in order of insertion
    requete,     \* per request: where it is, what it read, its last deposit
    enVol,       \* deposits posted that Chorus Pro has not handled yet
    acceptes,    \* deposits Chorus Pro has accepted
    dernierPost, \* rank of the last deposit posted
    perdus,      \* history: accepted deposits whose outcome never reached a commit
    incidents    \* history: whether requests overlapped, whether the process stopped

vars == <<facture, evenements, requete, enVol, acceptes, dernierPost, perdus, incidents>>
chorus == <<enVol, acceptes, dernierPost>>

Statuts == {"validee", "deposee_pdp", "erreur_transmission"}

\* "jeton": a token is wanted; "attente": the deposit is posted; "succes" and
\* "echec": the outcome is known and not committed.
Etapes == {"libre", "jeton", "envoi", "attente", "succes", "echec"}
EtatsRequete == [etape : Etapes, statut : Statuts, essai : 0..2, post : {0} \cup Posts]
SansRequete == [etape |-> "libre", statut |-> "validee", essai |-> 0, post |-> 0]

Passer(r, etape) == requete' = [requete EXCEPT ![r].etape = etape]

\* A column is written only if its value differs from the one read.
Ecrire(lu, voulu, courant) == IF voulu = lu THEN courant ELSE voulu
-----------------------------------------------------------------------------
\* Mutant of DejaDeposee: only an invoice in error is looked at.
DeposeeEnErreur(f) == f.flux # 0 /\ f.statut = "erreur_transmission"

\* The guard against a second deposit.
DejaDeposee(f) == f.flux # 0

\* The reads of the endpoint: one snapshot, before any call.
Recevoir(r) ==
    /\ requete[r].etape = "libre"
    /\ ~DejaDeposee(facture)
    /\ Len(evenements) < MaxEvenements
    /\ requete' = [requete EXCEPT ![r] = [etape |-> "jeton", statut |-> facture.statut,
                                          essai |-> 1, post |-> 0]]
    /\ incidents' = IF \E q \in Requetes : requete[q].etape # "libre"
                    THEN incidents \cup {"chevauchement"} ELSE incidents
    /\ UNCHANGED <<facture, evenements, chorus, perdus>>

\* PisteAuthClient.get_token: a token, or an error that counts as a failure.
ObtenirJeton(r) ==
    /\ requete[r].etape = "jeton"
    /\ Passer(r, "envoi") \/ Passer(r, "echec")
    /\ UNCHANGED <<facture, evenements, chorus, perdus, incidents>>

\* The POST leaves; or the network is down and it does not.
Poster(r) ==
    /\ requete[r].etape = "envoi"
    /\ \/ Passer(r, "echec") /\ UNCHANGED <<enVol, dernierPost>>
       \/ /\ dernierPost < MaxPosts
          /\ dernierPost' = dernierPost + 1
          /\ enVol' = enVol \cup {dernierPost'}
          /\ requete' = [requete EXCEPT ![r].etape = "attente", ![r].post = dernierPost']
    /\ UNCHANGED <<facture, evenements, acceptes, perdus, incidents>>

\* Whoever posted n still waits for its answer.
Attend(r, n) == requete[r].etape = "attente" /\ requete[r].post = n

\* Mutant of Reessayable: every 401 is retried.
ToujoursReessayable(r) == requete[r].essai \in Nat

\* HTTP 401 on the first attempt: the cached token is dropped, another one asked.
Reessayable(r) == requete[r].essai = 1
Reessayer(r) == requete' = [requete EXCEPT ![r].etape = "jeton", ![r].essai = @ + 1]

\* Chorus Pro handles deposit n: it accepts it, or answers 401, or an error
\* (codeRetour # 0 or HTTP >= 400).
Traiter(n) ==
    /\ n \in enVol
    /\ enVol' = enVol \ {n}
    /\ \/ /\ acceptes' = acceptes \cup {n}
          /\ \/ \E r \in Requetes :
                   /\ Attend(r, n)
                   /\ Passer(r, "succes")
                   /\ UNCHANGED perdus
             \/ /\ UNCHANGED requete   \* nobody will get the answer
                /\ perdus' = perdus \cup {n}
       \/ /\ UNCHANGED <<acceptes, perdus>>
          /\ \/ \E r \in Requetes :
                   /\ Attend(r, n)
                   /\ \/ Reessayable(r) /\ Reessayer(r)
                      \/ Passer(r, "echec")
             \/ /\ \A r \in Requetes : ~Attend(r, n)
                /\ UNCHANGED requete
    /\ UNCHANGED <<facture, evenements, dernierPost, incidents>>

\* Mutant of Expirable: the call has no time-out.
SansDelai(r) == requete[r].etape = "attente" /\ requete[r].post = 0

\* httpx gives up after TIMEOUT_SECONDS, whatever has become of the deposit; an
\* answer without a deposit number counts as a failure too.
Expirable(r) == requete[r].etape = "attente"

Expirer(r) ==
    /\ Expirable(r)
    /\ Passer(r, "echec")
    /\ UNCHANGED <<facture, evenements, chorus, perdus, incidents>>

\* An answer (token or deposit) that is not JSON, whoever sent it: ValueError
\* is not caught, 500 and no trace.
ReponseIllisible(r) ==
    /\ requete[r].etape \in {"jeton", "attente"}
    /\ requete' = [requete EXCEPT ![r] = SansRequete]
    /\ UNCHANGED <<facture, evenements, chorus, perdus, incidents>>

\* Mutants of Evenement: the former status is read after the assignment; the
\* deposit number is not recorded.
EvenementApres(r, statut, flux) == [avant |-> statut, apres |-> statut, flux |-> flux]
EvenementSansFlux(r, statut, flux) ==
    [avant |-> requete[r].statut, apres |-> statut, flux |-> 0]

\* EvenementPdp; id_statut_avant is the status that was read.
Evenement(r, statut, flux) ==
    [avant |-> requete[r].statut, apres |-> statut, flux |-> flux]

\* Mutant of Colonnes: the number of the deposit is stored whatever its outcome.
ColonnesEtPost(r, statut, flux) ==
    [statut |-> Ecrire(requete[r].statut, statut, facture.statut), flux |-> requete[r].post]

Colonnes(r, statut, flux) ==
    [statut |-> Ecrire(requete[r].statut, statut, facture.statut),
     flux |-> Ecrire(0, flux, facture.flux)]

Committer(r, statut, flux) ==
    /\ facture' = Colonnes(r, statut, flux)
    /\ evenements' = Append(evenements, Evenement(r, statut, flux))
    /\ requete' = [requete EXCEPT ![r] = SansRequete]
    /\ UNCHANGED <<chorus, perdus, incidents>>

\* record_failure, then 502.
EnregistrerEchec(r) ==
    /\ requete[r].etape = "echec"
    /\ Committer(r, "erreur_transmission", 0)

EnregistrerSucces(r) ==
    /\ requete[r].etape = "succes"
    /\ Committer(r, "deposee_pdp", requete[r].post)

\* The deposits accepted for these requests and not committed.
DepotsDe(rs) == {requete[r].post : r \in {q \in rs : requete[q].etape = "succes"}}

\* The commit of the outcome raises (a lost connection, a deposit number longer
\* than its column): 500, neither the columns nor the event are written.
EchouerCommit(r) ==
    /\ requete[r].etape \in {"succes", "echec"}
    /\ perdus' = perdus \cup DepotsDe({r})
    /\ requete' = [requete EXCEPT ![r] = SansRequete]
    /\ UNCHANGED <<facture, evenements, chorus, incidents>>

\* The process stops: nothing of the requests under way is committed.
Arreter ==
    /\ "arret" \notin incidents
    /\ incidents' = incidents \cup {"arret"}
    /\ perdus' = perdus \cup DepotsDe(Requetes)
    /\ requete' = [r \in Requetes |-> SansRequete]
    /\ UNCHANGED <<facture, evenements, chorus>>
-----------------------------------------------------------------------------
Init ==
    /\ facture = [statut |-> "validee", flux |-> 0]
    /\ evenements = <<>>
    /\ requete = [r \in Requetes |-> SansRequete]
    /\ enVol = {} /\ acceptes = {} /\ dernierPost = 0
    /\ perdus = {} /\ incidents = {}

Avancer(r) ==
    \/ ObtenirJeton(r) \/ Poster(r) \/ Expirer(r)
    \/ EnregistrerEchec(r) \/ EnregistrerSucces(r)

Next ==
    \/ \E r \in Requetes :
          Recevoir(r) \/ Avancer(r) \/ ReponseIllisible(r) \/ EchouerCommit(r)
    \/ \E n \in Posts : Traiter(n)
    \/ Arreter

\* The event loop runs a request to its end: every call it waits for has a
\* time-out.  Nothing is asked of Chorus Pro, not even an unreadable answer.
Spec == Init /\ [][Next]_vars /\ \A r \in Requetes : WF_vars(Avancer(r))
-----------------------------------------------------------------------------
(* Properties *)

\* The variables have their types.
TypeOK ==
    /\ facture \in [statut : Statuts, flux : {0} \cup Posts]
    /\ evenements \in Seq([avant : Statuts, apres : Statuts, flux : {0} \cup Posts])
    /\ requete \in [Requetes -> EtatsRequete]
    /\ enVol \subseteq Posts /\ acceptes \subseteq Posts
    /\ dernierPost \in 0..MaxPosts
    /\ perdus \subseteq Posts
    /\ incidents \subseteq {"chevauchement", "arret"}

\* The anti-duplicate guard (router.py:534-541) works between requests that do
\* not overlap: of all the deposits of an invoice that Chorus Pro accepts, at most
\* one has an outcome that reached the application and was not lost again.  Each
\* further one is explained by itself: its answer came too late, or not at all,
\* or the commit of its success failed, or the process stopped before it.
\* Failures, retries on 401, or failed commits of a failure never add one.
UnSeulDepot ==
    "chevauchement" \notin incidents => Cardinality(acceptes \ perdus) <= 1

\* "Jamais de depot sans trace" (router.py:561-562): an accepted deposit whose
\* outcome was not lost is in an event, or about to be, even when requests
\* overlap and whatever becomes of the other deposits.
DepotTrace ==
    \A n \in acceptes \ perdus :
        \/ \E i \in DOMAIN evenements : evenements[i].flux = n
        \/ \E r \in Requetes : requete[r].etape = "succes" /\ requete[r].post = n

\* The events of an invoice form a chain that ends in its status, whatever
\* fails or is retried, as long as requests do not overlap.
ChaineEvenements ==
    "chevauchement" \notin incidents =>
        \A i \in 0..Len(evenements) :
            (IF i = 0 THEN "validee" ELSE evenements[i].apres)
            = (IF i = Len(evenements) THEN facture.statut ELSE evenements[i + 1].avant)

\* "La re-transmission reste possible apres un echec" (router.py:534-535): an
\* invoice in error carries no deposit number, unless requests overlapped.
ErreurRetransmissible ==
    "chevauchement" \notin incidents =>
        (facture.statut = "erreur_transmission" => facture.flux = 0)

\* A transmission always ends with an answer to the user.
Repond == \A r \in Requetes : requete[r].etape # "libre" ~> requete[r].etape = "libre"
=============================================================================
