---------------------- MODULE TransmissionChorus_proofs ----------------------
(***************************************************************************)
(* The guard against a second deposit, the trace of a deposit and the chain *)
(* of events, for any number of requests, posts and events.                *)
(***************************************************************************)
EXTENDS TransmissionChorus, FiniteSetTheorems, TLAPS

EnService(r) == requete[r].etape # "libre"

\* As long as no two requests have overlapped: the one under way is alone, and
\* the invoice is as it read it, without a deposit.
Seule ==
    "chevauchement" \notin incidents =>
        \A r \in Requetes : EnService(r) =>
            /\ facture.flux = 0
            /\ requete[r].statut = facture.statut
            /\ \A q \in Requetes : EnService(q) => q = r

\* As long as no two requests have overlapped: what Chorus Pro accepted, and was not
\* lost, is the deposit of the invoice, or of the request that is about to write it.
AccepteConnu ==
    "chevauchement" \notin incidents =>
        \A n \in acceptes \ perdus :
            \/ facture.flux = n
            \/ \E r \in Requetes : requete[r].etape = "succes" /\ requete[r].post = n

\* A deposit that was posted has a number.
PostNumerote ==
    /\ \A r \in Requetes : requete[r].etape \in {"attente", "succes"} => requete[r].post # 0
    /\ acceptes \subseteq Posts

\* The inductive invariant.
ChorusInv ==
    /\ TypeOK
    /\ PostNumerote
    /\ Seule
    /\ AccepteConnu
    /\ DepotTrace
    /\ ErreurRetransmissible
    /\ ChaineEvenements
-----------------------------------------------------------------------------
\* A commit adds one event; the earlier ones stay where they were.
EvenementsPossibles == [avant : Statuts, apres : Statuts, flux : {0} \cup Posts]

LEMMA EvenementAjoute ==
    ASSUME evenements \in Seq(EvenementsPossibles),
           NEW e \in EvenementsPossibles,
           evenements' = Append(evenements, e)
    PROVE  /\ evenements' \in Seq(EvenementsPossibles)
           /\ Len(evenements) \in Nat
           /\ Len(evenements') = Len(evenements) + 1
           /\ \A i \in 1..Len(evenements) : evenements'[i] = evenements[i]
           /\ evenements'[Len(evenements) + 1] = e
    OBVIOUS

\* Where a position of the longer history was in the shorter one.
LEMMA Positions ==
    ASSUME NEW E, NEW s \in Seq(E), NEW e \in E,
           NEW t, t = Append(s, e)
    PROVE  /\ Len(s) \in 0..Len(s)
           /\ \A i \in DOMAIN s : i \in DOMAIN t /\ t[i] = s[i]
           /\ \E i \in DOMAIN t : t[i] = e
           /\ \A i \in 0..Len(t) :
                \/ i = Len(t) /\ i # 0 /\ t[i] = e
                \/ /\ i # Len(t) /\ i = Len(s) /\ t[i + 1] = e
                   /\ i # 0 => t[i] = s[i]
                \/ /\ i # Len(t) /\ i \in 0..Len(s) /\ i # Len(s)
                   /\ t[i + 1] = s[i + 1]
                   /\ i # 0 => t[i] = s[i]
<1>1. PICK n \in Nat : n = Len(s)
    OBVIOUS
<1>2. /\ Len(t) = n + 1
      /\ \A i \in 1..n : t[i] = s[i]
      /\ t[n + 1] = e
      /\ DOMAIN s = 1..n /\ DOMAIN t = 1..(n + 1)
    BY <1>1
<1>3. n \in 0..n /\ 1..n \subseteq 1..(n + 1) /\ n + 1 \in 1..(n + 1)
    OBVIOUS
<1>4. ASSUME NEW i \in 0..(n + 1)
      PROVE  \/ i = n + 1 /\ i # 0
             \/ i # n + 1 /\ i = n
             \/ i # n + 1 /\ i \in 0..n /\ i # n /\ i + 1 \in 1..n
    OBVIOUS
<1>5. ASSUME NEW i \in 0..n, i # 0
      PROVE  t[i] = s[i]
  <2>1. i \in 1..n
      BY <1>5
  <2> QED
      BY <1>2, <2>1
<1>6. ASSUME NEW i \in 0..(n + 1)
      PROVE  \/ i = n + 1 /\ i # 0 /\ t[i] = e
             \/ i # n + 1 /\ i = n /\ t[i + 1] = e /\ (i # 0 => t[i] = s[i])
             \/ /\ i # n + 1 /\ i \in 0..n /\ i # n
                /\ t[i + 1] = s[i + 1] /\ (i # 0 => t[i] = s[i])
    BY <1>2, <1>3, <1>4, <1>5
<1> QED
    BY <1>1, <1>2, <1>3, <1>6

\* What a commit leaves: types, and every conjunct that a commit may disturb.
LEMMA CommitType ==
    ASSUME TypeOK,
           NEW r \in Requetes,
           NEW statut \in Statuts,
           NEW flux \in {0} \cup Posts,
           Committer(r, statut, flux)
    PROVE  TypeOK'
<1>1. Evenement(r, statut, flux) \in EvenementsPossibles
    BY DEF TypeOK, Evenement, EtatsRequete, EvenementsPossibles
<1>2. evenements' \in Seq(EvenementsPossibles)
    BY <1>1, EvenementAjoute DEF TypeOK, Committer, EvenementsPossibles
<1>3. facture' \in [statut : Statuts, flux : {0} \cup Posts]
  <2>1. Colonnes(r, statut, flux) \in [statut : Statuts, flux : {0} \cup Posts]
      BY DEF TypeOK, Colonnes, Ecrire
  <2> QED
      BY <2>1 DEF Committer
<1>4. requete' \in [Requetes -> EtatsRequete]
  <2>1. SansRequete \in EtatsRequete
      BY DEF SansRequete, EtatsRequete, Etapes, Statuts
  <2> QED
      BY <2>1 DEF TypeOK, Committer
<1> QED
    BY <1>2, <1>3, <1>4 DEF TypeOK, Committer, chorus, EvenementsPossibles

-----------------------------------------------------------------------------
LEMMA InvAuDebut == Init => ChorusInv
<1> SUFFICES ASSUME Init PROVE ChorusInv
    OBVIOUS
<1>1. TypeOK
  <2>1. SansRequete \in EtatsRequete
      BY DEF SansRequete, EtatsRequete, Etapes, Statuts
  <2> QED
      BY <2>1, HypBornes DEF Init, TypeOK, Statuts
<1>2. PostNumerote /\ Seule /\ AccepteConnu
    BY DEF Init, PostNumerote, Seule, AccepteConnu, EnService, SansRequete
<1>3. DepotTrace /\ ErreurRetransmissible
    BY DEF Init, DepotTrace, ErreurRetransmissible
<1>4. ChaineEvenements
    BY DEF Init, ChaineEvenements
<1> QED
    BY <1>1, <1>2, <1>3, <1>4 DEF ChorusInv

\* Between two commits, what is said of the invoice and of its events holds on.
LEMMA HorsCommit ==
    ASSUME ChorusInv,
           UNCHANGED <<facture, evenements>>,
           incidents \subseteq incidents'
    PROVE  ErreurRetransmissible' /\ ChaineEvenements'
    BY DEF ChorusInv, ErreurRetransmissible, ChaineEvenements

\* A request that only moves on, without an answer of Chorus Pro: nothing it read
\* changes and it does not reach a success.
Bouge(r, etape, essai, post) ==
    /\ requete' \in [Requetes -> EtatsRequete]
    /\ requete'[r].etape = etape /\ requete'[r].statut = requete[r].statut
    /\ requete'[r].essai = essai /\ requete'[r].post = post
    /\ \A q \in Requetes \ {r} : requete'[q] = requete[q]

LEMMA Deplacement ==
    ASSUME ChorusInv,
           NEW r \in Requetes,
           NEW etape \in {"jeton", "envoi", "attente", "echec"},
           NEW essai \in 0..2,
           NEW post \in {0} \cup Posts,
           etape = "attente" => post # 0,
           EnService(r), requete[r].etape # "succes",
           Bouge(r, etape, essai, post),
           UNCHANGED <<facture, evenements, acceptes, perdus, incidents>>,
           enVol' \subseteq Posts, dernierPost' \in 0..MaxPosts
    PROVE  ChorusInv'
<1> USE DEF ChorusInv
<1>1. TypeOK'
    BY DEF TypeOK, Bouge
<1>2. PostNumerote'
    BY DEF PostNumerote, Bouge
<1>3. Seule'
    BY DEF Seule, EnService, Bouge
<1>4. AccepteConnu' /\ DepotTrace'
  <2>1. \A q \in Requetes : requete[q].etape = "succes" => requete'[q] = requete[q]
      BY DEF Bouge
  <2> QED
      BY <2>1 DEF AccepteConnu, DepotTrace
<1>5. ErreurRetransmissible' /\ ChaineEvenements'
    BY HorsCommit
<1> QED
    BY <1>1, <1>2, <1>3, <1>4, <1>5

\* A request that is dropped without a commit; if it knew of a success, its deposit
\* is lost.
LEMMA Abandon ==
    ASSUME ChorusInv,
           NEW r \in Requetes,
           requete' = [requete EXCEPT ![r] = SansRequete],
           perdus \subseteq perdus', perdus' \subseteq Posts,
           requete[r].etape = "succes" => requete[r].post \in perdus',
           UNCHANGED <<facture, evenements, chorus, incidents>>
    PROVE  ChorusInv'
<1> USE DEF ChorusInv
<1>1. TypeOK'
  <2>1. SansRequete \in EtatsRequete
      BY DEF SansRequete, EtatsRequete, Etapes, Statuts
  <2> QED
      BY <2>1 DEF TypeOK, chorus
<1>2. PostNumerote' /\ Seule'
    BY DEF TypeOK, PostNumerote, Seule, EnService, SansRequete, chorus
<1>3. AccepteConnu' /\ DepotTrace'
  <2>1. \A q \in Requetes : q = r \/ requete'[q] = requete[q]
      BY DEF TypeOK
  <2>2. AccepteConnu'
      BY <2>1 DEF AccepteConnu, chorus
  <2>3. DepotTrace'
      BY <2>1 DEF DepotTrace, chorus
  <2> QED
      BY <2>2, <2>3
<1>4. ErreurRetransmissible' /\ ChaineEvenements'
    BY HorsCommit
<1> QED
    BY <1>1, <1>2, <1>3, <1>4

LEMMA PasserBouge ==
    ASSUME TypeOK,
           NEW r \in Requetes,
           NEW etape \in {"envoi", "echec"},
           Passer(r, etape)
    PROVE  Bouge(r, etape, requete[r].essai, requete[r].post)
    BY DEF TypeOK, Passer, Bouge, EtatsRequete, Etapes
-----------------------------------------------------------------------------
(* One lemma per action. *)

LEMMA RecevoirInv ==
    ASSUME ChorusInv, NEW r \in Requetes, Recevoir(r)
    PROVE  ChorusInv'
<1> USE DEF ChorusInv
<1> DEFINE recue == [etape |-> "jeton", statut |-> facture.statut, essai |-> 1, post |-> 0]
<1>1. recue \in EtatsRequete
  <2>1. facture.statut \in Statuts
      BY DEF TypeOK
  <2> QED
      BY <2>1 DEF EtatsRequete, Etapes
<1>2. requete' = [requete EXCEPT ![r] = recue] /\ UNCHANGED <<facture, evenements, chorus, perdus>>
    BY DEF Recevoir
<1>3. incidents \subseteq incidents' /\ incidents' \subseteq incidents \cup {"chevauchement"}
    BY DEF Recevoir
<1>4. TypeOK'
    BY <1>1, <1>2, <1>3 DEF TypeOK, chorus
<1>5. PostNumerote'
    BY <1>2 DEF TypeOK, PostNumerote, chorus
<1>6. Seule'
  <2>1. SUFFICES ASSUME "chevauchement" \notin incidents'
                 PROVE  Seule'
      BY DEF Seule
  <2>2. \A q \in Requetes : ~EnService(q)
      BY <2>1 DEF Recevoir, EnService
  <2>3. facture.flux = 0
      BY DEF Recevoir, DejaDeposee
  <2> QED
      BY <1>2, <2>2, <2>3 DEF TypeOK, Seule, EnService
<1>7. AccepteConnu' /\ DepotTrace'
  <2>1. \A q \in Requetes : requete[q].etape = "succes" => requete'[q] = requete[q]
      BY <1>2 DEF TypeOK, Recevoir
  <2>2. UNCHANGED <<facture, evenements, acceptes, perdus>>
      BY <1>2 DEF chorus
  <2>3. AccepteConnu'
      BY <1>3, <2>1, <2>2 DEF AccepteConnu
  <2>4. DepotTrace'
      BY <1>3, <2>1, <2>2 DEF DepotTrace
  <2> QED
      BY <2>3, <2>4
<1>8. ErreurRetransmissible' /\ ChaineEvenements'
    BY <1>2, <1>3, HorsCommit
<1> QED
    BY <1>4, <1>5, <1>6, <1>7, <1>8

LEMMA ObtenirJetonInv ==
    ASSUME ChorusInv, NEW r \in Requetes, ObtenirJeton(r)
    PROVE  ChorusInv'
<1>1. PICK etape \in {"envoi", "echec"} : Passer(r, etape)
    BY DEF ObtenirJeton
<1>2. /\ requete[r].essai \in 0..2 /\ requete[r].post \in {0} \cup Posts
      /\ requete[r].etape = "jeton" /\ EnService(r)
      /\ enVol \subseteq Posts /\ dernierPost \in 0..MaxPosts
    BY DEF ChorusInv, TypeOK, EtatsRequete, ObtenirJeton, EnService
<1>3. UNCHANGED <<facture, evenements, enVol, acceptes, dernierPost, perdus, incidents>>
    BY DEF ObtenirJeton, chorus
<1>4. Bouge(r, etape, requete[r].essai, requete[r].post)
    BY <1>1, PasserBouge DEF ChorusInv
<1> QED
    BY <1>2, <1>3, <1>4, Deplacement

LEMMA PosterInv ==
    ASSUME ChorusInv, NEW r \in Requetes, Poster(r)
    PROVE  ChorusInv'
<1>1. /\ requete[r].essai \in 0..2 /\ requete[r].post \in {0} \cup Posts
      /\ requete[r].etape = "envoi" /\ EnService(r)
      /\ enVol \subseteq Posts /\ dernierPost \in 0..MaxPosts
      /\ UNCHANGED <<facture, evenements, acceptes, perdus, incidents>>
    BY DEF ChorusInv, TypeOK, EtatsRequete, Poster, EnService
<1>2. CASE Passer(r, "echec") /\ UNCHANGED <<enVol, dernierPost>>
  <2>1. Bouge(r, "echec", requete[r].essai, requete[r].post)
      BY <1>2, PasserBouge DEF ChorusInv
  <2> QED
      BY <1>1, <1>2, <2>1, Deplacement
<1>3. CASE /\ dernierPost < MaxPosts
           /\ dernierPost' = dernierPost + 1
           /\ enVol' = enVol \cup {dernierPost'}
           /\ requete' = [requete EXCEPT ![r].etape = "attente", ![r].post = dernierPost']
  <2>1. dernierPost' \in Posts /\ dernierPost' # 0 /\ dernierPost' \in 0..MaxPosts
      BY <1>1, <1>3, HypBornes DEF Posts
  <2>2. Bouge(r, "attente", requete[r].essai, dernierPost')
      BY <1>3, <2>1 DEF ChorusInv, TypeOK, EtatsRequete, Etapes, Bouge
  <2>3. enVol' \subseteq Posts
      BY <1>1, <1>3, <2>1
  <2> QED
      BY <1>1, <2>1, <2>2, <2>3, Deplacement
<1> QED
    BY <1>2, <1>3 DEF Poster

LEMMA ExpirerInv ==
    ASSUME ChorusInv, NEW r \in Requetes, Expirer(r)
    PROVE  ChorusInv'
<1>1. /\ requete[r].essai \in 0..2 /\ requete[r].post \in {0} \cup Posts
      /\ requete[r].etape = "attente" /\ EnService(r)
      /\ enVol \subseteq Posts /\ dernierPost \in 0..MaxPosts
    BY DEF ChorusInv, TypeOK, EtatsRequete, Expirer, Expirable, EnService
<1>2. UNCHANGED <<facture, evenements, enVol, acceptes, dernierPost, perdus, incidents>>
    BY DEF Expirer, chorus
<1>3. Bouge(r, "echec", requete[r].essai, requete[r].post)
    BY PasserBouge DEF ChorusInv, Expirer
<1> QED
    BY <1>1, <1>2, <1>3, Deplacement

LEMMA ReponseIllisibleInv ==
    ASSUME ChorusInv, NEW r \in Requetes, ReponseIllisible(r)
    PROVE  ChorusInv'
<1>1. perdus \subseteq Posts /\ UNCHANGED perdus /\ requete[r].etape # "succes"
    BY DEF ReponseIllisible, ChorusInv, TypeOK
<1> QED
    BY <1>1, Abandon DEF ReponseIllisible

LEMMA EchouerCommitInv ==
    ASSUME ChorusInv, NEW r \in Requetes, EchouerCommit(r)
    PROVE  ChorusInv'
<1>1. /\ perdus \subseteq perdus'
      /\ requete[r].etape = "succes" => requete[r].post \in perdus'
    BY DEF EchouerCommit, DepotsDe
<1>2. perdus' \subseteq Posts
  <2>1. requete[r].etape = "succes" => requete[r].post \in Posts
      BY DEF ChorusInv, TypeOK, PostNumerote, EtatsRequete
  <2>2. DepotsDe({r}) \subseteq Posts
      BY <2>1 DEF DepotsDe
  <2> QED
      BY <2>2 DEF EchouerCommit, ChorusInv, TypeOK
<1> QED
    BY <1>1, <1>2, Abandon DEF EchouerCommit

\* The answer of an accepted deposit reaches whoever posted it.
LEMMA AccepteInv ==
    ASSUME ChorusInv, NEW n \in Posts, NEW r \in Requetes,
           Attend(r, n),
           Passer(r, "succes"),
           acceptes' = acceptes \cup {n},
           enVol' = enVol \ {n},
           UNCHANGED <<facture, evenements, dernierPost, perdus, incidents>>
    PROVE  ChorusInv'
<1> USE DEF ChorusInv
<1>1. /\ requete[r].etape = "attente" /\ requete[r].post = n /\ EnService(r)
      /\ requete'[r].etape = "succes" /\ requete'[r].post = n
      /\ requete'[r].statut = requete[r].statut
      /\ \A q \in Requetes \ {r} : requete'[q] = requete[q]
      /\ requete' \in [Requetes -> EtatsRequete]
    BY DEF TypeOK, Attend, Passer, EtatsRequete, EnService, Etapes
<1>2. TypeOK'
    BY <1>1 DEF TypeOK
<1>3. PostNumerote'
    BY <1>1 DEF PostNumerote
<1>4. Seule'
    BY <1>1 DEF Seule, EnService
<1>5. AccepteConnu'
  <2>1. SUFFICES ASSUME "chevauchement" \notin incidents, NEW m \in acceptes \ perdus
                 PROVE  m = n
      BY <1>1 DEF AccepteConnu
  <2>2. facture.flux = 0 /\ \A q \in Requetes : EnService(q) => q = r
      BY <1>1, <2>1 DEF Seule
  <2>3. m # 0
      BY HypBornes DEF PostNumerote, Posts
  <2>4. ~ \E q \in Requetes : requete[q].etape = "succes" /\ requete[q].post = m
      BY <1>1, <2>2 DEF EnService
  <2> QED
      BY <2>1, <2>2, <2>3, <2>4 DEF AccepteConnu
<1>6. DepotTrace'
  <2>1. \A q \in Requetes : requete[q].etape = "succes" => requete'[q] = requete[q]
      BY <1>1
  <2>2. \E q \in Requetes : requete'[q].etape = "succes" /\ requete'[q].post = n
      BY <1>1
  <2>3. ASSUME NEW m \in acceptes \ perdus
        PROVE  \/ \E i \in DOMAIN evenements' : evenements'[i].flux = m
               \/ \E q \in Requetes : requete'[q].etape = "succes" /\ requete'[q].post = m
      BY <2>1, <2>3 DEF DepotTrace
  <2> QED
      BY <2>2, <2>3 DEF DepotTrace
<1>7. ErreurRetransmissible' /\ ChaineEvenements'
    BY HorsCommit
<1> QED
    BY <1>2, <1>3, <1>4, <1>5, <1>6, <1>7

\* An accepted deposit that nobody waits for.
LEMMA PerdueInv ==
    ASSUME ChorusInv, NEW n \in Posts,
           acceptes' = acceptes \cup {n},
           enVol' = enVol \ {n},
           perdus' = perdus \cup {n},
           UNCHANGED <<facture, evenements, requete, dernierPost, incidents>>
    PROVE  ChorusInv'
<1> USE DEF ChorusInv
<1>1. TypeOK'
    BY DEF TypeOK
<1>2. PostNumerote' /\ Seule'
    BY DEF PostNumerote, Seule, EnService
<1>3. AccepteConnu' /\ DepotTrace'
    BY DEF AccepteConnu, DepotTrace
<1>4. ErreurRetransmissible' /\ ChaineEvenements'
    BY HorsCommit
<1> QED
    BY <1>1, <1>2, <1>3, <1>4

\* A refused deposit that nobody waits for.
LEMMA RefusPerduInv ==
    ASSUME ChorusInv, NEW n \in Posts,
           enVol' = enVol \ {n},
           UNCHANGED <<facture, evenements, requete, acceptes, dernierPost, perdus,
                       incidents>>
    PROVE  ChorusInv'
<1> USE DEF ChorusInv
<1>1. TypeOK'
    BY DEF TypeOK
<1>2. PostNumerote' /\ Seule' /\ AccepteConnu' /\ DepotTrace'
    BY DEF PostNumerote, Seule, EnService, AccepteConnu, DepotTrace
<1>3. ErreurRetransmissible' /\ ChaineEvenements'
    BY HorsCommit
<1> QED
    BY <1>1, <1>2, <1>3

LEMMA TraiterInv ==
    ASSUME ChorusInv, NEW n \in Posts, Traiter(n)
    PROVE  ChorusInv'
<1>1. /\ UNCHANGED <<facture, evenements, dernierPost, incidents>>
      /\ enVol' = enVol \ {n}
      /\ enVol' \subseteq Posts /\ dernierPost' \in 0..MaxPosts
    BY DEF Traiter, ChorusInv, TypeOK
<1>2. ASSUME acceptes' = acceptes \cup {n},
             NEW r \in Requetes, Attend(r, n), Passer(r, "succes"), UNCHANGED perdus
      PROVE  ChorusInv'
    BY <1>1, <1>2, AccepteInv
<1>3. ASSUME acceptes' = acceptes \cup {n},
             UNCHANGED requete, perdus' = perdus \cup {n}
      PROVE  ChorusInv'
    BY <1>1, <1>3, PerdueInv
<1>4. ASSUME UNCHANGED <<acceptes, perdus>>,
             NEW r \in Requetes, Attend(r, n),
             (Reessayable(r) /\ Reessayer(r)) \/ Passer(r, "echec")
      PROVE  ChorusInv'
  <2>1. /\ requete[r].etape = "attente" /\ EnService(r)
        /\ requete[r].essai \in 0..2 /\ requete[r].post \in {0} \cup Posts
      BY <1>4 DEF Attend, EnService, ChorusInv, TypeOK, EtatsRequete
  <2>2. CASE Reessayable(r) /\ Reessayer(r)
    <3>1. Bouge(r, "jeton", 2, requete[r].post)
      <4>1. requete[r].essai + 1 = 2
          BY <2>2 DEF Reessayable
      <4>2. requete' = [requete EXCEPT ![r].etape = "jeton", ![r].essai = 2]
          BY <2>2, <4>1 DEF Reessayer
      <4>3. requete \in [Requetes -> EtatsRequete]
          BY DEF ChorusInv, TypeOK
      <4>4. [requete[r] EXCEPT !.etape = "jeton", !.essai = 2] \in EtatsRequete
        <5>1. requete[r] \in EtatsRequete /\ "jeton" \in Etapes /\ 2 \in 0..2
            BY <4>3 DEF Etapes
        <5> QED
            BY <5>1 DEF EtatsRequete
      <4>5. requete' \in [Requetes -> EtatsRequete]
          BY <4>2, <4>3, <4>4
      <4>6. requete'[r] = [requete[r] EXCEPT !.etape = "jeton", !.essai = 2]
          BY <4>2, <4>3
      <4>7. \A q \in Requetes \ {r} : requete'[q] = requete[q]
          BY <4>2, <4>3
      <4> QED
          BY <4>3, <4>5, <4>6, <4>7 DEF Bouge, EtatsRequete
    <3>2. 2 \in 0..2 /\ requete[r].etape # "succes"
        BY <2>1
    <3> QED
        BY <1>1, <1>4, <2>1, <3>1, <3>2, Deplacement
  <2>3. CASE Passer(r, "echec")
    <3>1. Bouge(r, "echec", requete[r].essai, requete[r].post)
        BY <2>3, PasserBouge DEF ChorusInv
    <3> QED
        BY <1>1, <1>4, <2>1, <3>1, Deplacement
  <2> QED
      BY <1>4, <2>2, <2>3
<1>5. ASSUME UNCHANGED <<acceptes, perdus, requete>>
      PROVE  ChorusInv'
    BY <1>1, <1>5, RefusPerduInv
<1> QED
    BY <1>2, <1>3, <1>4, <1>5 DEF Traiter

\* A commit writes what the request found out: a deposit with its number, or a
\* failure without one.
LEMMA CommitInv ==
    ASSUME ChorusInv, NEW r \in Requetes,
           NEW statut \in Statuts, NEW flux \in {0} \cup Posts,
           \/ requete[r].etape = "succes" /\ statut = "deposee_pdp" /\ flux = requete[r].post
           \/ requete[r].etape = "echec" /\ statut = "erreur_transmission" /\ flux = 0,
           Committer(r, statut, flux)
    PROVE  ChorusInv'
<1> USE DEF ChorusInv
<1> DEFINE e == [avant |-> requete[r].statut, apres |-> statut, flux |-> flux]
<1>1. /\ facture'.statut = Ecrire(requete[r].statut, statut, facture.statut)
      /\ facture'.flux = Ecrire(0, flux, facture.flux)
      /\ UNCHANGED <<acceptes, perdus, incidents>>
    BY DEF Committer, Colonnes, chorus
<1>2. /\ requete'[r].etape = "libre"
      /\ \A q \in Requetes \ {r} : requete'[q] = requete[q]
    BY DEF Committer, SansRequete, TypeOK
<1>3. TypeOK'
    BY CommitType
<1>4. /\ Len(evenements) \in 0..Len(evenements)
      /\ \A i \in DOMAIN evenements :
            i \in DOMAIN evenements' /\ evenements'[i] = evenements[i]
      /\ \E i \in DOMAIN evenements' : evenements'[i] = e
      /\ \A i \in 0..Len(evenements') :
            \/ i = Len(evenements') /\ i # 0 /\ evenements'[i] = e
            \/ /\ i # Len(evenements') /\ i = Len(evenements) /\ evenements'[i + 1] = e
               /\ i # 0 => evenements'[i] = evenements[i]
            \/ /\ i # Len(evenements') /\ i \in 0..Len(evenements) /\ i # Len(evenements)
               /\ evenements'[i + 1] = evenements[i + 1]
               /\ i # 0 => evenements'[i] = evenements[i]
  <2>1. e \in EvenementsPossibles
      BY DEF TypeOK, EtatsRequete, EvenementsPossibles
  <2>2. evenements' = Append(evenements, e)
      BY DEF Committer, Evenement
  <2>3. evenements \in Seq(EvenementsPossibles)
      BY DEF TypeOK, EvenementsPossibles
  <2> HIDE DEF e
  <2> QED
      BY <2>1, <2>2, <2>3, Positions
<1>5. PostNumerote'
    BY <1>1, <1>2 DEF PostNumerote
<1>6. ASSUME "chevauchement" \notin incidents
      PROVE  /\ facture.flux = 0 /\ requete[r].statut = facture.statut
             /\ facture'.statut = statut /\ facture'.flux = flux
             /\ \A q \in Requetes : EnService(q) => q = r
  <2>1. EnService(r)
      BY DEF EnService
  <2>2. /\ facture.flux = 0 /\ requete[r].statut = facture.statut
        /\ \A q \in Requetes : EnService(q) => q = r
      BY <1>6, <2>1 DEF Seule
  <2> QED
      BY <1>1, <2>2 DEF Ecrire
<1>7. Seule'
    BY <1>1, <1>2, <1>6 DEF Seule, EnService
<1>8. AccepteConnu'
  <2>1. SUFFICES ASSUME "chevauchement" \notin incidents, NEW n \in acceptes \ perdus
                 PROVE  facture'.flux = n
      BY <1>1 DEF AccepteConnu
  <2>2. n # 0
      BY HypBornes DEF PostNumerote, Posts
  <2>3. PICK q \in Requetes : requete[q].etape = "succes" /\ requete[q].post = n
      BY <1>6, <2>1, <2>2 DEF AccepteConnu
  <2>4. q = r
      BY <1>6, <2>1, <2>3 DEF EnService
  <2> QED
      BY <1>6, <2>1, <2>3, <2>4
<1>9. DepotTrace'
  <2>1. SUFFICES ASSUME NEW n \in acceptes \ perdus
                 PROVE  \/ \E i \in DOMAIN evenements' : evenements'[i].flux = n
                        \/ \E q \in Requetes : /\ requete'[q].etape = "succes"
                                              /\ requete'[q].post = n
      BY <1>1 DEF DepotTrace
  <2>2. CASE \E i \in DOMAIN evenements : evenements[i].flux = n
      BY <1>4, <2>2
  <2>3. ASSUME NEW q \in Requetes, requete[q].etape = "succes", requete[q].post = n
        PROVE  \/ \E i \in DOMAIN evenements' : evenements'[i].flux = n
               \/ \E p \in Requetes : requete'[p].etape = "succes" /\ requete'[p].post = n
    <3>1. CASE q = r
      <4>1. e.flux = n
          BY <2>3, <3>1
      <4> QED
          BY <1>4, <4>1
    <3>2. CASE q # r
        BY <1>2, <2>3, <3>2
    <3> QED
        BY <3>1, <3>2
  <2>4. \/ \E i \in DOMAIN evenements : evenements[i].flux = n
        \/ \E q \in Requetes : requete[q].etape = "succes" /\ requete[q].post = n
      BY <2>1 DEF DepotTrace
  <2> QED
      BY <2>2, <2>3, <2>4
<1>10. ErreurRetransmissible'
    BY <1>1, <1>6 DEF ErreurRetransmissible
<1>11. ChaineEvenements'
  <2>1. SUFFICES ASSUME "chevauchement" \notin incidents,
                        NEW i \in 0..Len(evenements')
                 PROVE  (IF i = 0 THEN "validee" ELSE evenements'[i].apres)
                        = (IF i = Len(evenements') THEN facture'.statut
                                                   ELSE evenements'[i + 1].avant)
      BY <1>1 DEF ChaineEvenements
  <2>2. /\ facture'.statut = statut /\ requete[r].statut = facture.statut
        /\ e.avant = facture.statut /\ e.apres = statut
      BY <1>6, <2>1
  <2>3. \A j \in 0..Len(evenements) :
            (IF j = 0 THEN "validee" ELSE evenements[j].apres)
            = (IF j = Len(evenements) THEN facture.statut ELSE evenements[j + 1].avant)
      BY <2>1 DEF ChaineEvenements
  <2> HIDE DEF e
  <2>4. CASE i = Len(evenements') /\ i # 0 /\ evenements'[i] = e
      BY <2>2, <2>4
  <2>5. CASE /\ i # Len(evenements') /\ i = Len(evenements) /\ evenements'[i + 1] = e
             /\ i # 0 => evenements'[i] = evenements[i]
    <3>1. (IF i = 0 THEN "validee" ELSE evenements[i].apres) = facture.statut
        BY <1>4, <2>3, <2>5
    <3> QED
        BY <2>2, <2>5, <3>1
  <2>6. CASE /\ i # Len(evenements') /\ i \in 0..Len(evenements) /\ i # Len(evenements)
             /\ evenements'[i + 1] = evenements[i + 1]
             /\ i # 0 => evenements'[i] = evenements[i]
    <3>1. (IF i = 0 THEN "validee" ELSE evenements[i].apres) = evenements[i + 1].avant
        BY <2>3, <2>6
    <3> QED
        BY <2>6, <3>1
  <2> QED
      BY <1>4, <2>4, <2>5, <2>6
<1> QED
    BY <1>3, <1>5, <1>7, <1>8, <1>9, <1>10, <1>11

LEMMA EnregistrerEchecInv ==
    ASSUME ChorusInv, NEW r \in Requetes, EnregistrerEchec(r)
    PROVE  ChorusInv'
    BY CommitInv DEF EnregistrerEchec, Statuts

LEMMA EnregistrerSuccesInv ==
    ASSUME ChorusInv, NEW r \in Requetes, EnregistrerSucces(r)
    PROVE  ChorusInv'
<1>1. requete[r].post \in {0} \cup Posts
    BY DEF ChorusInv, TypeOK, EtatsRequete
<1> QED
    BY <1>1, CommitInv DEF EnregistrerSucces, Statuts

LEMMA ArreterInv ==
    ASSUME ChorusInv, Arreter
    PROVE  ChorusInv'
<1> USE DEF ChorusInv
<1>1. /\ requete' = [r \in Requetes |-> SansRequete]
      /\ incidents' = incidents \cup {"arret"}
      /\ perdus' = perdus \cup DepotsDe(Requetes)
      /\ UNCHANGED <<facture, evenements, enVol, acceptes, dernierPost>>
    BY DEF Arreter, chorus
<1>6. /\ \A r \in Requetes : requete[r].etape = "succes" => requete[r].post \in perdus'
      /\ DepotsDe(Requetes) \subseteq Posts
  <2>1. \A r \in Requetes : requete[r].etape = "succes" => requete[r].post \in Posts
      BY DEF TypeOK, PostNumerote, EtatsRequete
  <2> QED
      BY <1>1, <2>1 DEF DepotsDe
<1>2. TypeOK'
  <2>1. SansRequete \in EtatsRequete
      BY DEF SansRequete, EtatsRequete, Etapes, Statuts
  <2> QED
      BY <1>1, <1>6, <2>1 DEF TypeOK
<1>3. PostNumerote' /\ Seule'
    BY <1>1 DEF PostNumerote, Seule, EnService, SansRequete
<1>4. AccepteConnu' /\ DepotTrace'
    BY <1>1, <1>6 DEF AccepteConnu, DepotTrace
<1>5. ErreurRetransmissible' /\ ChaineEvenements'
    BY <1>1, HorsCommit
<1> QED
    BY <1>2, <1>3, <1>4, <1>5
-----------------------------------------------------------------------------
LEMMA InvConservee ==
    ASSUME ChorusInv, [Next]_vars
    PROVE  ChorusInv'
<1>1. ASSUME NEW r \in Requetes, Recevoir(r) \/ Avancer(r) \/ ReponseIllisible(r) \/ EchouerCommit(r)
      PROVE  ChorusInv'
    BY <1>1, RecevoirInv, ObtenirJetonInv, PosterInv, ExpirerInv, ReponseIllisibleInv,
       EnregistrerEchecInv, EnregistrerSuccesInv, EchouerCommitInv DEF Avancer
<1>2. ASSUME NEW n \in Posts, Traiter(n)
      PROVE  ChorusInv'
    BY <1>2, TraiterInv
<1>3. CASE Arreter
    BY <1>3, ArreterInv
<1>4. CASE UNCHANGED vars
    BY <1>4 DEF ChorusInv, TypeOK, PostNumerote, Seule, EnService, AccepteConnu, DepotTrace,
                ErreurRetransmissible, ChaineEvenements, vars
<1> QED
    BY <1>1, <1>2, <1>3, <1>4 DEF Next

LEMMA InvariantDeLaTransmission == Spec => []ChorusInv
    BY InvAuDebut, InvConservee, PTL DEF Spec

\* Without an overlap, whatever Chorus Pro accepted and was not lost is one deposit.
LEMMA AuPlusUnDepot ==
    ASSUME ChorusInv
    PROVE  UnSeulDepot
<1> USE DEF ChorusInv
<1> DEFINE connus == acceptes \ perdus
<1>1. SUFFICES ASSUME "chevauchement" \notin incidents
               PROVE  Cardinality(connus) <= 1
    BY DEF UnSeulDepot
<1>2. ASSUME NEW n \in connus, NEW m \in connus
      PROVE  n = m
  <2>1. n # 0 /\ m # 0
      BY <1>2, HypBornes DEF PostNumerote, Posts
  <2>2. CASE facture.flux # 0
    <3>1. \A q \in Requetes : requete[q].etape # "succes"
        BY <1>1, <2>2 DEF Seule, EnService
    <3> QED
        BY <1>1, <1>2, <3>1 DEF AccepteConnu
  <2>3. CASE facture.flux = 0
    <3>1. PICK p \in Requetes : requete[p].etape = "succes" /\ requete[p].post = n
        BY <1>1, <1>2, <2>1, <2>3 DEF AccepteConnu
    <3>2. PICK q \in Requetes : requete[q].etape = "succes" /\ requete[q].post = m
        BY <1>1, <1>2, <2>1, <2>3 DEF AccepteConnu
    <3>3. p = q
        BY <1>1, <3>1, <3>2 DEF Seule, EnService
    <3> QED
        BY <3>1, <3>2, <3>3
  <2> QED
      BY <2>2, <2>3
<1> HIDE DEF connus
<1>3. CASE connus = {}
    BY <1>3, FS_EmptySet
<1>4. CASE connus # {}
  <2>1. PICK n \in connus : connus = {n}
      BY <1>2, <1>4
  <2> QED
      BY <2>1, FS_Singleton
<1> QED
    BY <1>3, <1>4

\* The variables of a transmission have their types (router.py:514-642).
THEOREM TypesCorrects == Spec => []TypeOK
    BY InvariantDeLaTransmission, PTL DEF ChorusInv

\* The guard of router.py:534-541 lets Chorus Pro accept one deposit of an invoice, as
\* long as no two requests overlap, besides those whose own outcome was lost: to a
\* late answer, a failed commit or a stop.
THEOREM DepotUnique == Spec => []UnSeulDepot
    BY InvariantDeLaTransmission, AuPlusUnDepot, PTL

\* An accepted deposit is never without an event (router.py:561-562) unless its own
\* outcome was lost, however many requests overlap.
THEOREM JamaisSansTrace == Spec => []DepotTrace
    BY InvariantDeLaTransmission, PTL DEF ChorusInv

\* Without an overlap the events form a chain that ends in the status of the
\* invoice (router.py:589-642), whatever fails and is sent again.
THEOREM HistoriqueCoherent == Spec => []ChaineEvenements
    BY InvariantDeLaTransmission, PTL DEF ChorusInv

\* Without an overlap an invoice in error carries no deposit number: the guard of
\* router.py:534-541 lets it be sent again.
THEOREM RetransmissionPossible == Spec => []ErreurRetransmissible
    BY InvariantDeLaTransmission, PTL DEF ChorusInv
=============================================================================
