------------------------------- MODULE Comptes -------------------------------
(***************************************************************************)
(* The accounts: platform administrators (src/utilisateurs/services.py),   *)
(* deletion of users and companies by the platform (src/administration),   *)
(* the team of one company (src/utilisateurs/router.py), and the links by  *)
(* which a forgotten password is replaced (src/auth/service.py).           *)
(*                                                                         *)
(* A request decides on one snapshot and commits later (see CycleFacture): *)
(* Recevoir, then the action of its endpoint.  Every request that would    *)
(* write nothing ends in its guards, so nothing of the snapshot is kept.   *)
(*                                                                         *)
(* Left out: the password itself (only who may replace it matters), names, *)
(* roles other than est_admin, the quota of members (Abonnements), other   *)
(* companies, the deletion of data.  The company exists from the start: it *)
(* was created by any user, the seeded root included.                      *)
(***************************************************************************)
EXTENDS Integers, FiniteSets, FiniteSetsExt

CONSTANTS
    Utilisateurs,  \* bound: the rows of table utilisateur, present and future
    Racine,        \* the seeded administrator, compte_protege
    Fondateurs,    \* bound: who may have created the company
    Modifications, \* bound: the columns a PATCH of a member changes together
    MaxJetons,     \* bound: ids of table reinitialisation_mot_de_passe
    Sessions,      \* concurrent HTTP requests
    Profils,       \* bound: who calls what, an assignment of operations to sessions
    Aucun          \* SQL NULL

Plateforme == {"promouvoir", "revoquer", "activer", "desactiver", "supprimer",
               "supprimer_entreprise"}
Equipe == {"creer", "modifier", "retirer", "produire"}
Operations == Plateforme \cup Equipe \cup {"changer_mdp", "demander", "appliquer"}

\* What a PATCH of a member may change: est_admin and est_actif, either way, and
\* the password.
Colonnes == {"admin", "membre", "actif", "inactif", "mdp"}

ASSUME HypComptes ==
    /\ Racine \in Utilisateurs /\ Fondateurs \subseteq Utilisateurs /\ Fondateurs # {}
    /\ Aucun \notin Utilisateurs
ASSUME HypModifications ==
    \A m \in Modifications :
        /\ m \subseteq Colonnes /\ m # {}
        /\ ~({"admin", "membre"} \subseteq m) /\ ~({"actif", "inactif"} \subseteq m)
ASSUME HypSessions == IsFiniteSet(Sessions)
ASSUME HypJetons == MaxJetons \in Nat
ASSUME HypProfils == Profils \subseteq [Sessions -> SUBSET Operations]

Ids == 1..MaxJetons

VARIABLES
    comptes,     \* tables utilisateur and utilisateur_entreprise
    entreprise,  \* the company is in table entreprise
    jetons,      \* table reinitialisation_mot_de_passe
    recus,       \* the links that were sent by e-mail
    etape,       \* per session: "libre", "lue", or "engagee" once a link is committed
    demande,     \* per session: the request being served
    droits,      \* the profile of this behaviour
    vus,         \* history, per session: the writes committed since it read
    usages,      \* history, per link: times it replaced a password
    morts,       \* history: links used, replaced, or older than a change of password
    survivants,  \* history: links unused when the team changed the password, and since
    coupure      \* history: the team of the root deactivated it, nobody reactivated it

base == <<comptes, entreprise, coupure>>
liens == <<jetons, recus, usages, morts, survivants>>
requete == <<etape, demande>>
vars == <<base, liens, requete, droits, vus>>

-----------------------------------------------------------------------------
(* Rows *)

\* Ids are not given twice: a user is to come, present, or gone. `auteur': an
\* invoice, a client, a document... of the company refers to the user.
Comptes == [etat : {"futur", "present", "parti"}, actif : BOOLEAN,
            plateforme : BOOLEAN, lien : {"aucun", "membre", "admin"}, auteur : BOOLEAN]
Nouveau(lien) == [etat |-> "present", actif |-> TRUE, plateforme |-> FALSE,
                  lien |-> lien, auteur |-> FALSE]
Parti == [Nouveau("aucun") EXCEPT !.etat = "parti"]

\* The row and the membership with the given columns written.
Ecrits(ligne, champs) ==
    [ligne EXCEPT
        !.lien = IF "admin" \in champs THEN "admin" ELSE IF "membre" \in champs THEN "membre" ELSE @,
        !.actif = "actif" \in champs \/ (@ /\ "inactif" \notin champs)]

Present(u) == comptes[u].etat = "present"
Admins(c) == {u \in Utilisateurs : c[u].etat = "present" /\ c[u].plateforme}
Membres(c) == {u \in Utilisateurs : c[u].lien # "aucun"}
AdminsEquipe(c) == {u \in Utilisateurs : c[u].lien = "admin"}

\* compteurs_entreprise: no invoice, client, document or product.
Vierge == \A u \in Utilisateurs : ~comptes[u].auteur

\* A link; "echu" is a link whose date_expiration is past.
Jetons == [etat : {"futur", "valable", "echu", "utilise", "supprime"},
           de : Utilisateurs \cup {Aucun}]
EnAttente(u) == {j \in Ids : jetons[j].de = u /\ jetons[j].etat \in {"valable", "echu"}}
JetonSuivant == Min({j \in Ids : jetons[j].etat = "futur"})

-----------------------------------------------------------------------------
(* Requests *)

Appels(ops) == [op : ops, cible : Utilisateurs \cup {Aucun},
                champs : {{}, {"admin"}, {"inactif"}} \cup Modifications, jeton : Ids \cup {0}]
Demandes == Appels(Operations \cup {"aucune"})
SansDemande == [op |-> "aucune", cible |-> Aucun, champs |-> {}, jeton |-> 0]

\* The choices of a client: whom, as what, with which link it was sent.
Recevables(ops) ==
    {d \in Appels(ops) :
        /\ d.op \in Operations
        /\ (d.op = "supprimer_entreprise") = (d.cible = Aucun)
        /\ d.champs # {} => d.op \in {"creer", "modifier"}
        /\ d.op = "creer" => d.champs \in {{}, {"admin"}, {"inactif"}}
        /\ d.op = "modifier" => d.champs \in Modifications
        /\ (d.op = "appliquer") = (d.jeton # 0)
        /\ d.jeton # 0 => d.jeton \in recus /\ jetons[d.jeton].de = d.cible}

\* get_current_user with require_admin_plateforme, or with verify_tenant_access
\* and the permission of the endpoint; a forgotten password needs no login.
Autorise(agent, d) ==
    \/ d.op \in {"demander", "appliquer"}
    \/ /\ Present(agent) /\ comptes[agent].actif
       /\ \/ d.op \in Plateforme /\ comptes[agent].plateforme
          \/ d.op \in Equipe /\ comptes[agent].lien # "aucun"
          \/ d.op = "changer_mdp" /\ d.cible = agent
    /\ d.op = "produire" => d.cible = agent

\* Mutant of RefusRevoquer: the protected account is revoked as any other.
RevoquerSansProtection(agent, u) ==
    \/ u = agent
    \/ ~comptes[u].plateforme
    \/ Cardinality(Admins(comptes)) <= 1

\* revoke_platform_admin: oneself, the root, not an administrator, the last one.
RefusRevoquer(agent, u) ==
    \/ u = agent
    \/ u = Racine
    \/ ~comptes[u].plateforme
    \/ Cardinality(Admins(comptes)) <= 1

\* Mutant of SeulAdmin: the comparison with the number of members is inverted.
SeulAdminIsole(u) ==
    /\ comptes[u].lien = "admin"
    /\ Cardinality(Membres(comptes)) <= 1
    /\ AdminsEquipe(comptes) = {u}

\* _entreprises_dont_il_est_seul_admin: alone to administer other members.
SeulAdmin(u) ==
    /\ comptes[u].lien = "admin"
    /\ Cardinality(Membres(comptes)) > 1
    /\ AdminsEquipe(comptes) = {u}

\* supprimer_utilisateur and its five guards.
RefusSupprimer(agent, u) ==
    \/ u \in {Racine, agent}
    \/ comptes[u].plateforme /\ Cardinality(Admins(comptes)) <= 1
    \/ SeulAdmin(u)
    \/ comptes[u].auteur

\* Mutant of RefusAppliquer: a used link is good again.
AppliquerDejaUtilise(j) ==
    jetons[j].etat \notin {"valable", "utilise"} \/ ~comptes[jetons[j].de].actif

\* apply_password_reset: the link is gone, used or expired, or its user inactive.
RefusAppliquer(j) == jetons[j].etat # "valable" \/ ~comptes[jetons[j].de].actif

\* update_team_member: not a member, or a column that would not change: the
\* request without it says the same.  The protected account is as any other.
RefusModifier(u, champs) ==
    \/ comptes[u].lien = "aucun"
    \/ \E c \in champs \ {"mdp"} : Ecrits(comptes[u], {c}) = comptes[u]

\* The request ends in its guards, or has nothing to write.
Refus(agent, d) ==
    LET u == d.cible IN
    \/ ~Autorise(agent, d)
    \/ u # Aucun /\ Present(u) = (d.op = "creer")
    \/ d.op = "creer" /\ comptes[u].etat = "parti"
    \/ d.op = "promouvoir" /\ comptes[u].plateforme
    \/ d.op = "revoquer" /\ RefusRevoquer(agent, u)
    \/ d.op = "activer" /\ comptes[u].actif
    \/ d.op = "desactiver" /\ (u \in {Racine, agent} \/ ~comptes[u].actif)
    \/ d.op = "supprimer" /\ RefusSupprimer(agent, u)
    \/ d.op = "supprimer_entreprise" /\ ~(entreprise /\ Vierge)
    \/ d.op = "modifier" /\ RefusModifier(u, d.champs)
    \/ d.op = "retirer" /\ u = Racine
    \/ d.op = "produire" /\ comptes[u].auteur
    \/ d.op = "demander" /\ ~comptes[u].actif
    \/ d.op = "appliquer" /\ RefusAppliquer(d.jeton)

Recevoir(s) ==
    /\ etape[s] = "libre"
    /\ etape' = [etape EXCEPT ![s] = "lue"]
    /\ \E d \in Recevables(droits[s]), agent \in Utilisateurs :
          /\ ~Refus(agent, d)
          /\ demande' = [demande EXCEPT ![s] = d]
    /\ UNCHANGED <<base, liens, droits, vus>>

EnCours(s, op) == etape[s] = "lue" /\ demande[s].op = op

Clore(s) ==
    /\ etape' = [etape EXCEPT ![s] = "libre"]
    /\ demande' = [demande EXCEPT ![s] = SansDemande]

\* The sessions of T have missed a write; s has ended.
Signaler(s, marque, T) ==
    vus' = [t \in Sessions |-> IF t = s THEN {}
                              ELSE IF t \in T THEN vus[t] \cup {marque} ELSE vus[t]]

\* An ending that no other request has to know of.
Finir(s) == Clore(s) /\ Signaler(s, "rien", {})

\* The team loses an administrator or gains a member: deletions decided before miss it.
FinirEquipe(s) ==
    /\ Clore(s)
    /\ Signaler(s, "equipe", {t \in Sessions : demande[t].op = "supprimer"})

\* Refused commit, deadlock victim, lost connection, stop before the e-mail.
Abandonner(s) ==
    /\ etape[s] # "libre"
    /\ Finir(s)
    /\ UNCHANGED <<base, liens, droits>>

-----------------------------------------------------------------------------
(* Platform *)

\* UPDATE of the row, or of the membership, of the user the request is about; a
\* row that is gone makes it fail.
Modifier(s, op, ligne) ==
    /\ EnCours(s, op)
    /\ Present(demande[s].cible)
    /\ comptes' = [comptes EXCEPT ![demande[s].cible] = ligne]
    /\ UNCHANGED <<entreprise, droits>>

Cible(s) == comptes[demande[s].cible]

Promouvoir(s) ==
    /\ Modifier(s, "promouvoir", [Cible(s) EXCEPT !.plateforme = TRUE])
    /\ Finir(s) /\ UNCHANGED <<liens, coupure>>
Revoquer(s) ==
    /\ Modifier(s, "revoquer", [Cible(s) EXCEPT !.plateforme = FALSE])
    /\ Finir(s) /\ UNCHANGED <<liens, coupure>>
Activer(s) ==
    /\ Modifier(s, "activer", [Cible(s) EXCEPT !.actif = TRUE])
    /\ coupure' = (coupure /\ demande[s].cible # Racine)
    /\ Finir(s) /\ UNCHANGED liens
Desactiver(s) ==
    /\ Modifier(s, "desactiver", [Cible(s) EXCEPT !.actif = FALSE])
    /\ Finir(s) /\ UNCHANGED <<liens, coupure>>

\* DELETE of a user: its links of reset and its memberships go with it, the
\* foreign keys of what it created refuse; a user already gone is a warning.
SupprimerLigne(s) ==
    LET u == demande[s].cible IN
    /\ ~comptes[u].auteur
    /\ comptes' = [comptes EXCEPT ![u] = Parti]
    /\ jetons' = [j \in Ids |-> IF jetons[j].de = u THEN [jetons[j] EXCEPT !.etat = "supprime"]
                                                   ELSE jetons[j]]
    /\ UNCHANGED <<entreprise, coupure, recus, usages, morts, survivants, droits>>

\* supprimer_utilisateur.
Supprimer(s) == EnCours(s, "supprimer") /\ SupprimerLigne(s) /\ FinirEquipe(s)

\* Mutant of SupprimerEntreprise: only the count protects the data.
SupprimerEntrepriseSansCles(s) ==
    /\ EnCours(s, "supprimer_entreprise")
    /\ entreprise' = FALSE
    /\ comptes' = [u \in Utilisateurs |-> [comptes[u] EXCEPT !.lien = "aucun"]]
    /\ Finir(s)
    /\ UNCHANGED <<coupure, liens, droits>>

\* supprimer_entreprise: memberships go, users stay; the foreign keys refuse
\* when data were created since the count.
SupprimerEntreprise(s) ==
    /\ EnCours(s, "supprimer_entreprise")
    /\ Vierge
    /\ entreprise' = FALSE
    /\ comptes' = [u \in Utilisateurs |-> [comptes[u] EXCEPT !.lien = "aucun"]]
    /\ Finir(s)
    /\ UNCHANGED <<coupure, liens, droits>>

-----------------------------------------------------------------------------
(* Team *)

\* create_team_member: refused by the foreign key if the company is gone, by the
\* unique e-mail if the user was created meanwhile.
Creer(s) ==
    /\ EnCours(s, "creer")
    /\ entreprise
    /\ Cible(s).etat = "futur"
    /\ comptes' = [comptes EXCEPT ![demande[s].cible] =
                     Ecrits(Nouveau("membre"), demande[s].champs)]
    /\ FinirEquipe(s)
    /\ UNCHANGED <<entreprise, coupure, liens, droits>>

\* update_team_member: est_admin of the membership, est_actif and the password of
\* the user, in one commit.  Neither is the protected account refused, nor are
\* the links of the user invalidated.
ModifierMembre(s) ==
    LET u == demande[s].cible  champs == demande[s].champs IN
    /\ champs \cap {"admin", "membre"} # {} => Cible(s).lien # "aucun"
    /\ Modifier(s, "modifier", Ecrits(Cible(s), champs))
    /\ coupure' = IF u = Racine THEN "actif" \notin champs /\ ("inactif" \in champs \/ coupure)
                               ELSE coupure
    /\ morts' = IF "mdp" \in champs THEN morts \cup {j \in Ids : jetons[j].de = u} ELSE morts
    /\ survivants' = IF "mdp" \in champs THEN survivants \cup EnAttente(u) ELSE survivants
    /\ FinirEquipe(s)
    /\ UNCHANGED <<jetons, recus, usages>>

\* delete_team_member: only the protected account is refused.
Retirer(s) == EnCours(s, "retirer") /\ SupprimerLigne(s) /\ FinirEquipe(s)

\* Any creation of data of the company in the name of the user (clients,
\* invoices, documents, products): both foreign keys must hold.
Produire(s) ==
    /\ entreprise
    /\ Modifier(s, "produire", [Cible(s) EXCEPT !.auteur = TRUE])
    /\ Finir(s) /\ UNCHANGED <<liens, coupure>>

\* register_public_user: an account without a company, est_actif as it is sent.
Inscrire(u) ==
    /\ comptes[u].etat = "futur"
    /\ \E champs \in {{}, {"inactif"}} :
          comptes' = [comptes EXCEPT ![u] = Ecrits(Nouveau("aucun"), champs)]
    /\ UNCHANGED <<entreprise, coupure, liens, requete, droits, vus>>

-----------------------------------------------------------------------------
(* Forgotten password *)

\* Mutant of SansEnAttente: the links in circulation are kept.
AvecEnAttente(u) == jetons

\* invalidate_pending_reset_tokens: the DELETE reads the table as it is, and its
\* locks keep the links of the user from changing until the commit.
SansEnAttente(u) ==
    [j \in Ids |-> IF j \in EnAttente(u) THEN [jetons[j] EXCEPT !.etat = "supprime"] ELSE jetons[j]]

\* request_password_reset: at most one link in circulation.
Demander(s) ==
    LET u == demande[s].cible IN
    /\ EnCours(s, "demander")
    /\ Present(u)
    /\ \E j \in Ids : jetons[j].etat = "futur"
    /\ jetons' = [SansEnAttente(u) EXCEPT ![JetonSuivant] = [etat |-> "valable", de |-> u]]
    /\ morts' = morts \cup {j \in Ids : jetons[j].de = u}
    /\ etape' = [etape EXCEPT ![s] = "engagee"]
    /\ demande' = [demande EXCEPT ![s].jeton = JetonSuivant]
    /\ UNCHANGED <<base, recus, usages, survivants, droits, vus>>

\* The e-mail leaves after the commit.
Envoyer(s) ==
    /\ etape[s] = "engagee"
    /\ recus' = recus \cup {demande[s].jeton}
    /\ Finir(s)
    /\ UNCHANGED <<base, jetons, usages, morts, survivants, droits>>

\* apply_password_reset: the new password, and date_utilisation, written without
\* looking at it again. Only a link deleted since makes the commit fail.
Appliquer(s) ==
    LET j == demande[s].jeton IN
    /\ EnCours(s, "appliquer")
    /\ jetons[j].etat # "supprime"
    /\ jetons' = [jetons EXCEPT ![j].etat = "utilise"]
    /\ usages' = [usages EXCEPT ![j] = @ + 1]
    /\ morts' = morts \cup {j}
    /\ survivants' = survivants \ {j}
    /\ Clore(s)
    /\ Signaler(s, "usage", {t \in Sessions : demande[t].op = "appliquer" /\ demande[t].jeton = j})
    /\ UNCHANGED <<base, recus, droits>>

\* change_password, for a user that is logged in.
ChangerMotDePasse(s) ==
    LET u == demande[s].cible IN
    /\ EnCours(s, "changer_mdp")
    /\ Present(u)
    /\ jetons' = SansEnAttente(u)
    /\ morts' = morts \cup {j \in Ids : jetons[j].de = u}
    /\ Finir(s)
    /\ UNCHANGED <<base, recus, usages, survivants, droits>>

\* datetime.now() passes date_expiration.
Expirer(j) ==
    /\ jetons[j].etat = "valable"
    /\ jetons' = [jetons EXCEPT ![j].etat = "echu"]
    /\ UNCHANGED <<base, recus, usages, morts, survivants, requete, droits, vus>>

-----------------------------------------------------------------------------
\* The seeded root, and the company of its founder, who may be the root itself.
Init ==
    /\ \E f \in Fondateurs :
          comptes = [u \in Utilisateurs |->
                       [Nouveau(IF u = f THEN "admin" ELSE "aucun") EXCEPT
                          !.plateforme = u = Racine,
                          !.etat = IF u \in {Racine, f} THEN "present" ELSE "futur"]]
    /\ entreprise = TRUE
    /\ jetons = [j \in Ids |-> [etat |-> "futur", de |-> Aucun]]
    /\ recus = {}
    /\ etape = [s \in Sessions |-> "libre"]
    /\ demande = [s \in Sessions |-> SansDemande]
    /\ droits \in Profils
    /\ vus = [s \in Sessions |-> {}]
    /\ usages = [j \in Ids |-> 0]
    /\ morts = {}
    /\ survivants = {}
    /\ coupure = FALSE

Next ==
    \/ \E s \in Sessions :
          \/ Recevoir(s)
          \/ Promouvoir(s) \/ Revoquer(s) \/ Activer(s) \/ Desactiver(s)
          \/ Supprimer(s) \/ SupprimerEntreprise(s)
          \/ Creer(s) \/ ModifierMembre(s) \/ Retirer(s) \/ Produire(s)
          \/ Demander(s) \/ Envoyer(s) \/ Appliquer(s) \/ ChangerMotDePasse(s)
          \/ Abandonner(s)
    \/ \E u \in Utilisateurs : Inscrire(u)
    \/ \E j \in Ids : Expirer(j)

Spec == Init /\ [][Next]_vars

-----------------------------------------------------------------------------
(* Properties *)

\* The variables have their types.
TypeOK ==
    /\ comptes \in [Utilisateurs -> Comptes]
    /\ entreprise \in BOOLEAN
    /\ jetons \in [Ids -> Jetons]
    /\ recus \subseteq Ids
    /\ etape \in [Sessions -> {"libre", "lue", "engagee"}]
    /\ demande \in [Sessions -> Demandes]
    /\ droits \in Profils
    /\ vus \in [Sessions -> SUBSET {"equipe", "usage"}]
    /\ usages \in [Ids -> 0..Cardinality(Sessions)]
    /\ morts \subseteq Ids
    /\ survivants \subseteq morts
    /\ coupure \in BOOLEAN

\* "Le dernier admin ne peut pas etre revoque (il en faut toujours au moins un)"
\* (utilisateurs/services.py:181-182): however revocations, deletions and
\* deactivations of administrators cross, one remains, and one who can act.  The
\* counts alone do not promise it: the protected account does, which only the
\* team of a company it belongs to can deactivate (utilisateurs/router.py:403-407
\* writes est_actif without testing compte_protege); the history `coupure' says
\* when that happened.
AdminPresent ==
    /\ Admins(comptes) # {}
    /\ coupure \/ \E u \in Admins(comptes) : comptes[u].actif

\* "Les supprimer laisserait une entreprise peuplee sans personne pour
\* l'administrer" (administration/services.py:908-909): a deletion by the
\* platform leaves members without an administrator only if the team lost an
\* administrator or gained a member since it was decided.
EquipeAdministree ==
    [][\A s \in Sessions :
          /\ EnCours(s, "supprimer") /\ comptes' # comptes /\ etape'[s] = "libre"
          /\ "equipe" \notin vus[s]
          /\ AdminsEquipe(comptes) # {}
          => Membres(comptes') = {} \/ AdminsEquipe(comptes') # {}]_vars

\* A company is deleted only empty: data and members always have their company
\* and data their author, whatever is created while deletions are decided
\* (administration/services.py:1045-1136).
RienSansEntreprise ==
    \A u \in Utilisateurs :
        /\ comptes[u].lien # "aucun" => entreprise /\ Present(u)
        /\ comptes[u].auteur => entreprise /\ Present(u)

\* "Un seul lien de reinitialisation valable a la fois" (auth/service.py:49).
UnSeulLien == \A u \in Utilisateurs : Cardinality(EnAttente(u)) <= 1

\* "Un lien emis avant le changement ne doit plus permettre de le modifier"
\* (auth/service.py:72-73), "usage unique" (93): a link that was used, replaced,
\* or older than a change of password replaces a password only in a
\* request that overlapped another use of the same link, or because the change
\* was made by the team of the user while the link was in circulation:
\* update_team_member (utilisateurs/router.py:409-411) does not delete the links.
LienMortInutile ==
    [][\A j \in Ids : usages'[j] > usages[j] /\ j \in morts \ survivants =>
          \E s \in Sessions : /\ EnCours(s, "appliquer") /\ etape'[s] = "libre"
                              /\ demande[s].jeton = j /\ "usage" \in vus[s]]_vars
=============================================================================
