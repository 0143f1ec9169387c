# Verification of factur-ia-api-data

TLA+ models, TLC runs and TLAPS proofs for the API of Factur-IA: a FastAPI /
SQLModel service over MySQL 8 that keeps invoices, uploaded documents,
subscriptions and accounts of several companies (tenants). Paths below are
relative to the repository (`src/...`); identifiers keep the French of the code.

## 1. What runs, and what can go wrong

Each HTTP request is served by an asyncio coroutine with its own SQLAlchemy
session (`core/database.py:13-25`), hence its own MySQL transaction, under the
default isolation level, REPEATABLE READ. No query takes a lock
(`FOR UPDATE` appears nowhere) and no row has a version column. So, for every
handler:

* all its plain reads see **one snapshot**, taken at the first read;
* its writes are applied at once by the commit, **to the rows as they are then**:
  an UPDATE carries only the columns whose value differs from the one loaded, and
  nothing tests again what was read;
* only unique and foreign keys see the present. They are the real synchronisation
  of the system;
* an UPDATE that matches no row any more raises `StaleDataError` (500), a DELETE
  that matches none is a warning;
* deadlocks, lost connections, values a column refuses and process stops roll the
  transaction back, and whatever was done outside it (a file, a deposit, an e-mail) stays.

The models keep this granularity: *reading* is one action, *committing* another,
and everything other requests do may come in between. Calls to the AI service
and to Chorus Pro are further cut points.

### Inventory

| component | state | operations | hard part | correct when |
|---|---|---|---|---|
| Invoice life cycle and numbering (`factures/service.py`, `statuts.py`) | table `facture`: status, type, number, origin, client, snapshot | create, PATCH, delete, validate (max+1, 3 attempts), generate a credit note | stale check-then-write; number race; retries; change of month | series without gap or double; a validated invoice is final; credit notes tied to an emitted original |
| Lines and totals | `facture_ligne`, the three totals of `facture` | replace lines, edit header, copy into a credit note | two PATCHes replace lines they each read; rounding line by line | totals = sum of lines; a credit note cancels its invoice to the cent |
| Statistics (`factures/statistiques.py`) | none; six queries on one snapshot | period, aggregates, answer | writers commit between the queries; stale writes; midnight; signs of credit notes | the blocks of an answer agree; credited invoices count for nothing; a closed period stays |
| Chorus Pro transmission (`factures/router.py:479-644`, `integrations/chorus_pro`) | status and deposit number of the invoice, `evenement_pdp`, token cache of the request | token, deposit, one retry on 401, time-out, two commits | external effect before its trace; lost answers; overlapping requests; failed commit; stop | one deposit per invoice; every deposit traced |
| Documents and OCR (`documents`, `integrations/ia_api`) | `document`, files, `extraction_ocr`, background tasks | upload, task, webhook (two commits), deletions | webhook before the task ends, delivered twice, races with deletions; failed commits, files that cannot be erased; stop | row has its file; draft has its trace; a final status stays; nobody waits for ever |
| Subscriptions (`abonnements`) | plans, subscriptions, companies | lazy reconciliation, change of plan, extension, quota | lazy expiry by concurrent readers; count-then-add | one active subscription; quota respected |
| Administration (`administration`) | companies, users | suspend, reactivate, terminate, delete | counts, then deletes | company in service has a subscription; an administrator remains |
| Accounts, roles, team (`utilisateurs`) | users, roles, membership | register, add, remove, promote, revoke | last administrator | an administrator remains |
| Authentication (`auth`) | reset tokens, JWT | forgotten password, tenant gate | token used twice | one use per token |
| Others: clients, catalogue, VAT rates, legal forms, companies, Factur-X rendering, e-mail, identity token, telemetry, seed | single rows, or none | CRUD, rendering, queries | — | not modelled, see section 7 |

Interactions: the OCR webhook creates drafts through the invoice service; a draft
references its document (foreign key) and an extraction references both; deleting
a draft detaches its extraction; transmission needs a validated invoice; every
tenant endpoint goes through the gate `verify_tenant_access`, which reads whether the
company is suspended (`Entreprise.est_actif`); the administration writes that flag together with the
subscription; the statistics read the invoices that all of these write; adding a member reads the plan in force; deleting a user or a company
is stopped by the foreign keys of the data they own.

## 2. Modules

| module | models | lines of code it stands for |
|---|---|---|
| `CycleFacture` | invoice life cycle and numbering | `factures/service.py:113-645`, `router.py:647-803`, `statuts.py`, `models.py` |
| `MCCycleFacture` | its instances for TLC (who calls which endpoint) | |
| `CycleFacture_proofs` | proofs: types, credit notes and their original, client details, numbering, failed attempts; `CycleFacture` implements the register | |
| `RegistreFactures` | abstract specification: the register of issued documents | what `service.py:189-190, 279-280, 362-367` promise |
| `Montants` | rounding of amounts | `factures/service.py:84-93` |
| `LignesBrouillon`, `MCLignesBrouillon` | lines and totals of an invoice and of its credit note | `factures/service.py:37-110, 178-268, 519-645` |
| `LignesBrouillon_proofs` | proofs: types, totals, credit notes, rounding, a PATCH that runs alone | |
| `Sommes_proofs` | lemmas on sums over finite sets, for the proofs about lines and statistics | |
| `Calendrier` | dates and months of any length | `abonnements/services.py:34-45`, `factures/statistiques.py` |
| `Statistiques`, `MCStatistiques` | the request for statistics beside the writers | `factures/statistiques.py`, `factures/router.py:111-289` |
| `Statistiques_proofs` | proofs: types, closed periods, credited invoices, agreement of the blocks of an answer | |
| `DocumentsOcr` | upload, task, webhook, deletions | `documents/*`, `ia_api/client.py`, `factures/service.py:310-330` |
| `DocumentsOcr_proofs` | proofs: types, files, traced drafts, errors | |
| `TransmissionChorus` | the Chorus Pro endpoint and its client | `factures/router.py:479-644`, `chorus_pro/*` |
| `TransmissionChorus_proofs` | proofs: types, one deposit, its trace, the chain of events, retransmission | |
| `Abonnements`, `MCAbonnements` | subscriptions of a company, access, quota of members | `abonnements/*`, `administration/services.py:692-853` |
| `Abonnements_proofs` | proofs: one active subscription, service, fall-back, paid months, history, quota | |
| `Comptes`, `MCComptes` | administrators, team, deletions, reset links | `utilisateurs/*`, `administration/services.py:861-1136`, `auth/service.py` |
| `Comptes_proofs` | proofs: types, the last administrator, the team, owned data, reset links | |

### CycleFacture

`base` is the table: for each id, status family (`est_brouillon`/`est_emise`),
tenant, type, origin, client, number and whose details the snapshot holds
(`fige`). A provisional number `BROUILLON-xxx` is one value, because the code only
uses that it is unique and starts with neither `FAC-` nor `AV-`. `mois` is the
month `datetime.now()` falls in.

A request of session `s` goes through `Recevoir` (the reads and guards of the
handler; a refused request, 404 or 409, changes nothing and is not a step), then the action of its
endpoint, which commits: `Modifier`, `Supprimer`, `Valider`, `GenererAvoir`.
`Creer` reads nothing that can go stale and is one step. `lu[s]` is what the handler keeps of
its snapshot: the row, for a validation the numbers of the series
(`NumerosEmis`) and the details of the original. `Valider` has the four outcomes
of the code: the number is assigned (`Attribuer`), the unique constraint fails
and another attempt starts (`Rejouer`, then `Reprendre` reads all again) or was the
last (`Renoncer`, 409), or the row has gone (`LigneDisparue`). The clock is read
after the snapshot is taken, so any month in `ouvert[s]..mois` may be
used. `CleTexte` is the text order of `ORDER BY numero_facture DESC` on
zero-padded ranks, right up to `PLAFOND` = 9999 and wrong beyond.
`Abandonner` is whatever rolls a transaction back.

Three variables are history only: `journal` (numbers ever committed), `tardif`
(writes that hit an invoice validated since it was read), `concurrentes`
(validations committed beside a running one). They let properties say exactly
under which condition the code keeps its promise.

`RegistreFactures` is what a tenant and the tax administration rely on, without
sessions, snapshots or retries: a set of pieces, to which `Inscrire` adds one at a
time, numbered n + 1 after a series 1..n, a credit note after its original of the same
tenant, and from which nothing is removed. `CycleFacture` instantiates it with
`registre <- PiecesEmises`, the validated rows, and `fiable <- Intact`:
`RegistreLegal` says that each step of each request is invisible in the register or
adds the next piece, until a stale write makes `Intact` false.

### DocumentsOcr, TransmissionChorus, LignesBrouillon

`DocumentsOcr`: `Televerser` writes the file, `Enregistrer` commits the row and
leaves a task, unless an exception between the two loses the task; the task calls the
service (`Declencher`), loads the row (`LireDocument`) and commits (`MajStatut`). A
webhook call is received (`Recevoir`), commits a draft (`CreerBrouillon`) then status and
extraction (`ConclureSucces`), or, once the creation has failed, reads the document
again (`RelireDocument`) and traces the failure (`ConclureEchec`). A deletion reads,
commits, then removes the file. Each of them has its failure: the commit of an upload
(`AbandonnerEnvoi`: the file stays without a row), a database error in the task
(`PerdreTache`), either commit of the webhook (`Abandonner`; after the first the draft stays
without its extraction: a `score_confiance` that the column refuses is enough), the commit of a
deletion or its `unlink` (`AbandonnerSuppression`; `router.py:293-301` logs and goes on).
`Arreter` stops the process once: tasks and requests vanish, committed rows and files stay.
`incidents` notes each failure for the one document or draft it is about, so that the
properties excuse that one and no other.

`TransmissionChorus`: one validated invoice; each request reads it once, gets a
token, posts, waits, commits its outcome. `Traiter` is Chorus Pro (external):
accepts, answers 401 or an error, at any time, even when the client has timed
out. `ReponseIllisible` is the uncaught `ValueError` of `response.json()`. `EchouerCommit`
is a commit that fails after the exchange, for a success or an error: neither number nor event.
The history `perdus` holds the posts whose outcome, if there was one, did not reach
the table: answer late, unreadable or never read, commit failed, process stopped.

`LignesBrouillon`: an invoice and the credit note generated from it, each with its
lines and its three totals. `Recevoir` reads the document and its lines;
`Modifier` deletes the lines it read, inserts those of the payload and sums them (or
sums those it read, if the payload has none); `GenererAvoir` takes the opposite of the
totals and of the lines that were read. `EcrireTotaux` writes a column only if the
sum differs from the value read. `Montants` rounds like `Decimal.quantize(...,
ROUND_HALF_UP)`: an amount is a number of cents, a quantity of thousandths. A list of
lines is never empty (`schemas.py`); ids come from the auto-increment key.
Three histories: `seul` (nobody wrote the document since it was read), `croise` (a
request that was not alone has committed), `retouche` (the lines of the credit note
were entered again; `AvoirSolde` then asks that they be those of the invoice, one for one, for the
opposite quantities).

### Statistiques

One request for statistics is served: `Authentifier` opens the snapshot (`vue`),
`Commencer` reads the date once and resolves the period, `Interroger` runs the next of
the six queries, `Repondre` answers. Between these steps the writers
create, edit, validate, delete, credit and transmit, and the clock moves. No lock is modelled, as
there is none: PATCH, DELETE and validation read a draft (`PreparerEcriture`, which for a validation
also reads the clock) and commit later (`ModifierBrouillon`, `SupprimerBrouillon`, `FinirValidation`),
on a row that has perhaps been changed, validated or deleted since; several may have read the same
draft. `Reecrite` writes the columns that differ from what was read. `Abandonner`
is the request that fails. The history `croises` notes the documents that such a write has hit after they
were changed by another, and whether they were issued. A request that nothing crosses is the
reading and the commit in one step (`Lues`). The other writers are one step:
generating a credit note, transmitting. The row and the clock are read together, and a DELETE of an
invoice that was transmitted since removes it like any other (in the code the foreign key of its events
makes that one fail).

The aggregates are written as the SQL computes
them, per column and per group, with `-ABS` for a credit note; the clients come in the order of
`ORDER BY ca_ttc DESC, id_client`, the client of rank i being the one that i - 1 precede.

### Abonnements, Comptes

Both keep the reading (`Recevoir`, with every guard of the handler, the gate included) and the
commit apart.

`Abonnements`: `sous` is the history of subscriptions of one company, `service` is
`Entreprise.est_actif`, `comptes` the activity of its members, `jour` the date.
`ReconcilierDue` is the lazy expiration, which any of three endpoints may have to do first
(`Reconcilier`): for a reader or an extension it is all they write, while an addition of
a member commits it, then reads again (`Relire`) and adds (`Ajouter`); what it wrote itself is no news to it,
but a decision of another request stays in `vus`. Two definitions
of the current subscription coexist in the code, and in the model: the last active
one by date (`SouscriptionActive`) and the one with the largest id
(`SouscriptionCourante`), used by the administration. `Ecrire` is the unit of
work: a column is written only if it differs from the value loaded, which is what makes
a termination of a suspended company leave `est_actif` alone. Dates are those of
`Calendrier`, months of different lengths included; `delete_plan` is one step because the foreign
key repeats its check; `RenommerGratuit` is the edition of a plan that takes from the
free one the label `resoudre_plan_gratuit` looks for.

`Comptes`: one row per user with its activity, its platform flag, its membership
and whether data refer to it; the links of forgotten passwords. The root, `compte_protege`, may have created
the company or be added to it, and so be a member. `ModifierMembre` is `update_team_member` whole: any
of `est_admin`, `est_actif` and the password in one commit, `est_actif` without a test of the
protection (`router.py:403-407`) and the password without a deletion of the links
(`router.py:409-411`). No request needs
the values it read, since one that would change nothing ends in its guards. The
DELETE of pending links is a locking read (`SansEnAttente` reads the table as it is at the
commit), the rest of `Appliquer` is not: only the row having gone stops it.

In both, `droits` is chosen once, at the start, among `Profils`: which session
calls which endpoints. The histories `vus` (writes missed by a request under
way), `courses`, `prolongations`, `usages`, `morts`, `survivants` (links left in circulation when the team
replaced the password) and `coupure` (the team of the root deactivated it) only serve the properties.

## 3. Runs

| run | question | result |
|---|---|---|
| `cycle` | all endpoints, 2 sessions, 2 tenants, 2 clients, 2 ids | `TypeOK`, `SerieContinue`, `OrigineEmise`, `AvoirLieEnSerieAvoir`, `AvoirFigeCommeOrigine` hold, and the refinement `RegistreLegal` |
| `numerotation` | 2 sessions validate up to 4 drafts over a change of month | `NumeroIrrevocable`, `ConflitSeulementSousCharge` hold |
| `documents` | 1 document, 2 webhook calls, 2 deletions, every failed commit, a stop | `FichierDuDocument`, `BrouillonTrace`, `ErreurSansBrouillon`, `SortDAttente` hold |
| `chorus` | 2 overlapping requests, 4 posts, failed commits, a stop | `UnSeulDepot`, `DepotTrace`, `ChaineEvenements`, `ErreurRetransmissible`, `Repond` hold |
| `lignes` | 2 requests on an invoice and its credit note, 5 line ids, amounts that round on a half | `TotauxSansCourse`, `AvoirSolde`, `PatchIsoleRepare` hold |
| `statistiques` | 1 request beside the writers of 2 companies, 2 documents, 2 currencies, one write that crosses others, a change of month | `ReponseCoherente`, `AvoirsNeutralises`, `PeriodeCloseFigee` hold |
| `abonnements` | 2 sessions, 2 plans, 3 subscriptions, 3 days over months of 2, 1 and 2 days | `UneSeuleActive`, `EnServiceSansCourse`, `ProlongationsComptees`, `RepliPossible`, `HistoriqueClos`, `AjoutSousLimite` hold |
| `comptes` | 2 sessions, 3 users, 2 links, four profiles | `AdminPresent`, `EquipeAdministree`, `RienSansEntreprise`, `UnSeulLien`, `LienMortInutile` hold |
| `immuable` | is a validated invoice immutable? | **violated**: a delete or PATCH decided before the validation commits after it |
| `double_avoir` | at most one validated credit note per invoice? | **violated**, by one session alone: nothing ever sets the status "annulee" |
| `statut_document` | does the task keep a final status? | **violated**: lost answer, or webhook between its read and its commit |
| `service` | has a company in service an active subscription? | **violated**: a termination and a reactivation cross |

What the passing runs say, beyond "no error":

* **Numbering.** "Max + 1 without a lock" does give continuous series and
  irrevocable numbers, whatever validations, retries, crashes and second
  validations of the same draft interleave, **provided** no stale delete or PATCH
  hits a validated invoice and no stale validation crosses a month (`Intact`).
  A second validation of the same draft in the same month is harmless to the series: it
  computes the same number. `Intact` is exactly what `immuable` refutes.
* **Register.** Retries, crashes, refused requests, drafts and their credit notes are all
  invisible in the register of issued documents; each validation adds the next piece of
  its series, in one step, or nothing.
* **Retries.** An attempt about to fail has seen
  at least as many concurrent validations as attempts used, as the
  comment on `MAX_TENTATIVES_NUMEROTATION` claims: the 409 is never
  spurious.
* **Credit notes.** The original of a linked credit note is always an emitted
  invoice in the table; the foreign key does what the stale checks do not. A
  linked credit note never leaves the `AV` series.
* **Amounts.** As long as no two requests on one document cross, the three totals are the
  sums of the lines and a credit note cancels its invoice to the cent, even when its lines are
  entered again: rounding half away from zero is symmetric. When two replacements do
  cross, both sets of lines stay and the total is the sum of one of them
  (`service.py:242-244` promises more); the next PATCH that runs alone restores the totals,
  but not the lines.
* **Statistics.** The snapshot of the transaction makes the six blocks of an answer describe the
  same documents whatever commits meanwhile. An invoice credited by a
  generated credit note counts for nothing in the three revenues, for invoices without a negative
  total only: `-ABS` cannot cancel a negative one. Nobody
  ever sets the statuses "payee" and "annulee", so the amount still due is always the revenue. A
  period that is over changes in two ways. A validation that reads the clock before midnight and
  commits after adds its document. And a request that read a draft and commits on what has
  been issued since changes or deletes that document: a stale PATCH or DELETE, or a second validation of the
  same draft, which gives it its own day. No other figure moves: the property excuses
  that document only.
* **Chorus Pro.** Of the deposits that Chorus Pro accepts from requests that do not overlap, at
  most one has an outcome that reached the database, 401 and retry included: each
  further one follows an answer that was lost or came too late, a commit that failed after the
  answer (`factures/router.py:625-637`: the number is written nowhere, and the guard
  finds nothing), or a stop. The same losses, and no other, leave a deposit without a trace; overlap alone
  never does.
* **Documents.** Nothing, neither deletions that race nor any failure, leaves a row without its
  file. A file without a row is in the hands of a request, or was left by the failure of that
  upload (its commit) or of that deletion (its `unlink`): nothing cleans it afterwards. A draft without its
  extraction is one whose own webhook request has not finished its second commit, or lost it. A
  document leaves "en attente" unless its own task was never scheduled, raised a database error, or was
  cut by a stop.
* **Subscriptions.** Stale readings by readers, extensions and changes of plan never leave
  a company in service without a subscription, although they may leave it two; only two
  crossing decisions on the access do. Without crossing, any order of suspension, change of plan,
  termination, expiration and reactivation leaves at most one active subscription,
  and closed ones are never written again. A month that is paid is counted to the day, cut to the
  shortest month the subscription has met. A renamed free plan makes every fall-back fail, and a
  fall-back that fails changes nothing. The quota holds for every addition that nothing crosses,
  also the one that has to expire the plan first; two additions that cross can exceed
  it, as nothing in the database prevents it.
* **Accounts.** What keeps an administrator on the platform is the protected
  account, not the count of administrators: the mutant without the protection empties
  the platform by two crossing revocations. Whether one of them can still act depends on more: the team
  of a company to which the protected account belongs can deactivate it, and from then on
  only the promise that one exists is kept. A reset link that was used, replaced, or older than a
  change of password by its owner is dead, even for a request that had read it alive: the deletion of
  its row makes the commit fail. Two exceptions: a link used twice by two overlapping
  requests, which nothing stops; and a link in circulation when an administrator of the team
  replaced the password, which still works.

### Bounds

`MaxId` bounds the ids of invoices: 2 in `cycle` is one invoice and its credit note or
two invoices of one or two tenants, enough for every race of two requests
on one row, on its original or on one series; 4 in `numerotation` lets three numbers be lost in a row.
`MaxMois` = 2 gives one change of month. Two sessions suffice for each
read–write race; the properties speak of pairs. In `documents`, one document with
two webhook calls and two deletions has every pairwise race; `MaxBrouillons` = 2
allows the duplicate draft; the run has 66 264 states. In `chorus`, 4 posts are two requests with their retry (192 520 states). In
`lignes`, 5 ids allow a creation, replacements and the copy of two lines; half a
unit at 1.99 and 5.5 % makes both roundings fall on a half; the second article of a payload is the
same, as a payload may repeat an article, and the third is its opposite. `BASE` = 10 and `PLAFOND` =
9999 are the code's; the behaviour past `PLAFOND` is not run (an instance
with `PLAFOND` = 2 makes every attempt collide for ever, the hazard listed at
`service.py:461`).

In `statistiques`, two documents are an invoice and its credit note, or two documents of one or two
companies; the three payloads are an overdue invoice, one in another currency without a due
date, and a credit note entered directly, hence positive; of the two periods, one has the
default of twelve months and one is reversed until its first day comes. Companies are
symmetric: nothing tells one from another. `MaxCroisements` = 1: one write at a time has read
its draft before others write (those others commit in the step they read, so any number of them
may cross it), which is a stale PATCH, a stale DELETE or a second validation; `Melange` = FALSE serves statistics only while no such write
is under way or has taken place, since the answer sees one snapshot whatever wrote it. The theorems
are for any value of both. The constraint `VoisinesPareilles`
keeps the documents of different companies alike, of one type and one currency: two of one company are
any pair, and two companies are then told apart by the tenant alone. That is 1 271 658 states.

In `abonnements`, months of two, one and two days, seen from the last day of the first to
the first of the third, let a subscription start on a day the next month does not have, be
extended once, and expire; three rows are two changes of plan, or an expiration
and a reactivation; two plans, with the seeded limits 1 and 2. The
constraint `SansCourse` stops the run where two decisions on the access have crossed: the
properties promise nothing there but what the run `service` refutes; and where the free plan
is renamed among requests that have crossed, to keep the run short. The free plan is renamed once at most. `comptes`: three users are the root, another one and one to come; either of the first two has
created the company (`Fondateurs`); two links are one replaced by the other; `Modifications` has each column a
PATCH of a member may change, and one that changes two. The four profiles put administrators against each
other, the platform against the team, links against the life of the account, and links
against the team (534 393 states).

Deadlock is not checked where the system comes to rest: ids run out, nobody has to
send a request.

### Fairness

Safety runs of `CycleFacture`, `LignesBrouillon`, `Statistiques`, `Abonnements` and `Comptes` assume none. `DocumentsOcr`
assumes weak fairness of the steps of a background task: the event loop of a process
that stays up runs them, and their only wait has a time-out (`ia_api/client.py:21`).
`TransmissionChorus` assumes it of the steps of a request, whose waits have
time-outs (`auth.py:24`, `client.py`). Nothing is assumed of the
external services, of users, or of a process that has stopped.

## 4. Proofs

`CycleFacture_proofs` proves, for every set of sessions, tenants and clients and
every bound:

* `InvariantDeType`: `Spec => []TypeInv`, where `TypeInv` is `TypeOK` and

  - `Adressee`: a request under way names a tenant and an invoice,
  - `SeriesOrdonnees`: the numbers of each series, in the table and in each
    snapshot, have a last one in text order;

* `TypesCorrects`: `Spec => []TypeOK`.

`TypeOK` alone is not inductive, for two reasons: a commit of a request without a
target would write outside the table, and nothing in `TypeOK` says that the last
number exists: a set of numbers may be infinite, and `max + 1` is then not a number
(in the code, `int(...) + 1` of the first row of a sorted query). `OrdreAjout` and
`RangsApresEcriture` show that one write adds at most one number to a series,
which keeps it ordered. The step lemma `TypeEtape` has one step per action.
Assumptions: the `ASSUME`s of `CycleFacture` (bounds are naturals, at least one
month, `BASE` and `PLAFOND` at least 2, `Aucun` and `Inchange` are not data).

It also proves `OriginesEmises` and `AvoirsEnSerieAvoir`: `OrigineEmise` and `AvoirLieEnSerieAvoir` in every reachable state, from the invariant `AvoirInv` = `TypeInv` and

  - `CibleConnue`: the invoice a request is about has been in the table, so its id is not
    given to another;
  - `LuFiable`: what a request has read of an invoice that is still there and can rely on:
    its tenant and its origin never change, a linked row is a credit note, the guards
    of a PATCH hold of what was read, and the original a credit note is made from is
    emitted (no code turns an emitted invoice back into a draft).

  Without the conjuncts about requests under way neither property is inductive: a commit
  uses what was read, not what is there.

Last, `DetailsDeLOrigine`: `AvoirFigeCommeOrigine`, from `FigeInv` = `AvoirInv` and
`DetailsFiables`: as long as no stale write hit a validated invoice, a credit note under way holds the
client details its original has now. `FigeEtape` shows that only a validation writes them,
and that a second one on an emitted invoice is such a stale write.

It also proves `SeriesContinues` and `NumerosIrrevocables`:
`SerieContinue` and `NumeroIrrevocable`, which hold under `Intact`, from `NumeroInv` =
`AvoirInv` and

  - `BrouillonSansNumero`: a draft has no number of a series,
  - `NumerosUniques`: the unique constraint,
  - `SerieContinue` itself,
  - `LectureFiable`: the numbers that a running validation read have no gap, and
    are still held by invoices other than the one it validates,
  - `JournalFidele`: the journal is exactly the numbers of the emitted invoices.

  A step that keeps `Intact` is quiet (it neither gives nor takes a number;
  a second validation gives the invoice the number it has) or it is an emission. An
  emission gives the rank after those the request read, 1..k; by
  `LectureFiable` these are in the table, and by the unique constraint k+1 was not, so the
  continuous series 1..n has n = k and becomes 1..n+1. `LectureReste` shows that the
  readings of the other requests survive.

It also proves `ConflitsExpliques`: `ConflitSeulementSousCharge`, this time without `Intact`, from
`ChargeInv` = `TypeInv` and

  - `RangsBornes`: no rank exceeds the number of invoices ever validated, not counting the invoice
    under validation for what its attempt has read. This keeps ranks at most `MaxId`;
  - `EssaisPayes`: each attempt already lost was paid by a validation of another
    invoice, and so is each number that appeared since the running attempt read.

  A collision is with a number the attempt has not seen: what it read is ordered, and it computed
  the rank after the last. That argument needs the text order of the numbers to be the order of
  the ranks, hence the assumption `MaxId <= PLAFOND`: past 9999 invoices in a month the
  attempt collides with a number it has read, nobody pays, and the promise is false.

Last, `RegistreTenu`: `Spec => RegistreLegal`. The invariant
`RegistreInv` adds to `NumeroInv` that a credit note and its original have the same tenant,
that an emitted row has a number and a tenant, and that what is emitted makes pieces of the register. A step
that keeps `Intact` is quiet, and leaves `PiecesEmises` alone, or is an emission: it adds
one piece, for which `SuitSaSerie` follows from the argument of the numbering and
`SuitSonOrigine` from `AvoirInv`. Any other step is `Deroger`.

`Sommes_proofs` holds no theorem about the system, but what the next two modules need: lemmas on
`MapThenSumSet`, the sum the models use. It is a fold: a recursive function on the subsets of a
set, which takes the elements in the order of `CHOOSE`. The induction theorems of the library cannot
be applied here, so induction is written out, first-order, as the absence of a smallest
counterexample (`PlusPetit`, then `ToutesLesParties` for the subsets of a finite set). From it follow
that the function exists and is unique (`SommeExiste`, `SommeUnique`), that any element may be taken
away first (`SommeRetrait`: the order does not matter), and how sums behave under injections
(`SommeImage`), unions (`SommeUnion`) and a GROUP BY (`SommeParCles`, `SommeParGroupes`).

`LignesBrouillon_proofs` proves `LigneCreditee` (rounding commutes with the change of sign, from
`ArrondiSymetrique`, for all integers; `ArrondiProche` bounds the error of a rounding) and
`PatchsIsoles`: `PatchIsoleRepare`, from `LectureInv`, which says that a request that is still
alone has read the lines and totals that are there. Then `TypesCorrects`, `TotauxJustes`
(`TotauxSansCourse`) and `AvoirAnnule` (`AvoirSolde`), for any list of articles, from `LignesInv`:
these properties, `LectureInv` and

  - `LignesJustes`, of the table and of what was read: rows are finitely many, have distinct ids, and
    amounts that are those of their article;
  - `RequeteSuivie`: a request that is alone still writes a draft, and a credit note is made from
    an emitted invoice;
  - `AvoirSuivi`: a credit note has no row before it exists and, until they are entered again,
    its rows are those of the invoice, one by one (`LigneALigne`).

  `AvoirSolde` follows: the amounts of the rows are those of the articles, `LigneCreditee` makes the
  bijection of `LigneALigne` one between opposite amounts, and `SommeOpposee` gives opposite sums. The attempt
  corrected this property. It compared the *sets* of articles of the two documents, which says
  too little when a payload repeats an article: lines entered again, with one of two equal lines
  left out, had the same set and another total. TLC shows it with three articles, the instance
  that the run uses since.

`Statistiques_proofs` proves `TypesCorrects` and `PeriodesClosesFigees`, from `StatistiquesInv` =
`TypeOK`, `LecturesSures` (a request under way has read a row whose id is not given to another, with
the origin it still has; a validation read the clock on a day that has come) and a clock that has not
gone back. The argument: a document that is issued for the first time is dated of the day its
validation read, which is not past when the premise holds; a write on a document that is
issued already, or that was changed since it was read, is noted in `croises`; and no other
action touches an issued document but to change its status. The theorem assumes no lock, and holds
for any number of crossing requests. It also proves `NetDesAvoirs` (`AvoirsNeutralises`) and `BlocsCoherents`
(`ReponseCoherente`), from `ReponseSuivie`:

  - `RegistreSain`, of the table and of the snapshot: finitely many documents with distinct ids, and a
    credit note with an origin is one of an issued invoice that is still there;
  - what the answer holds so far are the results of its queries on the snapshot `vue` and the period of
    the request, neither of which changes until the answer is sent.

  An invoice and its first credit note determine each other, so their sums are opposite
  (`SoldeNul`, `SoldesNuls`); it is here that `-ABS` has to leave a generated credit note alone. For
  the blocks, `GroupesComplets` says that the groups of a GROUP BY add up to what was grouped,
  in number and in both amounts; it applies to the statuses, to the months, as no date of the period
  falls outside them (`ParMoisComplet`), and to the clients when none is cut off:
  the rank of a client is the number of those before it, hence each rank is taken once
  (`RangsDesGroupes`). `DevisesComplementaires` is the same for the currencies left out.

`DocumentsOcr_proofs` proves `TypesCorrects`, `FichierToujoursLa`, `BrouillonsTraces` and
`ErreurRien`: `TypeOK`, `FichierDuDocument`, `BrouillonTrace` and `ErreurSansBrouillon`, from
`DocumentsInv`, which adds

  - `WebhookSuivi`, `SuppressionSuivie`, `DocumentSuivi`: what a request, a deletion and a
    task under way know of their document is still true, or was made false by a deletion;
  - `BrouillonSuivi`: ids of drafts are new, and the foreign key to the document holds;
  - `FichierSuivi`: a row has its file; a file without a row is being sent, about to be
    erased by the deletion that committed, or noted as left by the failure of either;
  - `LivraisonUnique`: a document for which no answer is lost and that is not delivered twice
    (`Sereins`) is in the hands of one webhook request, and only that delivery can put it in error.

  The first three properties do not need `Sereins`: they hold for any number of crossing
  deliveries, deletions and failures.

`TransmissionChorus_proofs` proves `TypesCorrects`, `DepotUnique`, `JamaisSansTrace`,
`HistoriqueCoherent` and `RetransmissionPossible` (`ErreurRetransmissible`), from `ChorusInv`, which
adds to the properties

  - `Seule`: as long as no requests have overlapped, the one under way is alone and the
    invoice is as it read it, without a deposit number;
  - `AccepteConnu`: as long as no requests have overlapped, what Chorus Pro accepted and was not lost
    is the deposit of the invoice or of the request about to write it, hence there is one at most;
  - `PostNumerote`: whoever waits for an answer has a deposit number.

  `UnSeulDepot` alone is not inductive: nothing in it says that a request about to post
  would have found the number of an earlier deposit.

`Abonnements_proofs` proves `TypesCorrects`, `UneActive` (`UneSeuleActive`), `ServiceAbonne`
(`EnServiceSansCourse`), `RepliGarde` (`RepliPossible`), `MoisComptes` (`ProlongationsComptees`),
`HistoriquePreserve` (`HistoriqueClos`) and `QuotaTenu` (`AjoutSousLimite`), from `AbonnementsInv`:

  - `Table`: ids are 1..n, plans of subscriptions exist, an end is bounded by the months paid;
  - `Lecture`: what a request read is an earlier state of the table, and the present one if it has
    missed no write;
  - `Acces`, `Paiement`, `Quota`: the same, for one piece of the state and one kind of missed
    write: access and status as long as no decision on the access was missed, the end as long as no
    extension, the count of users as long as nothing;
  - `Ordre`: without a race only the last subscription is active, and no expired one is last;
  - `Periode`: without the three races that `SansCroisement` names, the end of each subscription
    that is active, or that a reactivation may resume, is the day of its start
    in the month after those that were paid for, cut to the shortest month since. The suspended ones have
    to be included: an extension may come after a reactivation;
  - `RepliPossible`, `EnServiceSansCourse`, `EffectifFini`, `Repos`.

  TLC checked the invariant with two sessions before it was proved. The attempt corrected two
  properties and a history. A suspension that crosses a termination leaves the terminated
  subscription "suspendu", and a reactivation resumes it with an end that is no longer
  the one paid for: `ProlongationsComptees` excludes races on the access too. An addition that
  reconciled on a stale reading may add under a plan that is not in force: `AjoutSousLimite`
  demands that no race took place before its second reading. And `Relire` must not forget
  the decisions of others that the request has missed.

`Comptes_proofs` proves `AdministrateurPermanent`, `DonneesRattachees`, `LienUnique` and
`LienMortSansEffet`: `AdminPresent`, `RienSansEntreprise`, `UnSeulLien` and
`LienMortInutile`, from `ComptesInv`, which adds to them

  - `RacineIntacte`: the protected account is present and administrator, active unless its own team
    deactivated it (`coupure`), and no request under way can revoke, delete or remove it, or
    deactivate it from the platform. The code counts administrators before it revokes one, but two
    revocations can both count two: the argument rests on the protected account alone;
  - `Adressee`: a request names a user, and a link that exists;
  - `Suite`: the links not created yet are the last ones and belong to nobody, so the
    next id is a number (`Suivant`) and no deletion catches a link to come;
  - `UnParUtilisateur`, which gives the cardinality of `UnSeulLien`;
  - `LiensMorts`: a link that can be used is not dead, unless the team left it in circulation
    (`survivants`), and whoever is about to use another dead link has missed its use. The `DELETE` of the links in circulation removes
    those a new link or a change of password replaces; only a use leaves the row.

  `FinElaguee` is the one argument for the deletions of links, `EcrireCompte` for the writes of
  one user.

It also proves `EquipeGardee`: `EquipeAdministree`, from `ComptesInv` and `SuppressionsSures`: a
deletion under way that missed neither the loss of an administrator nor a new member of its team is
still not about the only administrator. The members are counted, so they have to be finitely many
(`EquipeInv`); users may be infinitely many. Finally `TypesCorrects`: `TypeOK`, whose hard conjunct is the
bound on the uses of a link, from `UsagesBornes`: uses and requests that still decide on the link
are together at most as many as sessions, and a link that may still be opened has no use.
This is the only proof that assumes finitely many sessions (`HypSessions`).

All proofs hold for any number of sessions, requests, companies, users, links, documents, payloads and
months, under the named assumptions of the modules.

Every safety invariant and action property of a passing run is thus stated by a theorem. Only
model-checked: liveness (`SortDAttente`, `Repond`), as fairness and ENABLED are out of the reach of the
prover, and the four violated properties of section 5.

## 5. Findings

The four violated properties are quoted promises of the code, see
`findings` in `PROJECT.json`: stale delete and PATCH of a validated invoice;
second credit note; overwritten final status; company in service without a subscription.

Met while modelling, and not run: two crossing replacements of lines leave both sets of lines (why
`TotauxSansCourse` is conditional); the text order of numbers past 9999 (an instance with
`PLAFOND` = 2 violates `ConflitSeulementSousCharge`); an overdue amount larger than the amount due, when
a credit note is not overdue yet; a PATCH of the type that crosses a validation numbers
a document in the other series (linked credit notes are protected:
`AvoirLieEnSerieAvoir`); the free plan loses its label to a PATCH of the plan.

Two more are exceptions of a property instead of a run of their own. The platform refuses to
deactivate the protected account ("un compte protégé reste intouchable",
`administration/services.py:873`), and `update_team_member` deactivates it like any member
(`coupure` of `AdminPresent`). A link issued before a change of password "ne doit plus
permettre de le modifier" (`auth/service.py:72-73`, of a change by the user), and a change
made by the team leaves the links alive (`survivants` of `LienMortInutile`). TLC reaches both
when the exception is dropped. So do files nobody erases
and deposits without a trace: the warning of `documents/router.py:293-301` and the commit of
`factures/router.py:625-637`.

## 6. Plan

1. Done: invoice life cycle and its abstract register, lines and amounts, statistics, Chorus Pro,
   documents, subscriptions, accounts; the proofs of section 4.
2. Proofs: the safety properties are all proved. What may still be gained is weaker assumptions
   (`MaxId <= PLAFOND` is what the code needs; `Intact` could be split by kind of stale write).
3. Price and limits of plans as state (a limit lowered below the number of users), change of e-mail.

## 7. Not modelled

Factur-X rendering and conformity checks (pure functions of one invoice);
pagination, search and sorting of lists (read-only SQL); clients, catalogue, VAT rates, legal forms
(CRUD on one row); encryption, hashing, JWT (library calls); e-mail, telemetry,
seed, migrations (input/output, start-up).
Of the components that are modelled: edition of profiles, creation of plans and edition of their price
and limits, roles, login.
