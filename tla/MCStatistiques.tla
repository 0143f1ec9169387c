---------------------------- MODULE MCStatistiques ----------------------------
(* An instance of Statistiques for TLC. *)
EXTENDS Statistiques, TLC

\* Nothing tells one company from another.
Symetrie == Permutations(Entreprises)

\* Months of one and two days.
MoisInegaux == <<1, 2>>

Jour(m, j) == [mois |-> m, jour |-> j]
LaVeille == Jour(11, 2)
Debut == Jour(12, 1)
Fin == Jour(13, 1)

Saisie(type, client, devise, ht, tva, date, echeance) ==
    [type |-> type, client |-> client, devise |-> devise, ht |-> ht, tva |-> tva,
     date |-> date, echeance |-> echeance]

\* An invoice already overdue, backdated; the same client in another currency, no
\* due date; a credit note entered directly, hence positive, for another client.
TroisSaisies ==
    {Saisie("facture", 1, "EUR", 3, 1, LaVeille, LaVeille),
     Saisie("facture", 1, "USD", 2, 0, Debut, SansDate),
     Saisie("avoir", 2, "EUR", 2, 1, Debut, Fin)}

\* Twelve months up to a day that passes; from the next day on, which is a
\* reversed period until it comes.
DeuxPeriodes == {<<SansDate, Debut>>, <<Fin, SansDate>>}

\* The documents of two companies are told apart by nothing but their company;
\* those of one company are any.
VoisinesPareilles ==
    \A f, g \in factures :
        f.entreprise # g.entreprise => f.devise = g.devise /\ f.type = g.type
=============================================================================
