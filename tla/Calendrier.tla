------------------------------ MODULE Calendrier ------------------------------
(***************************************************************************)
(* Dates as the program counts with them: months in a row (year * 12 +     *)
(* month), and days within a month.  The lengths of the months are a       *)
(* parameter, repeated for ever: 48 of them make the Julian calendar, a    *)
(* few short ones an instance in which every case comes soon.              *)
(***************************************************************************)
EXTENDS Integers, Sequences

CONSTANT Longueurs \* the lengths of the months, from month 0 on

ASSUME HypLongueurs == Longueurs \in Seq(Nat \ {0}) /\ Len(Longueurs) > 0

\* calendar.monthrange
Longueur(m) == Longueurs[(m % Len(Longueurs)) + 1]

EstDate(d) == d.mois \in Nat /\ d.jour \in 1..Longueur(d.mois)

Dates(M) == UNION {[mois : {m}, jour : 1..Longueur(m)] : m \in M}

Avant(d, e) == d.mois < e.mois \/ (d.mois = e.mois /\ d.jour < e.jour)
AuPlus(d, e) == ~Avant(e, d)

Lendemain(d) ==
    IF d.jour < Longueur(d.mois) THEN [d EXCEPT !.jour = @ + 1]
    ELSE [mois |-> d.mois + 1, jour |-> 1]

\* Mutant of UnMoisApres: the day is kept as it is.
UnMoisApresSansBorne(d) == [d EXCEPT !.mois = @ + 1]

\* add_one_month: the day is cut to the length of the month.
UnMoisApres(d) ==
    LET fin == Longueur(d.mois + 1)
    IN [mois |-> d.mois + 1, jour |-> IF d.jour <= fin THEN d.jour ELSE fin]

\* _premier_du_mois and _decaler_mois: from the first of the month.
PremierDuMois(d) == [d EXCEPT !.jour = 1]
DecalerMois(d, n) == [mois |-> d.mois + n, jour |-> 1]
=============================================================================
