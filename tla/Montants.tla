------------------------------- MODULE Montants -------------------------------
(***************************************************************************)
(* Amounts of invoice lines, as _apply_lignes computes them with Decimal:  *)
(* exact products quantized to the cent, ROUND_HALF_UP.  A Decimal is an   *)
(* integer here: quantities in thousandths, prices and amounts in cents,   *)
(* VAT rates in hundredths of a percent (the scales of the columns).       *)
(***************************************************************************)
EXTENDS Integers

\* Mutant of Arrondi: a half goes up, whatever the sign.
ArrondiVersLeHaut(n, d) == (2 * n + d) \div (2 * d)

\* n / d to the nearest integer; ROUND_HALF_UP sends a half away from zero.
Arrondi(n, d) ==
    IF n >= 0 THEN (2 * n + d) \div (2 * d) ELSE -((d - 2 * n) \div (2 * d))

MontantHT(a) == Arrondi(a.quantite * a.prix, 1000)

\* The VAT is computed on the amount already rounded.
MontantTVA(a) == Arrondi(MontantHT(a) * a.taux, 10000)

\* The same line, credited: only the quantity changes sign.
Oppose(a) == [a EXCEPT !.quantite = -a.quantite]
=============================================================================
