-------------------------- MODULE RegistreFactures --------------------------
(***************************************************************************)
(* What the numbering of src/factures promises a tenant and the tax        *)
(* administration, without sessions, snapshots or retries: a register of   *)
(* the validated documents to which one piece at a time is added, under    *)
(* the next number of its series, and from which nothing is ever removed   *)
(* or changed.  A credit note made from an invoice enters the AV series    *)
(* after this invoice.                                                     *)
(*                                                                         *)
(* The register is trustworthy (fiable) until a write decided on a draft   *)
(* hits the document it has become; from then on nothing is promised.      *)
(* CycleFacture implements it: see RegistreLegal there.                    *)
(***************************************************************************)
EXTENDS Integers

CONSTANTS
    Entreprises, \* tenants
    Factures,    \* ids of documents
    MaxMois,     \* months are 1..MaxMois
    Aucun        \* no original invoice

VARIABLES
    registre,    \* the validated documents
    fiable       \* no stale write has hit one of them

Pieces == [facture : Factures, ent : Entreprises, origine : Factures \cup {Aucun},
           numero : [prefixe : {"FAC", "AV"}, mois : 1..MaxMois, rang : Nat \ {0}]]

\* The ranks of the series a piece belongs to.
RangsDeLaSerie(piece) ==
    {i.numero.rang : i \in {j \in registre :
        /\ j.ent = piece.ent
        /\ j.numero.prefixe = piece.numero.prefixe
        /\ j.numero.mois = piece.numero.mois}}

\* The series is 1..n, and the piece is n + 1.
SuitSaSerie(piece) ==
    LET R == RangsDeLaSerie(piece) IN
    \E n \in R \cup {0} : R = 1..n /\ piece.numero.rang = n + 1

SuitSonOrigine(piece) ==
    piece.origine # Aucun =>
        /\ piece.numero.prefixe = "AV"
        /\ \E i \in registre : i.facture = piece.origine /\ i.ent = piece.ent

Inscrire(piece) ==
    /\ fiable
    /\ piece \in Pieces
    /\ \A i \in registre : i.facture # piece.facture
    /\ SuitSaSerie(piece)
    /\ SuitSonOrigine(piece)
    /\ registre' = registre \cup {piece}
    /\ UNCHANGED fiable

\* Nothing is promised any more.
Deroger ==
    /\ ~fiable'
    /\ registre' \subseteq Pieces

Init ==
    /\ registre = {}
    /\ fiable = TRUE

Next ==
    \/ \E piece \in registre' \ registre : Inscrire(piece)
    \/ Deroger

Spec == Init /\ [][Next]_<<registre, fiable>>
=============================================================================
