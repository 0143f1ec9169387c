-------------------------- MODULE MCLignesBrouillon --------------------------
(* Instances of LignesBrouillon for TLC. *)
EXTENDS LignesBrouillon

\* Half a unit at 1.99, at 5.5 %: both roundings fall on a half.  A payload may hold
\* the article twice; the third line is the article credited.
UnArticle == [quantite |-> 500, prix |-> 199, taux |-> 550]
TroisArticles == <<UnArticle, UnArticle, Oppose(UnArticle)>>
=============================================================================
