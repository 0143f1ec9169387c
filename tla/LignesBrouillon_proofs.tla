----------------------- MODULE LignesBrouillon_proofs -----------------------
(* Rounding is symmetric and to the nearest cent; a PATCH that runs alone    *)
(* restores the totals of its document; as long as no requests cross, the    *)
(* totals are the sums of the lines and a credit note cancels its invoice:   *)
(* for any number of requests and any articles.                              *)
EXTENDS LignesBrouillon, Sommes_proofs

-----------------------------------------------------------------------------
(* Amounts *)

\* ROUND_HALF_UP does not depend on the sign: the opposite of an amount is
\* rounded to the opposite cents.
LEMMA ArrondiSymetrique ==
    ASSUME NEW n \in Int, NEW d \in {1000, 10000}
    PROVE  Arrondi(-n, d) = -Arrondi(n, d)
<1>1. CASE n = 0
  <2>1. 1000 \div 2000 = 0 /\ 10000 \div 20000 = 0
    OBVIOUS
  <2>. QED  BY <1>1, <2>1 DEF Arrondi
<1>2. CASE n > 0
  <2>1. Arrondi(n, d) = (2 * n + d) \div (2 * d)
    BY <1>2 DEF Arrondi
  <2>2. ~(-n >= 0) /\ d - 2 * (-n) = 2 * n + d
    BY <1>2
  <2>3. Arrondi(-n, d) = -((d - 2 * (-n)) \div (2 * d))
    BY <2>2 DEF Arrondi
  <2>. QED  BY <2>1, <2>2, <2>3
<1>3. CASE n < 0
  <2>1. Arrondi(n, d) = -((d - 2 * n) \div (2 * d))
    BY <1>3 DEF Arrondi
  <2>2. -n >= 0 /\ 2 * (-n) + d = d - 2 * n
    BY <1>3
  <2>3. Arrondi(-n, d) = (2 * (-n) + d) \div (2 * d)
    BY <2>2 DEF Arrondi
  <2>4. (d - 2 * n) \div (2 * d) \in Int
    BY <1>3
  <2>. QED  BY <2>1, <2>2, <2>3, <2>4
<1>. QED  BY <1>1, <1>2, <1>3

\* The result is an integer at most half a unit away from the quotient.
LEMMA ArrondiProche ==
    ASSUME NEW n \in Int, NEW d \in {1000, 10000}
    PROVE  /\ Arrondi(n, d) \in Int
           /\ 2 * (d * Arrondi(n, d) - n) <= d
           /\ 2 * (n - d * Arrondi(n, d)) <= d
<1>1. CASE d = 1000
  BY <1>1 DEF Arrondi
<1>2. CASE d = 10000
  BY <1>2 DEF Arrondi
<1>. QED  BY <1>1, <1>2

LEMMA ArticleOppose ==
    ASSUME NEW a, a \in [quantite : Int, prix : Int, taux : Nat]
    PROVE  /\ Oppose(a) \in [quantite : Int, prix : Int, taux : Nat]
           /\ Oppose(a).quantite = -a.quantite
           /\ Oppose(a).prix = a.prix
           /\ Oppose(a).taux = a.taux
BY DEF Oppose

LEMMA MontantsEntiers ==
    ASSUME NEW a, a \in [quantite : Int, prix : Int, taux : Nat]
    PROVE  MontantHT(a) \in Int /\ MontantTVA(a) \in Int
<1>1. a.quantite * a.prix \in Int
  OBVIOUS
<1>2. MontantHT(a) \in Int
  BY <1>1, ArrondiProche DEF MontantHT
<1>3. MontantHT(a) * a.taux \in Int
  BY <1>2
<1>. QED  BY <1>2, <1>3, ArrondiProche DEF MontantTVA

\* A line entered again for the opposite quantity has exactly the opposite
\* amounts, though both are rounded twice: a credit note typed by hand and one
\* that is generated agree to the cent.
THEOREM LigneCreditee ==
    ASSUME NEW a \in [quantite : Int, prix : Int, taux : Nat]
    PROVE  /\ MontantHT(Oppose(a)) = -MontantHT(a)
           /\ MontantTVA(Oppose(a)) = -MontantTVA(a)
<1>1. /\ MontantHT(a) \in Int
      /\ Oppose(a).quantite = -a.quantite /\ Oppose(a).prix = a.prix /\ Oppose(a).taux = a.taux
  BY MontantsEntiers, ArticleOppose
<1>2. (-a.quantite) * a.prix = -(a.quantite * a.prix) /\ a.quantite * a.prix \in Int
  OBVIOUS
<1>3. MontantHT(Oppose(a)) = -MontantHT(a)
  BY <1>1, <1>2, ArrondiSymetrique DEF MontantHT
<1>4. (-MontantHT(a)) * a.taux = -(MontantHT(a) * a.taux) /\ MontantHT(a) * a.taux \in Int
  BY <1>1
<1>. QED  BY <1>1, <1>3, <1>4, ArrondiSymetrique DEF MontantTVA

-----------------------------------------------------------------------------
(* Totals *)

\* What a request that is still alone has read is what the tables hold.
LuExact ==
    \A s \in Sessions : seul[s] =>
        /\ requete[s].lues = LignesDe(requete[s].doc)
        /\ requete[s].totaux = totaux[requete[s].doc]

\* The shape the argument needs: the rows a request has read are of its document.
Formes ==
    /\ seul \in [Sessions -> BOOLEAN]
    /\ DOMAIN requete = Sessions
    /\ DOMAIN totaux = Documents
    /\ \A s \in Sessions : /\ requete[s].doc \in Documents
                           /\ \A l \in requete[s].lues : l.doc = requete[s].doc

LectureInv == Formes /\ LuExact

\* Rows written in one document leave those of the other one.
LEMMA InsereesDuDocument ==
    ASSUME NEW P, NEW doc, NEW k, NEW l \in Inserees(P, doc, k)
    PROVE  l.doc = doc
<1>1. PICK id, a : l = Ligne(id, doc, a)
  BY DEF Inserees
<1>. QED  BY <1>1 DEF Ligne

LEMMA CopieesDeLAvoir ==
    ASSUME NEW L, NEW k, NEW l \in Copiees(L, k)
    PROVE  l.doc = "avoir"
<1>1. PICK id, k0 : l = LigneOpposee(id, k0)
  BY DEF Copiees
<1>. QED  BY <1>1 DEF LigneOpposee

\* A column is written as soon as the column that was read is the current one.
LEMMA EcritureExacte ==
    ASSUME NEW t, NEW L
    PROVE  EcrireTotaux(t, Totaux(L), t) = Totaux(L)
BY DEF EcrireTotaux, Totaux

LEMMA EcritureForme ==
    ASSUME Formes, NEW doc, NEW x
    PROVE  DOMAIN [totaux EXCEPT ![doc] = x] = Documents
BY DEF Formes

\* The requests that stay alone when s commits a write of doc.
LEMMA Autres ==
    ASSUME LectureInv, NEW s \in Sessions, NEW doc \in Documents, Committer(s, doc),
           \A l : l.doc # doc => (l \in lignes' <=> l \in lignes),
           \A d \in Documents : d # doc => totaux'[d] = totaux[d],
           DOMAIN totaux' = Documents
    PROVE  LectureInv'
<1>1. \A t \in Sessions : requete'[t] = IF t = s THEN SansRequete ELSE requete[t]
  BY DEF LectureInv, Formes, Committer
<1>2. seul' \in [Sessions -> BOOLEAN]
  BY DEF LectureInv, Formes, Committer
<1>3. Formes'
  <2>1. DOMAIN requete' = Sessions
    BY DEF LectureInv, Formes, Committer
  <2>2. SansRequete.doc \in Documents /\ SansRequete.lues = {}
    BY DEF SansRequete, Documents
  <2>. QED  BY <1>1, <1>2, <2>1, <2>2 DEF LectureInv, Formes
<1>4. LuExact'
  <2> SUFFICES ASSUME NEW t \in Sessions, seul'[t]
               PROVE  /\ requete'[t].lues = LignesDe(requete[t].doc)'
                      /\ requete'[t].totaux = totaux'[requete'[t].doc]
    BY DEF LuExact, LignesDe
  <2>1. seul[t] /\ t # s /\ requete[t].doc # doc
    BY DEF Committer
  <2>2. requete'[t] = requete[t]
    BY <1>1, <2>1
  <2>3. requete[t].doc \in Documents
    BY DEF LectureInv, Formes
  <2>4. /\ requete[t].lues = LignesDe(requete[t].doc)
        /\ requete[t].totaux = totaux[requete[t].doc]
    BY <2>1 DEF LectureInv, LuExact
  <2>5. LignesDe(requete[t].doc)' = {l \in lignes' : l.doc = requete[t].doc}
    BY <2>2 DEF LignesDe
  <2>6. {l \in lignes' : l.doc = requete[t].doc} = LignesDe(requete[t].doc)
    BY <2>1 DEF LignesDe
  <2>. QED  BY <2>1, <2>2, <2>3, <2>4, <2>5, <2>6
<1>. QED  BY <1>3, <1>4 DEF LectureInv

LEMMA LectureEtape == LectureInv /\ [Next]_vars => LectureInv'
<1> SUFFICES ASSUME LectureInv, [Next]_vars PROVE LectureInv'
  OBVIOUS
<1>1. ASSUME NEW s \in Sessions, NEW d \in Demandes, Recevoir(s, d) PROVE LectureInv'
  <2>1. d.doc \in Documents
    BY DEF Demandes, Documents
  <2>2. \A l \in LignesDe(d.doc) : l.doc = d.doc
    BY DEF LignesDe
  <2>. QED  BY <1>1, <2>1, <2>2 DEF Recevoir, LectureInv, Formes, LuExact, LignesDe
<1>2. ASSUME NEW s \in Sessions, Modifier(s) PROVE LectureInv'
  <2>. DEFINE r == requete[s]
              N == Inserees(r.saisie, r.doc, dernierId)
  <2>1. r.doc \in Documents /\ \A l \in r.lues : l.doc = r.doc
    BY DEF LectureInv, Formes
  <2>2. \A l \in N : l.doc = r.doc
    BY InsereesDuDocument
  <2>3. lignes' = IF r.saisie = EnTete THEN lignes ELSE (lignes \ r.lues) \cup N
    BY <1>2 DEF Modifier
  <2>4. \A l : l.doc # r.doc => (l \in lignes' <=> l \in lignes)
    BY <2>1, <2>2, <2>3
  <2>5. /\ \A d \in Documents : d # r.doc => totaux'[d] = totaux[d]
        /\ DOMAIN totaux' = Documents
    BY <1>2, EcritureForme DEF Modifier, LectureInv, Formes
  <2>. QED  BY <1>2, <2>1, <2>4, <2>5, Autres DEF Modifier
<1>3. ASSUME NEW s \in Sessions, Valider(s) PROVE LectureInv'
  BY <1>3, Autres DEF Valider, LectureInv, Formes, Documents
<1>4. ASSUME NEW s \in Sessions, GenererAvoir(s) PROVE LectureInv'
  <2>1. \A l : l.doc # "avoir" => (l \in lignes' <=> l \in lignes)
    BY <1>4, CopieesDeLAvoir DEF GenererAvoir
  <2>2. /\ \A d \in Documents : d # "avoir" => totaux'[d] = totaux[d]
        /\ DOMAIN totaux' = Documents
    BY <1>4, EcritureForme DEF GenererAvoir, LectureInv, Formes
  <2>3. "avoir" \in Documents /\ Committer(s, "avoir")
    BY <1>4 DEF GenererAvoir, Documents
  <2>. QED  BY <2>1, <2>2, <2>3, Autres
<1>5. ASSUME NEW s \in Sessions, Abandonner(s) PROVE LectureInv'
  <2>1. SansRequete.doc \in Documents /\ SansRequete.lues = {}
    BY DEF SansRequete, Documents
  <2>. QED  BY <1>5, <2>1 DEF Abandonner, LectureInv, Formes, LuExact, LignesDe
<1>6. CASE UNCHANGED vars
  BY <1>6 DEF vars, LectureInv, Formes, LuExact, LignesDe
<1>. QED  BY <1>1, <1>2, <1>3, <1>4, <1>5, <1>6 DEF Next

LEMMA LectureInit == Init => LectureInv
BY DEF Init, LectureInv, Formes, LuExact, SansRequete, Documents

LEMMA PatchIsole ==
    ASSUME LectureInv, NEW s \in Sessions, NEW doc \in Documents,
           seul[s], requete[s].doc = doc, Modifier(s)
    PROVE  totaux'[doc] = Totaux(LignesDe(doc)')
<1>. DEFINE r == requete[s]
            N == Inserees(r.saisie, doc, dernierId)
<1>1. r.lues = LignesDe(doc) /\ r.totaux = totaux[doc] /\ DOMAIN totaux = Documents
  BY DEF LectureInv, LuExact, Formes
<1>2. Sommees(r) = LignesDe(doc)'
  <2>1. CASE r.saisie = EnTete
    BY <1>1, <2>1 DEF Modifier, Sommees, LignesDe
  <2>2. CASE r.saisie # EnTete
    <3>1. lignes' = (lignes \ LignesDe(doc)) \cup N /\ Sommees(r) = N
      BY <1>1, <2>2 DEF Modifier, Sommees
    <3>2. \A l \in N : l.doc = doc
      BY InsereesDuDocument
    <3>. QED  BY <3>1, <3>2 DEF LignesDe
  <2>. QED  BY <2>1, <2>2
<1>3. totaux'[doc] = EcrireTotaux(r.totaux, Totaux(Sommees(r)), totaux[doc])
  BY <1>1 DEF Modifier
<1>. QED  BY <1>1, <1>2, <1>3, EcritureExacte

\* Whatever races have left in the totals and the lines, a PATCH of a draft that
\* nobody else writes meanwhile leaves totals that are the sums of the lines
\* (service.py:41-45), for any number of requests, articles and lines.
THEOREM PatchsIsoles == Spec => PatchIsoleRepare
<1>1. LectureInv /\ [Next]_vars =>
         [\A s \in Sessions, doc \in Documents :
             seul[s] /\ requete[s].doc = doc /\ Modifier(s)
             => totaux'[doc] = Totaux(LignesDe(doc)')]_vars
  BY PatchIsole
<1>. QED  BY <1>1, LectureInit, LectureEtape, PTL DEF Spec, PatchIsoleRepare

-----------------------------------------------------------------------------
(* Sums of lines *)

HT == [l \in LignesPossibles |-> l.ht]
TVA == [l \in LignesPossibles |-> l.tva]

\* The two sums of a finite set of lines are those of the lemmas.
LEMMA SommesDesLignes ==
    ASSUME NEW L, L \subseteq LignesPossibles, IsFiniteSet(L)
    PROVE  /\ SommeHT(L) = SommeDe(HT, L) /\ SommeHT(L) \in Int
           /\ SommeTVA(L) = SommeDe(TVA, L) /\ SommeTVA(L) \in Int
<1> DEFINE f == CHOOSE g : g = [T \in SUBSET L |->
                    IF T = {} THEN 0
                    ELSE (CHOOSE x \in T : TRUE).ht + g[T \ {CHOOSE x \in T : TRUE}]]
           h == CHOOSE g : g = [T \in SUBSET L |->
                    IF T = {} THEN 0
                    ELSE (CHOOSE x \in T : TRUE).tva + g[T \ {CHOOSE x \in T : TRUE}]]
<1>1. SommeHT(L) = f[L] /\ SommeTVA(L) = h[L]
    BY DEF SommeHT, SommeTVA, MapThenSumSet, MapThenFoldSet
<1>2. \A T \in SUBSET L : T # {} =>
          HT[Choix(T)] = (CHOOSE x \in T : TRUE).ht /\ TVA[Choix(T)] = (CHOOSE x \in T : TRUE).tva
    BY DEF Choix, HT, TVA
<1>3. EstSomme(f, HT, L)
  <2>1. PICK g : EstSomme(g, HT, L)
      BY SommeExiste
  <2>2. g = [T \in SUBSET L |->
                 IF T = {} THEN 0
                 ELSE (CHOOSE x \in T : TRUE).ht + g[T \ {CHOOSE x \in T : TRUE}]]
      BY <1>2, <2>1 DEF EstSomme, Choix
  <2>3. f = [T \in SUBSET L |->
                 IF T = {} THEN 0
                 ELSE (CHOOSE x \in T : TRUE).ht + f[T \ {CHOOSE x \in T : TRUE}]]
      BY <2>2
  <2> HIDE DEF f
  <2> QED
      BY <1>2, <2>3 DEF EstSomme, Choix
<1>4. EstSomme(h, TVA, L)
  <2>1. PICK g : EstSomme(g, TVA, L)
      BY SommeExiste
  <2>2. g = [T \in SUBSET L |->
                 IF T = {} THEN 0
                 ELSE (CHOOSE x \in T : TRUE).tva + g[T \ {CHOOSE x \in T : TRUE}]]
      BY <1>2, <2>1 DEF EstSomme, Choix
  <2>3. h = [T \in SUBSET L |->
                 IF T = {} THEN 0
                 ELSE (CHOOSE x \in T : TRUE).tva + h[T \ {CHOOSE x \in T : TRUE}]]
      BY <2>2
  <2> HIDE DEF h
  <2> QED
      BY <1>2, <2>3 DEF EstSomme, Choix
<1> HIDE DEF f, h
<1>5. /\ \A x \in L : HT[x] \in Int /\ TVA[x] \in Int
      /\ SommeDe(HT, L) \in Int /\ SommeDe(TVA, L) \in Int
  <2>1. \A x \in L : HT[x] \in Int /\ TVA[x] \in Int
      BY DEF HT, TVA, LignesPossibles
  <2> QED
      BY <2>1, SommeEntiere
<1>6. f[L] = SommeDe(HT, L) /\ h[L] = SommeDe(TVA, L)
  <2>1. PICK g : EstSomme(g, HT, L) /\ SommeDe(HT, L) = g[L]
      BY SommeDef
  <2>2. PICK k : EstSomme(k, TVA, L) /\ SommeDe(TVA, L) = k[L]
      BY SommeDef
  <2>3. f[L] = g[L]
      BY <1>3, <2>1, SommeUnique
  <2>4. h[L] = k[L]
      BY <1>4, <2>2, SommeUnique
  <2> QED
      BY <2>1, <2>2, <2>3, <2>4
<1> QED
    BY <1>1, <1>5, <1>6

LEMMA TotauxEntiers ==
    ASSUME NEW L, L \subseteq LignesPossibles, IsFiniteSet(L)
    PROVE  Totaux(L) \in TotauxPossibles
    BY SommesDesLignes DEF Totaux, TotauxPossibles

LEMMA TotauxVides == Totaux({}) = TotauxNuls
<1>1. SommeHT({}) = 0 /\ SommeTVA({}) = 0
    BY SommesDesLignes, SommeVide, FS_EmptySet
<1> QED
    BY <1>1 DEF Totaux, TotauxNuls

\* Lines of the opposite amounts, one by one, have the opposite totals.
LEMMA TotauxCredites ==
    ASSUME NEW L, L \subseteq LignesPossibles, IsFiniteSet(L),
           NEW R, R \subseteq LignesPossibles,
           NEW h \in Bijection(L, R),
           \A l \in L : h[l].ht = -l.ht /\ h[l].tva = -l.tva
    PROVE  IsFiniteSet(R) /\ Totaux(R) = TotauxOpposes(Totaux(L))
<1>1. \A l \in L : h[l] \in R
    BY DEF Bijection, Injection
<1>2. \A l \in L : /\ HT[l] \in Int /\ HT[h[l]] = -HT[l]
                   /\ TVA[l] \in Int /\ TVA[h[l]] = -TVA[l]
    BY <1>1 DEF HT, TVA, LignesPossibles
<1>3. IsFiniteSet(R) /\ SommeDe(HT, R) = -SommeDe(HT, L)
    BY <1>2, SommeOpposee
<1>4. SommeDe(TVA, R) = -SommeDe(TVA, L)
    BY <1>2, SommeOpposee
<1>5. SommeHT(R) = -SommeHT(L) /\ SommeTVA(R) = -SommeTVA(L) /\ SommeHT(L) \in Int /\ SommeTVA(L) \in Int
    BY <1>3, <1>4, SommesDesLignes
<1> QED
    BY <1>3, <1>5 DEF Totaux, TotauxOpposes

-----------------------------------------------------------------------------
(* Ranks *)

\* The rank of an element by a one-to-one key is a number, and its own.
RangPar(c, S, a) == Cardinality({k \in S : c[k] <= c[a]})

LEMMA RangsDistincts ==
    ASSUME NEW S, IsFiniteSet(S), NEW c, \A x \in S : c[x] \in Int,
           \A x, y \in S : c[x] = c[y] => x = y
    PROVE  /\ \A a \in S : RangPar(c, S, a) \in 1..Cardinality(S)
           /\ \A a, b \in S : RangPar(c, S, a) = RangPar(c, S, b) => a = b
<1> DEFINE D(x) == {k \in S : c[k] <= c[x]}
<1>1. \A x \in S : /\ D(x) \subseteq S /\ IsFiniteSet(D(x)) /\ x \in D(x)
                   /\ Cardinality(D(x)) \in Nat /\ Cardinality(D(x)) <= Cardinality(S)
                   /\ Cardinality(D(x)) # 0
  <2> TAKE x \in S
  <2>1. D(x) \subseteq S /\ x \in D(x)
      OBVIOUS
  <2> HIDE DEF D
  <2>2. IsFiniteSet(D(x)) /\ Cardinality(D(x)) <= Cardinality(S)
      BY <2>1, FS_Subset
  <2> QED
      BY <2>1, <2>2, FS_CardinalityType, FS_EmptySet
<1>2. \A x, y \in S : c[x] <= c[y] => D(x) \subseteq D(y)
    OBVIOUS
<1>3. \A x, y \in S : D(x) \subseteq D(y) /\ Cardinality(D(x)) = Cardinality(D(y)) => D(x) = D(y)
  <2> HIDE DEF D
  <2> QED
      BY <1>1, FS_Subset
<1>4. \A x, y \in S : D(x) = D(y) => x = y
  <2>1. \A x, y \in S : x \in D(y) => c[x] <= c[y]
      OBVIOUS
  <2>2. \A x, y \in S : c[x] <= c[y] /\ c[y] <= c[x] => c[x] = c[y]
      OBVIOUS
  <2> HIDE DEF D
  <2> QED
      BY <1>1, <2>1, <2>2
<1>5. \A x, y \in S : c[x] <= c[y] \/ c[y] <= c[x]
    OBVIOUS
<1>6. Cardinality(S) \in Nat
    BY FS_CardinalityType
<1>7. \A a \in S : Cardinality(D(a)) \in 1..Cardinality(S)
  <2> HIDE DEF D
  <2> QED
      BY <1>1, <1>6
<1>8. \A a, b \in S : Cardinality(D(a)) = Cardinality(D(b)) => a = b
  <2> HIDE DEF D
  <2> QED
      BY <1>1, <1>2, <1>3, <1>4, <1>5
<1> QED
    BY <1>7, <1>8 DEF RangPar

-----------------------------------------------------------------------------
(* The rows that are written *)

\* A set of rows whose amounts are those of their articles.
LignesJustes(L) ==
    /\ L \subseteq LignesPossibles /\ IsFiniteSet(L)
    /\ \A k, l \in L : k.id = l.id => k = l
    /\ \A l \in L : l.ht = MontantHT(l.article) /\ l.tva = MontantTVA(l.article)

LEMMA InsereesJustes ==
    ASSUME NEW P \in Saisies, NEW doc \in Documents, NEW n \in Nat,
           n + Cardinality(P) <= MaxLignes
    PROVE  /\ LignesJustes(Inserees(P, doc, n))
           /\ \A l \in Inserees(P, doc, n) : l.id > n /\ l.id <= n + Cardinality(P)
           /\ IsFiniteSet(P) /\ Cardinality(P) \in Nat
<1> DEFINE R(i) == Cardinality({k \in P : k <= i})
           h == [i \in P |-> Ligne(n + R(i), doc, Articles[i])]
<1>1. P \subseteq 1..Len(Articles) /\ Len(Articles) \in Nat
    BY HypArticles DEF Saisies, Listes, EnTete
<1>2. IsFiniteSet(P) /\ Cardinality(P) \in Nat /\ P \subseteq Int
  <2>1. IsFiniteSet(1..Len(Articles))
      BY <1>1, FS_Interval
  <2>2. IsFiniteSet(P)
      BY <1>1, <2>1, FS_Subset
  <2>3. Cardinality(P) \in Nat
      BY <2>2, FS_CardinalityType
  <2> QED
      BY <1>1, <2>2, <2>3
<1>3. /\ \A i \in P : R(i) \in 1..Cardinality(P)
      /\ \A i, j \in P : R(i) = R(j) => i = j
  <2> DEFINE c == [i \in P |-> i]
  <2>1. \A i \in P : {k \in P : c[k] <= c[i]} = {k \in P : k <= i}
      OBVIOUS
  <2>2. /\ \A i \in P : c[i] \in Int
        /\ \A i, j \in P : c[i] = c[j] => i = j
      BY <1>2
  <2> HIDE DEF c
  <2>3. /\ \A a \in P : RangPar(c, P, a) \in 1..Cardinality(P)
        /\ \A a, b \in P : RangPar(c, P, a) = RangPar(c, P, b) => a = b
      BY <1>2, <2>2, RangsDistincts
  <2>4. \A i \in P : RangPar(c, P, i) = R(i)
      BY <2>1 DEF RangPar
  <2> HIDE DEF R
  <2> QED
      BY <2>3, <2>4
<1> HIDE DEF R
<1>4. Inserees(P, doc, n) = {h[i] : i \in P}
    BY DEF Inserees, R
<1>5. \A i \in P : Articles[i] \in [quantite : Int, prix : Int, taux : Nat]
  <2> DEFINE A == [quantite : Int, prix : Int, taux : Nat]
  <2>1. Articles \in Seq(A)
      BY HypArticles
  <2> HIDE DEF A
  <2>2. \A i \in 1..Len(Articles) : Articles[i] \in A
      BY <2>1
  <2>3. \A i \in P : Articles[i] \in A
      BY <1>1, <2>2
  <2> QED
      BY <2>3 DEF A
<1>6. \A i \in P : /\ h[i] \in LignesPossibles
                   /\ h[i].id = n + R(i) /\ h[i].article = Articles[i]
                   /\ h[i].ht = MontantHT(h[i].article) /\ h[i].tva = MontantTVA(h[i].article)
  <2> TAKE i \in P
  <2>1. MontantHT(Articles[i]) \in Int /\ MontantTVA(Articles[i]) \in Int
      BY <1>5, MontantsEntiers
  <2>2. n + R(i) \in Ids
      BY <1>2, <1>3, HypLignes DEF Ids
  <2> QED
      BY <1>5, <2>1, <2>2 DEF Ligne, LignesPossibles
<1>7. IsFiniteSet({h[i] : i \in P})
    BY <1>2, ImageFinie DEF ImageDe
<1> HIDE DEF h
<1>8. LignesJustes({h[i] : i \in P})
    BY <1>3, <1>6, <1>7 DEF LignesJustes
<1>9. \A l \in {h[i] : i \in P} : l.id > n /\ l.id <= n + Cardinality(P)
    BY <1>2, <1>3, <1>6
<1> QED
    BY <1>2, <1>4, <1>8, <1>9

LEMMA CopieesJustes ==
    ASSUME NEW L, LignesJustes(L), NEW n \in Nat, n + Cardinality(L) <= MaxLignes
    PROVE  /\ LignesJustes(Copiees(L, n))
           /\ \A l \in Copiees(L, n) : l.id > n /\ l.id <= n + Cardinality(L)
           /\ Cardinality(L) \in Nat
           /\ \E h \in Bijection(L, Copiees(L, n)) :
                 \A l \in L : h[l].article = Oppose(l.article)
<1> DEFINE R(l) == Cardinality({k \in L : k.id <= l.id})
           h == [l \in L |-> LigneOpposee(n + R(l), l)]
<1>1. IsFiniteSet(L) /\ Cardinality(L) \in Nat /\ L \subseteq LignesPossibles
    BY FS_CardinalityType DEF LignesJustes
<1>2. /\ \A l \in L : R(l) \in 1..Cardinality(L)
      /\ \A l, m \in L : R(l) = R(m) => l = m
  <2> DEFINE c == [l \in L |-> l.id]
  <2>1. \A l \in L : {k \in L : c[k] <= c[l]} = {k \in L : k.id <= l.id}
      OBVIOUS
  <2>2. /\ \A l \in L : c[l] \in Int
        /\ \A l, m \in L : c[l] = c[m] => l = m
      BY HypLignes DEF LignesJustes, LignesPossibles, Ids
  <2> HIDE DEF c
  <2>3. /\ \A a \in L : RangPar(c, L, a) \in 1..Cardinality(L)
        /\ \A a, b \in L : RangPar(c, L, a) = RangPar(c, L, b) => a = b
      BY <1>1, <2>2, RangsDistincts
  <2>4. \A l \in L : RangPar(c, L, l) = R(l)
      BY <2>1 DEF RangPar
  <2> HIDE DEF R
  <2> QED
      BY <2>3, <2>4
<1> HIDE DEF R
<1>3. Copiees(L, n) = {h[l] : l \in L}
    BY DEF Copiees, R
<1>4. \A l \in L : /\ h[l] \in LignesPossibles
                   /\ h[l].id = n + R(l) /\ h[l].article = Oppose(l.article)
                   /\ h[l].ht = MontantHT(h[l].article) /\ h[l].tva = MontantTVA(h[l].article)
  <2> TAKE l \in L
  <2>1. /\ l.article \in [quantite : Int, prix : Int, taux : Nat]
        /\ l.ht \in Int /\ l.tva \in Int
        /\ l.ht = MontantHT(l.article) /\ l.tva = MontantTVA(l.article)
      BY DEF LignesJustes, LignesPossibles
  <2>2. /\ Oppose(l.article) \in [quantite : Int, prix : Int, taux : Nat]
        /\ -l.ht = MontantHT(Oppose(l.article)) /\ -l.tva = MontantTVA(Oppose(l.article))
      BY <2>1, ArticleOppose, LigneCreditee
  <2>3. n + R(l) \in Ids
      BY <1>1, <1>2, HypLignes DEF Ids
  <2> QED
      BY <2>1, <2>2, <2>3 DEF LigneOpposee, LignesPossibles, Documents
<1>5. IsFiniteSet({h[l] : l \in L})
    BY <1>1, ImageFinie DEF ImageDe
<1>6. h \in [L -> {h[l] : l \in L}]
    OBVIOUS
<1> HIDE DEF h
<1>7. LignesJustes({h[l] : l \in L})
    BY <1>2, <1>4, <1>5 DEF LignesJustes
<1>8. \A l \in {h[k] : k \in L} : l.id > n /\ l.id <= n + Cardinality(L)
    BY <1>1, <1>2, <1>4
<1>9. h \in Bijection(L, {h[l] : l \in L})
  <2>1. \A l, m \in L : h[l] = h[m] => l = m
    <3>1. \A l, m \in L : h[l] = h[m] => n + R(l) = n + R(m)
        BY <1>4
    <3> QED
        BY <1>1, <1>2, <3>1
  <2>2. IsInjective(h)
      BY <1>6, <2>1 DEF IsInjective
  <2> QED
      BY <1>6, <2>2 DEF Bijection, Injection, Surjection
<1> QED
    BY <1>1, <1>3, <1>4, <1>7, <1>8, <1>9

\* New rows beside some of those of the table.
LEMMA UnionJuste ==
    ASSUME NEW L, LignesJustes(L), NEW K, K \subseteq L, NEW N, LignesJustes(N),
           NEW n \in Nat, \A l \in L : l.id <= n, \A l \in N : l.id > n
    PROVE  LignesJustes(K \cup N)
<1>1. IsFiniteSet(K \cup N)
    BY FS_Subset, FS_Union DEF LignesJustes
<1>2. \A l \in L \cup N : l.id \in Int
    BY HypLignes DEF LignesJustes, LignesPossibles, Ids
<1>3. \A k \in L, l \in N : k.id # l.id
    BY <1>2
<1> QED
    BY <1>1, <1>3 DEF LignesJustes

LEMMA EcritureTypee ==
    ASSUME NEW t \in TotauxPossibles, NEW u \in TotauxPossibles, NEW w \in TotauxPossibles
    PROVE  EcrireTotaux(t, u, w) \in TotauxPossibles
    BY DEF EcrireTotaux, TotauxPossibles

-----------------------------------------------------------------------------
(* The invariant *)

\* What a request read is right; a PATCH of the credit note is about one that
\* exists; as long as the request is alone, the invoice it writes is a draft.
RequeteSuivie(s) ==
    LET r == requete[s] IN
    /\ LignesJustes(r.lues)
    /\ r.op = "modifier" /\ r.doc = "avoir" => etat["avoir"] # "absente"
    /\ r.op \in {"valider", "avoir"} => r.doc = "facture"
    /\ r.op = "avoir" => etat["facture"] = "emise"
    /\ seul[s] /\ r.op = "modifier" /\ r.doc = "facture" => etat["facture"] = "brouillon"

\* A credit note has no row before it is generated, from an emitted invoice, and
\* as long as they are not entered again, its rows are those of the invoice.
AvoirSuivi ==
    /\ etat["avoir"] = "absente" => LignesDe("avoir") = {}
    /\ etat["avoir"] # "absente" => etat["facture"] = "emise"
    /\ ~croise /\ ~retouche /\ etat["avoir"] # "absente" => LigneALigne

LignesInv ==
    /\ TypeOK /\ LectureInv
    /\ LignesJustes(lignes) /\ \A l \in lignes : l.id <= dernierId
    /\ \A s \in Sessions : RequeteSuivie(s)
    /\ AvoirSuivi /\ TotauxSansCourse

LEMMA PartieJuste ==
    ASSUME NEW L, LignesJustes(L), NEW K, K \subseteq L
    PROVE  LignesJustes(K)
    BY FS_Subset DEF LignesJustes

LEMMA RequeteVide ==
    /\ SansRequete \in [op : {"aucune", "modifier", "valider", "avoir"}, doc : Documents,
                         saisie : Saisies, lues : SUBSET LignesPossibles,
                         totaux : TotauxPossibles]
    /\ SansRequete.op = "aucune" /\ SansRequete.doc = "facture" /\ LignesJustes(SansRequete.lues)
<1>1. LignesJustes({})
    BY FS_EmptySet DEF LignesJustes
<1> QED
    BY <1>1 DEF SansRequete, Documents, Saisies, EnTete, TotauxNuls, TotauxPossibles

\* The requests after the commit of s.
LEMMA CommitSuivi ==
    ASSUME LignesInv, NEW s \in Sessions, NEW doc \in Documents, Committer(s, doc)
    PROVE  /\ requete' \in [Sessions ->
                  [op : {"aucune", "modifier", "valider", "avoir"}, doc : Documents,
                   saisie : Saisies, lues : SUBSET LignesPossibles, totaux : TotauxPossibles]]
           /\ seul' \in [Sessions -> BOOLEAN] /\ croise' \in BOOLEAN
           /\ ~croise' => ~croise /\ seul[s]
           /\ \A t \in Sessions :
                 \/ requete'[t] = SansRequete /\ ~seul'[t]
                 \/ requete'[t] = requete[t] /\ (seul'[t] => seul[t] /\ requete[t].doc # doc)
    BY RequeteVide DEF LignesInv, TypeOK, Committer

\* The shape of a request that was read.
LEMMA RequeteTypee ==
    ASSUME LignesInv, NEW s \in Sessions
    PROVE  /\ requete[s].doc \in Documents /\ requete[s].saisie \in Saisies
           /\ requete[s].lues \subseteq LignesPossibles
           /\ requete[s].totaux \in TotauxPossibles
           /\ LignesJustes(requete[s].lues) /\ RequeteSuivie(s)
           /\ seul[s] \in BOOLEAN /\ dernierId \in Nat /\ MaxLignes \in Nat
    BY HypLignes DEF LignesInv, TypeOK, RequeteSuivie

LEMMA RecevoirInv ==
    ASSUME LignesInv, NEW s \in Sessions, NEW d \in Demandes, Recevoir(s, d)
    PROVE  LignesInv'
<1> DEFINE q == [op |-> d.op, doc |-> d.doc, saisie |-> d.saisie, lues |-> LignesDe(d.doc),
                 totaux |-> totaux[d.doc]]
<1>1. /\ d.op \in {"modifier", "valider", "avoir"} /\ d.doc \in Documents
      /\ d.saisie \in Saisies
      /\ d.op \in {"valider", "avoir"} => d.doc = "facture"
    BY DEF Demandes, Documents, Saisies
<1>2. LignesJustes(LignesDe(d.doc))
    BY PartieJuste DEF LignesInv, LignesDe
<1>3. /\ requete' = [requete EXCEPT ![s] = q] /\ seul' = [seul EXCEPT ![s] = TRUE]
      /\ UNCHANGED <<etat, lignes, totaux, dernierId, croise, retouche>>
    BY DEF Recevoir
<1>4. TypeOK'
  <2>1. q.lues \in SUBSET LignesPossibles /\ q.totaux \in TotauxPossibles
      BY <1>1, <1>2 DEF LignesJustes, LignesInv, TypeOK
  <2>2. q \in [op : {"aucune", "modifier", "valider", "avoir"}, doc : Documents,
               saisie : Saisies, lues : SUBSET LignesPossibles, totaux : TotauxPossibles]
      BY <1>1, <2>1
  <2> HIDE DEF q
  <2> QED
      BY <1>3, <2>2 DEF LignesInv, TypeOK
<1>5. LectureInv'
    BY LectureEtape DEF LignesInv, Next
<1>6. LignesDe("facture")' = LignesDe("facture") /\ LignesDe("avoir")' = LignesDe("avoir")
    BY <1>3 DEF LignesDe
<1>7. AvoirSuivi' /\ TotauxSansCourse'
    BY <1>3, <1>6 DEF LignesInv, AvoirSuivi, TotauxSansCourse, Documents, LigneALigne
<1>8. ASSUME NEW t \in Sessions
      PROVE  RequeteSuivie(t)'
  <2>1. CASE t = s
    <3>1. requete'[t] = q
        BY <1>3, <2>1 DEF LignesInv, TypeOK
    <3>2. Recevable(d)
        BY DEF Recevoir
    <3> QED
        BY <1>1, <1>2, <1>3, <3>1, <3>2 DEF RequeteSuivie, Recevable
  <2>2. CASE t # s
    <3>1. requete'[t] = requete[t] /\ seul'[t] = seul[t]
        BY <1>3, <2>2 DEF LignesInv, TypeOK
    <3> QED
        BY <1>3, <3>1 DEF LignesInv, RequeteSuivie
  <2> QED
      BY <2>1, <2>2
<1> QED
    BY <1>3, <1>4, <1>5, <1>7, <1>8 DEF LignesInv

LEMMA AbandonnerInv ==
    ASSUME LignesInv, NEW s \in Sessions, Abandonner(s)
    PROVE  LignesInv'
<1>1. /\ requete' = [requete EXCEPT ![s] = SansRequete] /\ seul' = [seul EXCEPT ![s] = FALSE]
      /\ UNCHANGED <<etat, lignes, totaux, dernierId, croise, retouche>>
    BY DEF Abandonner
<1>2. TypeOK'
    BY <1>1, RequeteVide DEF LignesInv, TypeOK
<1>3. LectureInv'
    BY LectureEtape DEF LignesInv, Next
<1>4. LignesDe("facture")' = LignesDe("facture") /\ LignesDe("avoir")' = LignesDe("avoir")
    BY <1>1 DEF LignesDe
<1>5. AvoirSuivi' /\ TotauxSansCourse'
    BY <1>1, <1>4 DEF LignesInv, AvoirSuivi, TotauxSansCourse, Documents, LigneALigne
<1>6. ASSUME NEW t \in Sessions
      PROVE  RequeteSuivie(t)'
  <2>1. requete'[t] = SansRequete \/ (requete'[t] = requete[t] /\ seul'[t] = seul[t])
      BY <1>1 DEF LignesInv, TypeOK
  <2> QED
      BY <1>1, <2>1, RequeteVide DEF LignesInv, RequeteSuivie
<1> QED
    BY <1>1, <1>2, <1>3, <1>5, <1>6 DEF LignesInv

LEMMA ValiderInv ==
    ASSUME LignesInv, NEW s \in Sessions, Valider(s)
    PROVE  LignesInv'
<1>1. /\ requete[s].op = "valider" /\ Committer(s, "facture") /\ "facture" \in Documents
      /\ etat' = [etat EXCEPT !["facture"] = "emise"]
      /\ UNCHANGED <<lignes, totaux, dernierId, retouche>>
    BY DEF Valider, Documents
<1>2. /\ etat'["facture"] = "emise" /\ etat'["avoir"] = etat["avoir"]
      /\ etat' \in [Documents -> {"absente", "brouillon", "emise"}]
    BY <1>1 DEF LignesInv, TypeOK, Documents
<1>3. TypeOK'
    BY <1>1, <1>2, CommitSuivi DEF LignesInv, TypeOK
<1>4. LectureInv'
    BY LectureEtape DEF LignesInv, Next
<1>5. LignesDe("facture")' = LignesDe("facture") /\ LignesDe("avoir")' = LignesDe("avoir")
    BY <1>1 DEF LignesDe
<1>6. AvoirSuivi' /\ TotauxSansCourse'
    BY <1>1, <1>2, <1>5, CommitSuivi
       DEF LignesInv, AvoirSuivi, TotauxSansCourse, Documents, LigneALigne
<1>7. ASSUME NEW t \in Sessions
      PROVE  RequeteSuivie(t)'
  <2>1. \/ requete'[t] = SansRequete /\ ~seul'[t]
        \/ requete'[t] = requete[t] /\ (seul'[t] => seul[t] /\ requete[t].doc # "facture")
      BY <1>1, CommitSuivi
  <2> QED
      BY <1>2, <2>1, RequeteVide DEF LignesInv, RequeteSuivie
<1> QED
    BY <1>1, <1>3, <1>4, <1>6, <1>7 DEF LignesInv

LEMMA ModifierInv ==
    ASSUME LignesInv, NEW s \in Sessions, Modifier(s)
    PROVE  LignesInv'
<1> DEFINE r == requete[s]
           N == Inserees(r.saisie, r.doc, dernierId)
<1>1. /\ r.op = "modifier" /\ r.doc \in Documents /\ r.saisie \in Saisies
      /\ LignesJustes(r.lues) /\ r.totaux \in TotauxPossibles /\ dernierId \in Nat
      /\ dernierId + Cardinality(r.saisie) <= MaxLignes
      /\ \A l \in r.lues : l.doc = r.doc
    BY RequeteTypee DEF Modifier, LignesInv, LectureInv, Formes
<1>2. /\ LignesJustes(N) /\ Cardinality(r.saisie) \in Nat
      /\ \A l \in N : l.id > dernierId /\ l.id <= dernierId + Cardinality(r.saisie)
      /\ \A l \in N : l.doc = r.doc
    BY <1>1, InsereesJustes, InsereesDuDocument
<1>3. /\ lignes' = IF r.saisie = EnTete THEN lignes ELSE (lignes \ r.lues) \cup N
      /\ dernierId' = dernierId + Cardinality(r.saisie)
      /\ totaux' = [totaux EXCEPT ![r.doc] =
                        EcrireTotaux(r.totaux, Totaux(Sommees(r)), totaux[r.doc])]
      /\ retouche' = (retouche \/ (r.doc = "avoir" /\ r.saisie # EnTete))
      /\ Committer(s, r.doc)
      /\ etat' = etat
    BY <1>1 DEF Modifier, LignesInv, LectureInv, Formes
<1>4. LignesJustes(lignes') /\ \A l \in lignes' : l.id <= dernierId'
  <2>1. LignesJustes(lignes) /\ \A l \in lignes : l.id <= dernierId
      BY DEF LignesInv
  <2> HIDE DEF N
  <2>2. LignesJustes((lignes \ r.lues) \cup N)
      BY <1>1, <1>2, <2>1, UnionJuste
  <2>3. \A l \in lignes : l.id \in Int
      BY <2>1, HypLignes DEF LignesJustes, LignesPossibles, Ids
  <2>4. LignesJustes(lignes')
      BY <1>3, <2>1, <2>2
  <2>5. ASSUME NEW l \in lignes'
        PROVE  l.id <= dernierId'
    <3>1. l \in lignes \/ l \in N
        BY <1>3
    <3> QED
        BY <1>1, <1>2, <1>3, <2>1, <2>3, <3>1
  <2> QED
      BY <2>4, <2>5
<1>5. totaux' \in [Documents -> TotauxPossibles]
  <2>1. LignesJustes(Sommees(r))
      BY <1>1, <1>2 DEF Sommees
  <2>2. Totaux(Sommees(r)) \in TotauxPossibles
      BY <2>1, TotauxEntiers DEF LignesJustes
  <2>3. totaux[r.doc] \in TotauxPossibles
      BY <1>1 DEF LignesInv, TypeOK
  <2>4. EcrireTotaux(r.totaux, Totaux(Sommees(r)), totaux[r.doc]) \in TotauxPossibles
      BY <1>1, <2>2, <2>3, EcritureTypee
  <2> QED
      BY <1>3, <2>4 DEF LignesInv, TypeOK
<1>6. TypeOK'
  <2>1. dernierId' \in 0..MaxLignes
      BY <1>1, <1>2, <1>3, HypLignes
  <2>2. lignes' \subseteq LignesPossibles /\ \A k, l \in lignes' : k.id = l.id => k = l
      BY <1>4 DEF LignesJustes
  <2>3. retouche' \in BOOLEAN
      BY <1>3 DEF LignesInv, TypeOK
  <2> QED
      BY <1>1, <1>3, <1>5, <2>1, <2>2, <2>3, CommitSuivi DEF LignesInv, TypeOK
<1>7. LectureInv'
    BY LectureEtape DEF LignesInv, Next
<1>8. ASSUME NEW d \in Documents, d # r.doc
      PROVE  LignesDe(d)' = LignesDe(d) /\ totaux'[d] = totaux[d]
  <2>1. \A l : l.doc = d => (l \in lignes' <=> l \in lignes)
      BY <1>1, <1>2, <1>3, <1>8
  <2> QED
      BY <1>3, <1>8, <2>1 DEF LignesDe, LignesInv, TypeOK
<1>9. ~croise' => ~croise /\ seul[s]
    BY <1>1, <1>3, CommitSuivi
<1>10. TotauxSansCourse'
  <2>1. PICK doc \in Documents : doc = r.doc
      BY <1>1
  <2>2. seul[s] => totaux'[doc] = Totaux(LignesDe(doc)')
      BY <2>1, PatchIsole DEF LignesInv
  <2>3. ~croise => \A d \in Documents : d # doc => totaux'[d] = Totaux(LignesDe(d)')
      BY <1>8, <2>1 DEF LignesInv, TotauxSansCourse
  <2> QED
      BY <1>9, <2>2, <2>3 DEF TotauxSansCourse
<1>11. AvoirSuivi'
  <2>1. etat["avoir"] = "absente" => r.doc = "facture"
      BY <1>1, RequeteTypee DEF RequeteSuivie, Documents
  <2>2. etat["avoir"] = "absente" => LignesDe("avoir")' = {}
      BY <1>8, <2>1 DEF LignesInv, AvoirSuivi, Documents
  <2>3. ASSUME ~croise', ~retouche', etat["avoir"] # "absente"
        PROVE  LigneALigne'
    <3>1. seul[s] /\ ~croise /\ ~retouche
        BY <1>3, <1>9, <2>3
    <3>2. r.doc = "avoir"
        BY <1>1, <2>3, <3>1, RequeteTypee DEF RequeteSuivie, LignesInv, AvoirSuivi, Documents
    <3>3. lignes' = lignes
        BY <1>3, <2>3, <3>2
    <3>4. LignesDe("facture")' = LignesDe("facture") /\ LignesDe("avoir")' = LignesDe("avoir")
        BY <3>3 DEF LignesDe
    <3> QED
        BY <2>3, <3>1, <3>4 DEF LignesInv, AvoirSuivi, LigneALigne
  <2> QED
      BY <1>3, <2>2, <2>3 DEF LignesInv, AvoirSuivi
<1>12. ASSUME NEW t \in Sessions
       PROVE  RequeteSuivie(t)'
  <2>1. \/ requete'[t] = SansRequete /\ ~seul'[t]
        \/ requete'[t] = requete[t] /\ (seul'[t] => seul[t] /\ requete[t].doc # r.doc)
      BY <1>1, <1>3, CommitSuivi
  <2> QED
      BY <1>3, <2>1, RequeteVide DEF LignesInv, RequeteSuivie
<1> QED
    BY <1>4, <1>6, <1>7, <1>10, <1>11, <1>12 DEF LignesInv

LEMMA GenererInv ==
    ASSUME LignesInv, NEW s \in Sessions, GenererAvoir(s)
    PROVE  LignesInv'
<1> DEFINE r == requete[s]
           N == Copiees(r.lues, dernierId)
<1>1. /\ r.op = "avoir" /\ r.doc = "facture" /\ etat["facture"] = "emise"
      /\ LignesJustes(r.lues) /\ r.totaux \in TotauxPossibles /\ dernierId \in Nat
      /\ dernierId + Cardinality(r.lues) <= MaxLignes
    BY RequeteTypee DEF GenererAvoir, RequeteSuivie
<1>2. /\ LignesJustes(N) /\ Cardinality(r.lues) \in Nat
      /\ \A l \in N : l.id > dernierId /\ l.id <= dernierId + Cardinality(r.lues)
      /\ \A l \in N : l.doc = "avoir"
      /\ \E h \in Bijection(r.lues, N) : \A l \in r.lues : h[l].article = Oppose(l.article)
    BY <1>1, CopieesJustes, CopieesDeLAvoir
<1>3. /\ etat["avoir"] = "absente" /\ etat' = [etat EXCEPT !["avoir"] = "brouillon"]
      /\ lignes' = lignes \cup N
      /\ dernierId' = dernierId + Cardinality(r.lues)
      /\ totaux' = [totaux EXCEPT !["avoir"] = TotauxOpposes(r.totaux)]
      /\ Committer(s, "avoir") /\ retouche' = retouche
      /\ "avoir" \in Documents /\ "facture" \in Documents
    BY DEF GenererAvoir, Documents
<1> HIDE DEF N
<1>4. LignesJustes(lignes') /\ \A l \in lignes' : l.id <= dernierId'
  <2>1. LignesJustes(lignes) /\ \A l \in lignes : l.id <= dernierId
      BY DEF LignesInv
  <2>2. LignesJustes(lignes \cup N)
      BY <1>1, <1>2, <2>1, UnionJuste
  <2>3. \A l \in lignes : l.id \in Int
      BY <2>1, HypLignes DEF LignesJustes, LignesPossibles, Ids
  <2>4. ASSUME NEW l \in lignes'
        PROVE  l.id <= dernierId'
    <3>1. l \in lignes \/ l \in N
        BY <1>3
    <3> QED
        BY <1>1, <1>2, <1>3, <2>1, <2>3, <3>1
  <2> QED
      BY <1>3, <2>2, <2>4
<1>5. /\ etat'["facture"] = "emise" /\ etat'["avoir"] = "brouillon"
      /\ etat' \in [Documents -> {"absente", "brouillon", "emise"}]
    BY <1>1, <1>3 DEF LignesInv, TypeOK, Documents
<1>6. TypeOK'
  <2>1. dernierId' \in 0..MaxLignes
      BY <1>1, <1>2, <1>3, HypLignes
  <2>2. lignes' \subseteq LignesPossibles /\ \A k, l \in lignes' : k.id = l.id => k = l
      BY <1>4 DEF LignesJustes
  <2>3. totaux' \in [Documents -> TotauxPossibles]
      BY <1>1, <1>3 DEF LignesInv, TypeOK, TotauxOpposes, TotauxPossibles
  <2> QED
      BY <1>3, <1>5, <2>1, <2>2, <2>3, CommitSuivi DEF LignesInv, TypeOK
<1>7. LectureInv'
    BY LectureEtape DEF LignesInv, Next
<1>8. LignesDe("facture")' = LignesDe("facture") /\ LignesDe("avoir")' = N
    BY <1>2, <1>3 DEF LignesDe, LignesInv, AvoirSuivi
<1>9. ASSUME ~croise'
      PROVE  ~croise /\ r.lues = LignesDe("facture") /\ r.totaux = totaux["facture"]
    BY <1>1, <1>3, <1>9, CommitSuivi DEF LignesInv, LectureInv, LuExact
<1>10. AvoirSuivi'
  <2>1. ~croise' => LigneALigne'
      BY <1>2, <1>8, <1>9 DEF LigneALigne
  <2> QED
      BY <1>5, <2>1 DEF AvoirSuivi
<1>11. TotauxSansCourse'
  <2> SUFFICES ASSUME ~croise'
               PROVE  \A d \in Documents : totaux'[d] = Totaux(LignesDe(d)')
      BY DEF TotauxSansCourse
  <2>1. totaux'["facture"] = totaux["facture"] /\ totaux'["avoir"] = TotauxOpposes(totaux["facture"])
      BY <1>3, <1>9 DEF LignesInv, TypeOK
  <2>2. totaux["facture"] = Totaux(LignesDe("facture"))
      BY <1>3, <1>9 DEF LignesInv, TotauxSansCourse
  <2>3. Totaux(N) = TotauxOpposes(Totaux(r.lues))
    <3>1. PICK h \in Bijection(r.lues, N) : \A l \in r.lues : h[l].article = Oppose(l.article)
        BY <1>2
    <3>2. \A l \in r.lues : h[l] \in N
        BY DEF Bijection, Injection
    <3>3. \A l \in r.lues : h[l].ht = -l.ht /\ h[l].tva = -l.tva
        BY <1>1, <1>2, <3>1, <3>2, LigneCreditee DEF LignesJustes, LignesPossibles
    <3> QED
        BY <1>1, <1>2, <3>3, TotauxCredites DEF LignesJustes
  <2>4. totaux'["facture"] = Totaux(LignesDe("facture")') /\ totaux'["avoir"] = Totaux(LignesDe("avoir")')
      BY <1>8, <1>9, <2>1, <2>2, <2>3
  <2> QED
      BY <2>4 DEF Documents
<1>12. ASSUME NEW t \in Sessions
       PROVE  RequeteSuivie(t)'
  <2>1. \/ requete'[t] = SansRequete /\ ~seul'[t]
        \/ requete'[t] = requete[t] /\ (seul'[t] => seul[t])
      BY <1>3, CommitSuivi
  <2>2. etat["facture"] = "emise" => etat'["facture"] = etat["facture"]
      BY <1>5
  <2> QED
      BY <1>1, <1>5, <2>1, <2>2, RequeteVide DEF LignesInv, RequeteSuivie
<1> QED
    BY <1>4, <1>6, <1>7, <1>10, <1>11, <1>12 DEF LignesInv

LEMMA LignesInit == Init => LignesInv
<1> SUFFICES ASSUME Init PROVE LignesInv
    OBVIOUS
<1>1. PICK P \in Listes : /\ Cardinality(P) <= MaxLignes
                          /\ lignes = Inserees(P, "facture", 0) /\ dernierId = Cardinality(P)
    BY DEF Init
<1>2. P \in Saisies /\ "facture" \in Documents /\ "avoir" \in Documents
    BY DEF Saisies, Documents
<1>3. /\ Cardinality(P) \in Nat
      /\ LignesJustes(lignes) /\ \A l \in lignes : l.id <= dernierId /\ l.doc = "facture"
  <2>1. IsFiniteSet(P) /\ Cardinality(P) \in Nat
    <3>1. P \subseteq 1..Len(Articles) /\ Len(Articles) \in Nat
        BY HypArticles DEF Listes
    <3>2. IsFiniteSet(1..Len(Articles))
        BY <3>1, FS_Interval
    <3>3. IsFiniteSet(P)
        BY <3>1, <3>2, FS_Subset
    <3> QED
        BY <3>3, FS_CardinalityType
  <2>2. 0 + Cardinality(P) = Cardinality(P) /\ 0 \in Nat
      BY <2>1
  <2>3. /\ LignesJustes(Inserees(P, "facture", 0))
        /\ \A l \in Inserees(P, "facture", 0) : l.id <= 0 + Cardinality(P)
      BY <1>1, <1>2, <2>2, InsereesJustes
  <2> QED
      BY <1>1, <2>1, <2>2, <2>3, InsereesDuDocument
<1>4. \A d \in Documents : LignesJustes(LignesDe(d)) /\ Totaux(LignesDe(d)) \in TotauxPossibles
  <2>1. \A d \in Documents : LignesJustes(LignesDe(d))
      BY <1>3, PartieJuste DEF LignesDe
  <2> QED
      BY <2>1, TotauxEntiers DEF LignesJustes
<1>5. TypeOK
  <2>1. lignes \subseteq LignesPossibles /\ \A k, l \in lignes : k.id = l.id => k = l
      BY <1>3 DEF LignesJustes
  <2>2. totaux \in [Documents -> TotauxPossibles]
      BY <1>4 DEF Init
  <2>3. dernierId \in 0..MaxLignes
      BY <1>1, <1>3, HypLignes
  <2> QED
      BY <2>1, <2>2, <2>3, RequeteVide DEF Init, TypeOK
<1>6. LignesDe("avoir") = {}
    BY <1>3 DEF LignesDe
<1>7. AvoirSuivi
    BY <1>2, <1>6 DEF Init, AvoirSuivi
<1>8. TotauxSansCourse
    BY DEF Init, TotauxSansCourse
<1>9. \A s \in Sessions : RequeteSuivie(s)
    BY RequeteVide DEF Init, RequeteSuivie
<1> QED
    BY <1>3, <1>5, <1>7, <1>8, <1>9, LectureInit DEF LignesInv

LEMMA LignesEtape == LignesInv /\ [Next]_vars => LignesInv'
<1> SUFFICES ASSUME LignesInv, [Next]_vars PROVE LignesInv'
    OBVIOUS
<1>1. CASE UNCHANGED vars
  <2>1. LectureInv'
      BY LectureEtape DEF LignesInv
  <2>2. \A d \in Documents : LignesDe(d)' = LignesDe(d)
      BY <1>1 DEF LignesDe, vars
  <2>3. TypeOK' /\ TotauxSansCourse' /\ \A s \in Sessions : RequeteSuivie(s)'
      BY <1>1, <2>2 DEF LignesInv, TypeOK, TotauxSansCourse, RequeteSuivie, vars
  <2>4. AvoirSuivi'
      BY <1>1, <2>2 DEF LignesInv, AvoirSuivi, LigneALigne, vars, Documents
  <2> QED
      BY <1>1, <2>1, <2>3, <2>4 DEF LignesInv, vars
<1> QED
    BY <1>1, RecevoirInv, ModifierInv, ValiderInv, GenererInv, AbandonnerInv DEF Next

LEMMA Invariance == Spec => []LignesInv
    BY LignesInit, LignesEtape, PTL DEF Spec

-----------------------------------------------------------------------------
(* Theorems *)

\* The variables keep their types: totals are integers of cents, ids of lines are
\* distinct, for any number of requests, articles and lines.
THEOREM TypesCorrects == Spec => []TypeOK
<1>1. LignesInv => TypeOK
    BY DEF LignesInv
<1> QED
    BY <1>1, Invariance, PTL

\* The three totals are the sums of the lines as long as no two requests on one
\* document cross (service.py:41-110, 241-243).
THEOREM TotauxJustes == Spec => []TotauxSansCourse
<1>1. LignesInv => TotauxSansCourse
    BY DEF LignesInv
<1> QED
    BY <1>1, Invariance, PTL

\* A credit note, generated or entered again line by line, cancels its original to
\* the cent (service.py:84-93, 603-627), whatever articles are sold.
THEOREM AvoirAnnule == Spec => []AvoirSolde
<1>1. LignesInv => AvoirSolde
  <2> SUFFICES ASSUME LignesInv, ~croise, etat["avoir"] # "absente", LigneALigne
               PROVE  totaux["avoir"] = TotauxOpposes(totaux["facture"])
      BY DEF LignesInv, AvoirSuivi, AvoirSolde
  <2>1. LignesJustes(LignesDe("facture")) /\ LignesJustes(LignesDe("avoir"))
      BY PartieJuste DEF LignesInv, LignesDe
  <2>2. PICK h \in Bijection(LignesDe("facture"), LignesDe("avoir")) :
            \A l \in LignesDe("facture") : h[l].article = Oppose(l.article)
      BY DEF LigneALigne
  <2>3. \A l \in LignesDe("facture") : h[l] \in LignesDe("avoir")
      BY DEF Bijection, Injection
  <2>4. \A l \in LignesDe("facture") : h[l].ht = -l.ht /\ h[l].tva = -l.tva
      BY <2>1, <2>2, <2>3, LigneCreditee DEF LignesJustes, LignesPossibles
  <2>5. Totaux(LignesDe("avoir")) = TotauxOpposes(Totaux(LignesDe("facture")))
      BY <2>1, <2>4, TotauxCredites DEF LignesJustes
  <2> QED
      BY <2>5 DEF LignesInv, TotauxSansCourse, Documents
<1> QED
    BY <1>1, Invariance, PTL
=============================================================================
