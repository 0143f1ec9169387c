SPECIFICATION Spec
CONSTANTS
    Sessions = {s1, s2}
    Articles <- TroisArticles
    MaxLignes = 5
INVARIANTS
    TypeOK
    TotauxSansCourse
    AvoirSolde
PROPERTIES
    PatchIsoleRepare
