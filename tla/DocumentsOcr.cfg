SPECIFICATION Spec
CONSTANTS
    Aucun = Aucun
    Documents = {d1}
    MaxBrouillons = 2
    MaxLivraisons = 2
    Webhooks = {w1, w2}
    Suppressions = {x1, x2}
INVARIANTS
    TypeOK
    FichierDuDocument
    BrouillonTrace
    ErreurSansBrouillon
PROPERTIES
    SortDAttente
CHECK_DEADLOCK FALSE
