SPECIFICATION Spec
CONSTANTS
    Requetes = {r1, r2}
    MaxPosts = 4
    MaxEvenements = 2
INVARIANTS
    TypeOK
    UnSeulDepot
    DepotTrace
    ChaineEvenements
    ErreurRetransmissible
PROPERTIES
    Repond
CHECK_DEADLOCK FALSE
