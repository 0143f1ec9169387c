SPECIFICATION Spec
CONSTANTS
    e1 = e1
    e2 = e2
    c1 = c1
    c2 = c2
    s1 = s1
    s2 = s2
    Aucun = Aucun
    Inchange = Inchange
    MaxId = 2
    Entreprises = {e1, e2}
    Clients = {c1, c2}
    Types = {"facture", "avoir"}
    Sessions = {s1, s2}
    Droits <- DroitsCycle
    MaxMois = 1
    BASE = 10
    PLAFOND = 9999
INVARIANTS
    TypeOK
    SerieContinue
    OrigineEmise
    AvoirLieEnSerieAvoir
    AvoirFigeCommeOrigine
PROPERTIES
    RegistreLegal
CHECK_DEADLOCK FALSE
