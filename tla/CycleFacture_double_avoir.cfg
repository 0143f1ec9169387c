SPECIFICATION Spec
CONSTANTS
    e1 = e1
    c1 = c1
    s1 = s1
    s2 = s2
    Aucun = Aucun
    Inchange = Inchange
    MaxId = 3
    Entreprises = {e1}
    Clients = {c1}
    Types = {"facture"}
    Sessions = {s1, s2}
    Droits <- DroitsAvoir
    MaxMois = 1
    BASE = 10
    PLAFOND = 9999
INVARIANTS
    UnSeulAvoirParFacture
CHECK_DEADLOCK FALSE
