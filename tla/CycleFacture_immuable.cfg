SPECIFICATION Spec
CONSTANTS
    e1 = e1
    c1 = c1
    s1 = s1
    s2 = s2
    Aucun = Aucun
    Inchange = Inchange
    MaxId = 1
    Entreprises = {e1}
    Clients = {c1}
    Types = {"facture"}
    Sessions = {s1, s2}
    Droits <- DroitsEdition
    MaxMois = 1
    BASE = 10
    PLAFOND = 9999
PROPERTIES
    FactureValideeImmuable
CHECK_DEADLOCK FALSE
