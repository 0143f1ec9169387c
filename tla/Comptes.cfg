SPECIFICATION Spec
CONSTANTS
    s1 = s1
    s2 = s2
    racine = racine
    a = a
    b = b
    Aucun = Aucun
    Utilisateurs = {racine, a, b}
    Racine = racine
    Fondateurs = {a, racine}
    Modifications <- ModificationsTC
    MaxJetons = 2
    Sessions = {s1, s2}
    Profils <- ProfilsTous
INVARIANTS
    TypeOK
    AdminPresent
    RienSansEntreprise
    UnSeulLien
PROPERTIES
    EquipeAdministree
    LienMortInutile
CHECK_DEADLOCK FALSE
