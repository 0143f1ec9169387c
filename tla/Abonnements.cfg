SPECIFICATION Spec
CONSTANTS
    s1 = s1
    s2 = s2
    gratuit = gratuit
    pro = pro
    u1 = u1
    u2 = u2
    Aucun = Aucun
    MaxSous = 3
    Plans = {gratuit, pro}
    Gratuit = gratuit
    Limite <- Limites
    Utilisateurs = {u1, u2}
    Fondateur = u1
    Sessions = {s1, s2}
    Profils <- ProfilsAccesQuota
    Longueurs <- MoisCourts
    PremierJour <- Veille
    DernierJour <- Surlendemain
    MaxProlongations = 1
CONSTRAINT SansCourse
INVARIANTS
    TypeOK
    UneSeuleActive
    EnServiceSansCourse
    ProlongationsComptees
    RepliPossible
PROPERTIES
    HistoriqueClos
    AjoutSousLimite
CHECK_DEADLOCK FALSE
