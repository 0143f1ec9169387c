SPECIFICATION Spec
CONSTANTS
    s1 = s1
    s2 = s2
    gratuit = gratuit
    pro = pro
    u1 = u1
    u2 = u2
    Aucun = Aucun
    MaxSous = 3
    Plans = {gratuit, pro}
    Gratuit = gratuit
    Limite <- Limites
    Utilisateurs = {u1}
    Fondateur = u1
    Sessions = {s1, s2}
    Profils <- ProfilsAcces
    Longueurs <- MoisCourts
    PremierJour <- Veille
    DernierJour <- Surlendemain
    MaxProlongations = 1
INVARIANTS
    EnServiceAbonnee
CHECK_DEADLOCK FALSE
