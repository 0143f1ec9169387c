SPECIFICATION Spec
CONSTANTS
    Longueurs <- MoisInegaux
    Entreprises = {e1, e2}
    Saisies <- TroisSaisies
    Periodes <- DeuxPeriodes
    Devise = "EUR"
    Limite = 3
    MaxFactures = 2
    MaxCroisements = 1
    Melange = FALSE
    PremierJour <- Debut
    DernierJour <- Fin
SYMMETRY Symetrie
CONSTRAINT VoisinesPareilles
INVARIANTS
    TypeOK
    ReponseCoherente
    AvoirsNeutralises
PROPERTIES
    PeriodeCloseFigee
