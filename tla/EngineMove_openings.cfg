\* Games of up to six plies over three moves a side, four preferences and a
\* catalogue of three codes, of which the style names two.
SPECIFICATION MoveSpec
CONSTANTS
    WhiteMove   = {"e4", "d4", "Nf3"}
    BlackMove   = {"c5", "d6", "e6"}
    Prefs       <- MCPrefs
    Catalog     <- MCCatalog
    Style       <- MCStyle
    CatalogFile = "read"
    MinWeight   = 2
    OpeningPly  = 4
    MaxWeight   = 3
    MultiPV     = 3
    Primary     = 2
    Weights     <- MCWeights
    MaxPly      = 6
    NoReply     = NoReply
INVARIANTS
    LegalReply
    ForcedHonoured
    
