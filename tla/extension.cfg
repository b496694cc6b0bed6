SPECIFICATION FairSpec
CONSTANTS
    Order <- Two
    Menu = {"menu"}
    Popup = {"popup"}
    NoEnv = "nowhere"
    MaxChanges = 2
INVARIANTS
    ReportsTheTruth
    OnlyResultsFade
    CardTellsItsSave
PROPERTIES
    CardSettles
CHECK_DEADLOCK FALSE
