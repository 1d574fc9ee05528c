SPECIFICATION FairSpec
CONSTANTS
    SaverAt <- MCSaverAt
    EmergencyAt <- MCEmergencyAt
    Margin <- MCMargin
    Levels <- MCLevels
    RecoveryDuration = 2
INVARIANT
    PressureAnswered
PROPERTIES
    RecoveryIsSustained
    SettlesWhereItFell
    ReliefEndsInNormal
