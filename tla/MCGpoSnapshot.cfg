SPECIFICATION SnapshotSpec
CONSTANTS
    Files = {"GPT.INI", "scripts.ini", "Registry.pol"}
    GptIni = "GPT.INI"
    ScriptsFiles = {"scripts.ini"}
    SystemFiles = {"GPT.INI", "scripts.ini"}
    Planned = {"Registry.pol"}
    MaxVersion = 2
    Content <- MCContent
    Length <- MCLength
    VersionNumber <- MCVersionNumber
    GptNumber <- MCGptNumber
    HalfMask = 1
INVARIANTS
    MatchedPassesAreOneMoment
    AgreeingVersionsAreOneMoment
PROPERTY IsObservation
CHECK_DEADLOCK FALSE
