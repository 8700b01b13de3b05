SPECIFICATION Spec
CONSTANTS
    ComponentNames <- MCComponentNames
    Versions <- MCVersions
    Dictionaries <- MCDictionaries
    Overrides <- MCOverrides
    SessionUsers <- MCSessionUsers
    Samples <- MCSamples
    Values <- MCValues
    MaxMistakes <- MCMaxMistakes
INVARIANTS
    ChecksRequiredFields
CHECK_DEADLOCK FALSE
