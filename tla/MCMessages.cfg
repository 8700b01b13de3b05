SPECIFICATION Spec
CONSTANTS
    ComponentNames <- MCComponentNames
    Versions <- MCVersions
    Dictionaries <- MCDictionaries
    Overrides <- MCOverrides
    SessionUsers <- MCSessionUsers
    Samples <- MCSamples
    Values <- MCValues
    MaxMistakes <- MCMaxMistakes
INVARIANTS
    CleanIffWellFormed
    NothingLost
    GroupsAgree
    ShownAsChecked
CHECK_DEADLOCK FALSE
