CONSTANTS
    switcher = switcher
    marker = marker
    User <- TwoUsers
    Last = 2
    Value = {"a", "b"}
    Factory <- AllA
    Edits <- Marks
SPECIFICATION DiskSpec
PROPERTIES
    CommitShown
    TableRecovers
