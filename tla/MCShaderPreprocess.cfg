SPECIFICATION Spec
CONSTANTS
    Disks <- MCDisks
    Texts <- MCTexts
    Paths <- MCPaths
    MaxOpen = 2
INVARIANTS TypeOK ExpansionIsFlattening PreparedInOrder
PROPERTY CallsReturn
