SPECIFICATION TableSpec
CONSTANTS
    Keys = {"x", "x1", "y"}
    Holders = {1, 2, 3, 4}
INVARIANTS TableTypeOK OneNamePerHolder
