SPECIFICATION Spec
CONSTANTS
    Magic <- Ops
    Values = {"0", "o", "p", "s", "x"}
    MaxBytes = 7
INVARIANTS FoundIsHeader CleanHeaderFound
