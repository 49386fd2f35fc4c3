\* Four rounds, two of them before the switch; the sizes lie on either side of the
\* executor's own minimum of 10. The counts have all three patterns, or only the last.
CONSTANTS
    NumRounds = 4
    TestModes = {"small", "medium", "complex", "mixed"}
    MinBatches = {5}
    BlockSize = 11
    Sizes = {9, 12}
    Requests = {1, 12}
SPECIFICATION ProgramSpec
INVARIANTS ThresholdsAgree FirstHalfOff CirclesClose CountsAddUp
