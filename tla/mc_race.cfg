\* Two validators; four submissions against five rounds.
CONSTANTS
    NumValidators = 2
    BlockSize = 1
    NumTransactions = 4
    NumRounds = 5
SPECIFICATION Spec
INVARIANTS SubmissionOrder OneCopyPerProposal
