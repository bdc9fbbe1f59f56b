SPECIFICATION Spec
CONSTANTS
    Table <- MCTable
    Lexicon <- MCLexicon
    Stores <- MCStores
    Inputs <- MCInputs
    LikePairs <- MCLikePairs
    MaxDepth = 6
INVARIANTS AnswerIsReference PruningIsSound ReadsWithinBudget NoInternalError TruncationIsReported QuestionIsUnderstood
PROPERTIES WorkRunsOut
