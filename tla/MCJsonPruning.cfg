SPECIFICATION Spec
CONSTANTS
    Table <- MCTable
    Lexicon <- MCLexicon
    Stores <- MCStores
    Inputs <- MCJsonInputs
    LikePairs <- MCLikePairs
    MaxDepth = 6
INVARIANT PruningIsSound
