SPECIFICATION Spec
CONSTANTS
    MaxSends = 2
    MaxChunks = 2
    Pieces <- MCPieces
    Typed <- MCTyped
INVARIANTS TypeOK GenerationMatches StopHasASource OwnAnswers PayloadSettledAlone ParseAgrees
PROPERTIES FinishedIsFinal
