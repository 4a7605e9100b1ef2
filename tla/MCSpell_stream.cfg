SPECIFICATION Spec
CONSTANTS
    Char <- Letters
    Inputs <- Texts
    MaxInput = 6
    Separator = {" "}
    Upper = {"A"}
    Lower <- LowerCase
    Dictionary <- Lines
    LastNewline = TRUE
    Hash <- TwoBits
    MAX_LENGTH = 3
    READ_BUFFER = 3
    OUT_BUFFER = 7
INVARIANTS
    TypeOK
    FiltersStream
    KnownWordsPass
    TameInputStaysInBuffers
