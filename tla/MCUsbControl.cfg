SPECIFICATION FairSpec
CONSTANTS
    Packet = 2
    Descriptors <- MCDescriptors
    LengthOf <- MCLengthOf
    Strings = {"string"}
    Codings = {"c1", "c2"}
    CodingLength = 2
    ReadLengths = {4, 6, 7}
INVARIANTS AnsweredRight InStep
PROPERTY Ends
