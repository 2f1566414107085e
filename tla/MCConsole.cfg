SPECIFICATION Spec
CONSTANTS
    Size = 3
    Chars = {"!", "1", "a"}
    Names <- MCNames
    QuitLine <- MCQuitLine
    Bang = "!"
    Number <- MCNumber
    MaxLine = 3
    Depth = 3
INVARIANTS
    TypeOK
    RingTypeOK
    ReadsInOrder
PROPERTIES
    SessionSpec
