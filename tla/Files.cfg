SPECIFICATION Spec
CONSTANTS
    Pipe = {p1, p2}
    Pty = {t1}
    FileSize = 1
    Word = 4
    MaxFds = 5
    MaxBytes = 1
    MaxLost = 1
SYMMETRY Symmetry
CHECK_DEADLOCK FALSE
INVARIANTS DescriptorsExact PipeEndsExact
PROPERTIES DescriptorsStable
