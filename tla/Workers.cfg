SPECIFICATION FairSpec
CONSTANTS
    Programs = {p1, p2}
    Tasks = {check}
    Timed = {}
    Streams = {s1}
    Workers = 3
    QueueSize = 1
    Console = console
    MaxLines = 1
    MaxSteps = 2
INVARIANTS OwnOutput ConsoleBack StreamWhole
PROPERTY Served
CHECK_DEADLOCK FALSE
