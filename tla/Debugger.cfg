SPECIFICATION Spec
CONSTANTS
    Lines = {1, 2}
    MaxHits = 2
INVARIANT TypeOK
INVARIANT OneResumeEach
PROPERTY Honoured
PROPERTY LooksAtTheStop
PROPERTY ComesToAnEnd
