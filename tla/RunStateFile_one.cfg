SPECIFICATION Spec
CONSTANTS
    Runs = {r1}
    Readers = {q1, q2}
    MaxSaves = 3
    NoFile = NoFile
    Torn = Torn
PROPERTIES
    ImplementsStore
