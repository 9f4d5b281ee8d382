SPECIFICATION Spec
CONSTANTS
    NoGate = NoGate
INVARIANTS
    PausesHold
    UnitsCurrent
    EditedInOrder
    EditedPauseForgotten
    ShippedSealed
PROPERTIES
    ShippedSettles
