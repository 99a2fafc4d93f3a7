SPECIFICATION Spec
CONSTANTS
    manager = manager
    processor = processor
    Emitter = {manager, processor}
    MaxEvents <- MCMaxEvents
    Player = {p1, p2}
    None = none
INVARIANTS NoLostWakeup DeliveredInOrder ResumesOnlyOurs StoppedRemembered
PROPERTY EventuallyDelivered
CHECK_DEADLOCK FALSE
