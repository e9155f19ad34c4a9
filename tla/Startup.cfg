\* A card on IRQ 5 or on IRQ 9 (or 2), INT 60h as the software vector.
CONSTANTS
    Hardware = {5, 9}
    Software = {96}
SPECIFICATION Spec
CHECK_DEADLOCK FALSE
INVARIANTS
    MasksRestored
    HandlerInv
    Deliverable
PROPERTY
    MemoryOutlivesCard
