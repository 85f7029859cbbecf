SPECIFICATION Spec
CONSTANTS
    Root = Root
    Sections = {c1, c2}
    Tasks = {t1, t2}
    NoGate = NoGate
    NoSection = NoSection
CHECK_DEADLOCK FALSE
PROPERTIES
    NoLockFromBrokenGate
