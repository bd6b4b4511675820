SPECIFICATION RingSpec
CONSTANTS
    Tasks = {t1, t2, t3, t4}
    NoTask = none
INVARIANTS RingWhole
PROPERTIES EveryTurnComes
