SPECIFICATION BootSpec
CONSTANTS
    Irqs = {0, 1, 6}
    DriverAnswers = {0, 1}
INVARIANT NoneServed
PROPERTY LoopEnds
