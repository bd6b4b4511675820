SPECIFICATION RingSpec
CONSTANTS
    Tasks = {t1, t2}
    NoTask = none
PROPERTIES TasksRun
