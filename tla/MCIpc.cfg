SPECIFICATION IpcSpec
CONSTANTS
    MAX_MESSAGES = 3
    MSG_SIZE = 3
    Texts <- MCTexts
INVARIANTS SlotsApart
PROPERTIES ImplementsFifo
