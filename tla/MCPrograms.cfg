SPECIFICATION ProgramsSpec
CONSTANTS
    MAX_PROCESSES = 4
    FileNames = {"x", "y", "toolong"}
    LongNames = {"toolong"}
    Contents = {"", "d", "e", "toolong"}
    LongContents = {"toolong"}
    NoContent = ""
    MAX_FILES = 3
    Letters = {"a"}
    BufferSize = 8
    ArgMax = 3
    Cpm <- MCCpm
    CpmInit <- MCInit
    CpmInstall <- MCInstall
    Languages = 3
    Found = {0, 1, 2, 3}
    MAX_OS_DETECTED = 2
    AppNames = {"p", "q", "r"}
    MaxObjects = 4
INVARIANTS DeadStayDead ReadsBack WholeUnlessFailed InitOnce
PROPERTIES EveryoneRuns WhatYouType
