\* Two ground-station processes whose IDs repeat and wrap around; the board
\* resets, and datagrams are lost, copied and reordered at will.
CONSTANTS
    IdRange = 8
    FirstIds = {6, 7}
    MaxSessions = 2
    MaxCommands = 4
    OldTraffic = FALSE
SPECIFICATION FairSpec
INVARIANTS
    RanInOrder
    AnsweredHasRun
    StaleOnlyIfOvertaken
PROPERTIES
    AnswerComes
