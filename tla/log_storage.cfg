\* Two cards, a log that is erased and downloaded and one that is neither, two
\* lines each.
CONSTANTS
    Cards = {internal, backup}
    Logs = {airdos, cpu}
    Erasable = {airdos}
    Downloadable = {airdos}
    FlushPeriod = 1
    MaxLines = 2
SPECIFICATION FairSpec
INVARIANTS
    CompleteCopies
    NoWriterDuringDownload
    EndMeansComplete
    EraseIsTruthful
PROPERTIES
    OnlyEraseDestroys
    LinesBecomeDurable
    TransferEnds
