\* One or two files are uploaded, and two requests read a paper.  The bounds stop the system, so deadlock is not an error here.
SPECIFICATION FairSpec
CONSTANTS
    Shelves <- MCShelves
    Labels <- MCLabels
    Concurrency = 2
    MaxIngests = 2
INVARIANT TypeOK
INVARIANT MisfiledExplained
INVARIANT MarksOwn
INVARIANT PaperLostExplained
INVARIANT ReportHonest
INVARIANT LostPagesShow
INVARIANT EmptyDocumentExplained
PROPERTY UploadEnds
CHECK_DEADLOCK FALSE
