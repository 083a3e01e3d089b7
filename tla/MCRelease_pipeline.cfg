SPECIFICATION Spec
CONSTANTS
    Last = 2
    DocsOnly = {2}
    Tag = {t1, t2, t3}
    MaxRuns = 4
    MaxAccepted = 2
    None = None
SYMMETRY Symmetry
CHECK_DEADLOCK FALSE
INVARIANTS
    TypeOK
    SchemaCoversUnlessMixed
    LastSuccessIsServed
    RollbackIsReviewed
PROPERTIES
    ImplementsReleaseLog
