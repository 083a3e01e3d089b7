SPECIFICATION Spec
CONSTANTS
    Last = 3
    DocsOnly = {3}
    Tag = {t1, t2}
    MaxRuns = 2
    MaxAccepted = 2
    None = None
CHECK_DEADLOCK FALSE
INVARIANTS
    SchemaCoversApi
