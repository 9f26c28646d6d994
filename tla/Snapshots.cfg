SPECIFICATION SnapshotSpec
CONSTANTS
    Trees = {t1}
    SharedTrees = {t1}
    TreeFiles = {f1}
    SnapInodes = {d1, d2, d3}
    NoFile = NoFile
    Snaps = {s1}
    Restorers = {r1}
    MaxVersion = 3
CHECK_DEADLOCK FALSE
INVARIANT SnapshotReadOnly
