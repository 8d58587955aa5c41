SPECIFICATION Spec
CONSTANTS
    Process = {p1, p2}
    Address = {"alice@x"}
    Lower <- MCLower
    Passphrase = {"correct horse", "short"}
    LongEnough = {"correct horse"}
    Odd <- MCOdd
    BackupOf <- MCBackupOf
    MaxRuns = 3
    MaxFaults = 1
SYMMETRY Symmetry
INVARIANTS
    TypeOK
    NeverTorn
    NoStrayKeygen
    LoadIsExact
PROPERTIES
    StaysInPlace
CHECK_DEADLOCK FALSE
