SPECIFICATION Spec
CONSTANTS
    Person = {"alice", "bob", "carol"}
    Reader = "bob"
    Address <- MCAddress
    Spelled <- MCSpelled
    Lower <- MCLower
    Strangers <- MCStrangers
    Subject = {"hello", "too long"}
    MaxSealed = 2
    MaxDamage = 1
CHECK_DEADLOCK FALSE
INVARIANTS
    OpensOnlyAsSealed
    EachLayerBinds
    UndamagedIsRead
    
