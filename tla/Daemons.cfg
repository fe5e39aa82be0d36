SPECIFICATION FairSpec
CONSTANTS
    Daemon = {1, 2, 3}
    ShellLimit = 2
    PidLimit = 1
    Dir = {"home", "work", "url"}
    Address = {"url"}
    Home = "home"
    Encodable <- MCEncodable
    Absent = Absent
    Damaged = Damaged
    Fresh = Fresh
    Disabled = Disabled
    Unopened = Unopened
    Title = {"title"}
    TabLimit = 2
    Inode = {1, 2}
    Work = 2
CHECK_DEADLOCK FALSE
INVARIANTS
    FileIsWhole
    FileFollowsTabs
    HangUpsReachTheShell
PROPERTIES
    DamageIsKept
    ReplacementIsTried
