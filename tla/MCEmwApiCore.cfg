SPECIFICATION FairSpec
CONSTANTS
    Users = {u1, u2}
    NoUser = NoUser
INVARIANTS
    TypeOK
    CountIsExact
    OpenIsUsable
    HoldersNeverUseDead

    
