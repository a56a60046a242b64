CONSTANTS
    User = User
    Post = Post
    View = View
    N = 3
    Model <- Models3
    Name <- NamesShared
    NoName = NoName
    Asked <- AskedNothing
    OwnName <- OwnNames3
    PackageDAO = "DAO"
    Indices <- Indices3
    KeyStructs <- KeyStructs3
    MaxEdits = 0
    MaxCrashes = 0
SPECIFICATION FairSpec
INVARIANTS
    SharedDaoBuilds
