CONSTANTS
    User = User
    Post = Post
    View = View
    N = 3
    Model <- Models3
    Name <- Names3
    NoName = NoName
    Asked <- AskedOne
    OwnName <- OwnNames3
    PackageDAO = NoName
    Indices <- Indices3
    KeyStructs <- KeyStructs3
    MaxEdits = 2
    MaxCrashes = 1
SPECIFICATION FairSpec
INVARIANTS
    TypeOK
    TwoPassesBuild
    ThirdPassChangesNothing
PROPERTIES
    ComesToBuild
