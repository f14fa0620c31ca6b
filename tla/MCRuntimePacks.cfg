CONSTANTS
    Calls = {c1, c2}
    Roots <- MCRoots
    Folders <- MCFolders
    MaxStamp = 1
    Absent = Absent
    Torn = Torn
    HostRoot = HostRoot
    NoVersion = NoVersion
    NoSdk = NoSdk
    NoRid = NoRid
    PublicKey = "nuget.org"
    PublicSource = "feed 0"
    DefaultFolder = "packages"
    Unset = Unset
    Undecided = Undecided
    Up = ".."
    LowerCase <- MCLowerCase
    Alphabet <- MCAlphabet
    SourceNames <- MCSourceNames
    OutputNames <- MCOutputNames
    Core = "core"
    Prunable <- MCPrunable
    Standard = "standard"
    Worlds <- MCWorlds
SPECIFICATION PlanSpec
INVARIANTS
    InventoriesTrue
    PlansFresh
    SelectionFits
    ConfigurationMerged
    SourcesFit
    ClosureFits
    FrameworksFit
SYMMETRY MCSymmetry
CHECK_DEADLOCK FALSE
