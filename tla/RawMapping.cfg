SPECIFICATION Spec
CONSTANTS
    Handles = {h1}
    Platforms = {"linux", "bsd", "windows", "other"}
    FileLens <- MCFileLens
    Offsets <- MCOffsets
    Lens <- MCLens
    Starts <- MCStarts
    Stores <- MCStores
    Counts <- MCCounts
    Bases <- MCBases
    Foreign <- MCForeign
    Page = 2
    Gran = 4
    Huge = 4
    UMax = 15
    None = None
INVARIANTS ExactlyOwned WindowExact ProtectionMatches SpanContract FlushDurable PrivateKept LockCovers
