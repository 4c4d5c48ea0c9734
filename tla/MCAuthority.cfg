CONSTANTS
    Lines <- MCLines
    MaxSource = 4
    MaxFragment = 2
    LeanLines <- MCLeanLines
    MaxLeanLines = 4
    Paths <- MCPaths
    Documents = {"doc"}
    Labels = {"r"}
    Source = "spec"
    Commits = {"c1", "c2"}
    Modules <- MCModules
    Decl <- MCDecl
    Files0 <- MCFiles
    Patch0 <- MCPatch
    Lean0 <- MCLean
    PatchEdits <- MCPatchEdits
    MarkEdits <- MCMarkEdits
    MaxEdits = 2

SPECIFICATION Spec

INVARIANTS
    TypeOK
    LiteralsPinTheTree
    AmendedSourceIsPinned
    PinnedMarkersStayOut
    AppliedPatchIsRefused
    ReadersAgree
