CONSTANTS
    Lines <- MCLines
    MaxSource = 1
    MaxFragment = 1
    LeanLines <- MCLeanLines
    MaxLeanLines = 1
    Paths <- MCPaths
    Documents = {"doc"}
    Labels = {"r"}
    Source = "spec"
    Commits = {"c1", "c2"}
    Modules <- MCModules
    Decl <- MCDecl
    Files0 <- MCFiles
    Patch0 <- MCPatch
    Lean0 <- MCLean
    PatchEdits <- MCPatchEdits
    MarkEdits <- MCMarkEdits
    MaxEdits = 1

SPECIFICATION Spec

INVARIANTS
    NoMarkerOnAmended
