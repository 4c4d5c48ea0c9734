\* Two edits, one of which may move the toolchain pin, and one generator around `just vv`.
SPECIFICATION Spec
CONSTANTS
    wasm = wasm
    scratch = scratch
    a = a
    b = b
    d = d
    Modules <- MCModules
    Owned <- MCOwned
    Marked <- MCMarked
    Contents <- MCContents
    Lines <- MCLines
    Markers <- MCMarkers
    Claims = {k1}
    BadClaims = malformed
    Toolchains = {t1, t2}
    Artifacts = {wasmgemm}
    MaxEdits = 2
    MaxGenerates = 1
INVARIANTS
    TypeOK
    QuietRunIsSound
    OnePassSuffices
PROPERTY
    RefinesStaleness
