CONSTANTS
    Definitions = {"d", "x"}
    Critical = {"d"}
    SchemaLines <- MCSchemaLines
    MaxSchemaLines = 5
    Decls <- MCDecls
    Required <- MCDecls
    Release = "release"
    AsksOf <- MCAsksOf
    Registries <- MCRegistries
    ModuleNames <- MCModuleNames
    Trees0 <- MCTrees
    Editable = {"authority", "artifact", "signatures", "sources", "schema"}
    SchemaEdits <- MCSchemaEdits
    ImportEdits <- MCImportEdits
    MaxEdits = 2

SPECIFICATION Spec

INVARIANTS
    TypeOK
    GreenReleaseIsProved
    EveryProvedClaimIsAudited
    BoundDefinitionsAreCompiled

PROPERTIES
    CleanEndCoversEveryRow
