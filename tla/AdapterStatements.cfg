\* Mutations of one row by three clients, and each predicate by one.
SPECIFICATION Spec
CONSTANTS
    Gone = Gone
    Null = Null
    Free = Free
    MaxOthers = 1
    Clients <- MCClients
    Rows <- MCRows
    Worlds <- MCWorlds
    NonNullable <- MCNonNullable
    Includes <- MCIncludes
    IncludesInsensitive <- MCIncludesInsensitive
    Selects <- MCSelects
    Compiled <- CompiledMatches
    Evaluation <- MemoryTruth
    Compilation <- SqlTruth
INVARIANTS
    WritesAreConditional
    PredicatesAgree
PROPERTIES
    MutationsAreAtomic
