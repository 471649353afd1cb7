SPECIFICATION LibrarySpec
CONSTANTS
    NoTerm = NoTerm
    Unset <- MCUnset
    Fields <- MCFields
    Values <- MCValues
    Lower <- MCLower
    Terms <- MCTerms
    Score <- MCScore
    Databases <- MCDatabases
    Libraries <- MCLibraries
    Queries <- MCQueries
    Texts <- MCTexts
    Lists <- MCLists
INVARIANTS DrillDownComplete CountsRight CapOnEnabledKinds HitsLeadSomewhere
    MpdUnderstands DumpFaithful BrowseFaithful ListsComplete
