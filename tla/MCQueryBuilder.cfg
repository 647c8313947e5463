CONSTANTS
    Table = "users"
    Columns <- MCColumns
    Operators <- MCOperators
    Values <- MCValues
    Numbers <- MCNumbers
    MaxClauses = 2
    None = None
SPECIFICATION Spec
INVARIANTS
    TypeOK
    BuildRoundTrip
    PlaceholdersBindParams
CHECK_DEADLOCK FALSE
