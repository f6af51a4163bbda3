SPECIFICATION Spec
CONSTANTS
    Roles <- AllRoles
    StackLimit = 3
INVARIANTS
    NothingMissing
    OnlyWhoMaySees
    ListsHoldNoDraft
PROPERTIES
    BackLeadsHome
