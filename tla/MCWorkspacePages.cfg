SPECIFICATION Spec
CONSTANTS
    w1 = w1
    w2 = w2
    a1 = a1
    a2 = a2
    Workspaces <- MCWorkspaces
    Accounts <- MCAccounts
    Pages <- MCPages
    RoleIn <- MCRoleIn
    FeaturesOf <- MCFeaturesOf
    Queries = {1, 2}
    FirstLists <- MCFirstLists
    MaxCalls = 2
    MaxEvents = 2
INVARIANTS
    TypeOK
    PanelsAreCurrent
    StoreIsOfAccount
CHECK_DEADLOCK FALSE
