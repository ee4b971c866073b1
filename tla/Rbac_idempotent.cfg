\* Documented: granting and provisioning a role again changes nothing.
CONSTANTS
    Null = Null
    Dids = {"d1"}
    Roles = {"admin"}
    ScopeTypes = {"course"}
    ScopeIds = {"c1"}
    Admins <- OneAdmin
    Processes = {"p1"}
    Ttls = {1}
    MaxRows = 3
    MaxTime = 2
SPECIFICATION Spec
INVARIANT AssignmentsAreUnique
CHECK_DEADLOCK FALSE
