\* The acting company and the routes that never name it.
CONSTANTS
    Attempts = 2
    SchemaFiles = 1
    Companies = {"own", "acting"}
SPECIFICATION Spec
INVARIANT CompanyTargeted
CHECK_DEADLOCK FALSE
