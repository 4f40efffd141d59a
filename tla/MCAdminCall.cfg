\* Every kind of method, over both transports, run three times.
CONSTANTS
    Attempts = 3
    SchemaFiles = 1
    Companies = {"own", "acting"}
SPECIFICATION Spec
INVARIANTS TypeOK KeyedOnce NilMeansDone  RefusalQuotable RejectedOrMisread
CHECK_DEADLOCK FALSE
