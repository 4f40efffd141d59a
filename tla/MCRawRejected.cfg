\* Uploads answered by a gateway, with statuses that RetryOnStatuses does not name.
CONSTANTS
    Attempts = 1
    SchemaFiles = 1
    Companies = {"own"}
SPECIFICATION Spec
INVARIANT RejectedNotLanded
CHECK_DEADLOCK FALSE
