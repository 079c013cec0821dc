\* The claim that a run that did not succeed is never reported as a success.
SPECIFICATION Spec
CONSTANTS
    HasRedis = TRUE
    MaxRecords = 2
CHECK_DEADLOCK FALSE
INVARIANTS
    RaisedIsNotSuccess
