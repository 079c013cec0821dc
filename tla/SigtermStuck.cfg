\* The claim that a SIGTERM flips the flag a polling source looks at.
SPECIFICATION FairSpec
CONSTANTS
    HasRedis = TRUE
    MaxRecords = 2
CHECK_DEADLOCK FALSE
PROPERTIES
    SigtermFlipsFlag
