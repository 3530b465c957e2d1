SPECIFICATION Spec
CONSTANTS
    MaxRequests = 4
    ExportSize = 4
    MAX_REQUEST_LEN = 2
    Areas <- AreasValue
INVARIANTS StreamInStep DurableOnClose ExtentsCover
PROPERTY CallsEnd
CHECK_DEADLOCK FALSE
