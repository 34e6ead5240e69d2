SPECIFICATION Spec
CONSTANTS
    MaxDataBytes = 3
    MaxUploadFrames = 3
    MaxRequestBytes = 4
    MaxResponseBytes = 5
    BufferLimit = 9
    MaxInFlight = 3
    Calls <- MCCalls
INVARIANTS
    UploadFaithful
    
    CompletionHonest
    AcceptsService
    DiagnosticsHonest
    BufferCovered
CHECK_DEADLOCK FALSE
