SPECIFICATION FairSpec
CONSTANTS
    Fixed = {fixed}
    Live = {live}
    SubmitFails = {TRUE, FALSE}
    MaxRequests = 2
    MaxStarts = 2
    MaxResets = 1
INVARIANTS BuffersAccountedFor Ep0LeftAlone AnswersTheRequest
PROPERTIES AnswersOnlyNewer GetReportsEnd OutKeepsReading
CHECK_DEADLOCK FALSE
