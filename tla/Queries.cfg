SPECIFICATION FairSpec
CONSTANTS
    Lanes = {"sdp", "control"}
    SdpAsks = {"record", "more", "search", "attribute", "other"}
    FeatureAsks = {"calibration"}
    MaxAsks = 2
    MaxUsbAsks = 1
    MaxPadLinks = 1
    MaxConsoleLinks = 2
INVARIANTS AnswersInOrder
PROPERTIES NeverEmptyOnceHeard QuestionsAnswered
CHECK_DEADLOCK FALSE
