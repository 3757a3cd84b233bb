SPECIFICATION FairSpec
CONSTANTS
    PadHandles = {p1}
    ConsoleHandles = {c1}
    NoLink = NoLink
    Strangers = {"pad", "console"}
    Refusals = {}
    PadFailures = {"timeout", "own radio"}
PROPERTIES SuppressionEnds 
