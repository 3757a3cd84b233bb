SPECIFICATION Spec
CONSTANTS
    PadHandles = {p1}
    ConsoleHandles = {c1, c2}
    NoLink = NoLink
    Strangers = {"console"}
    Refusals = {"exists", "other"}
    PadFailures = {"timeout", "own radio", "other"}
SYMMETRY Symmetry
INVARIANTS DeafOnlyUnderFlag EagerWhenUnlinked
PROPERTIES OneEndAuthenticates
