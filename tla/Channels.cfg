SPECIFICATION ChannelsFairSpec
CONSTANTS
    Sides = {"pad", "console"}
    Handles = {h1, h2}
    NoLink = NoLink
    Closes = {"records"}
    Refuses = {"interrupt"}
    Asks = {{"control", "interrupt"}, {"sdp"}}
    MaxUps = 2
    MaxInbox = 1
INVARIANTS ChannelsOfThisLink OneChannelPerPsm
PROPERTY ChannelsComeUp
CHECK_DEADLOCK FALSE
