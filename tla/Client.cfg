SPECIFICATION FairSpec
CONSTANTS
    Operation <- SomeCommands
    MaxNodes = 2
    MaxLinks = 6
INVARIANTS TypeOK LinksFollowChain LinksBounded
PROPERTIES CommandsReturn LinksCatchUp
CHECK_DEADLOCK FALSE
