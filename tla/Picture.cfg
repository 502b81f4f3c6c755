\* Four tasks and one change to them, or three and two: breakdowns within
\* breakdowns, with an edge from outside.
SPECIFICATION Spec
CONSTANTS
    Labels = {"goal"}
    MaxNodes = 4
    MaxEdits = 2
    MaxSize = 5
    MaxChoices = 2
INVARIANTS
    TypeOK
    GoalsAreTheTiedNodes
    BandsFollowDependencies
    FoldingHidesNoDependency
    NothingVanishes
    RedStepStillShows
PROPERTIES
    TheWayDownIsOpen
