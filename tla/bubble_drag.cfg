SPECIFICATION Spec
CONSTANTS
    NodeIds <- MCNodeIds
    LinkIds <- MCLinkIds
    Attrs = {1, 2}
    Values = {1, 2}
    Coords = {1, 2}
    Central = {1}
    MaxObjects = 3
    MaxTouches = 2
    MaxDrags = 5
    Snapshots <- Few
INVARIANT TypeOK
INVARIANT PinsAreHeld
INVARIANT RunsUnlessCooled
INVARIANT ElementsMatchStore
