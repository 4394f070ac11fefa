SPECIFICATION Spec
CONSTANTS
    NodeIds <- MCNodeIds
    LinkIds <- MCLinkIds
    Attrs = {1, 2}
    Values = {1, 2}
    Coords = {1, 2}
    Central = {1}
    MaxObjects = 3
    MaxTouches = 1
    MaxDrags = 4
    Snapshots <- WithDangling
INVARIANT RunsUnlessCooled
