SPECIFICATION Spec
CONSTANTS
    NodeIds <- MCNodeIds
    LinkIds <- MCLinkIds
    Attrs = {1, 2}
    Values = {1, 2}
    Coords = {1, 2}
    Central = {1}
    MaxObjects = 2
    MaxTouches = 0
    MaxDrags = 3
    Snapshots <- Retargeted
INVARIANT LinksBound
