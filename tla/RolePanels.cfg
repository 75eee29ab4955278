SPECIFICATION FairSpec
CONSTANTS
    Roles = {r1}
    Members = {u1}
    Emojis = {e1, e2}
    Admins = {a1}
    MAX_PANEL_ITEMS = 2
    MaxPanels = 1
    MaxEdits = 2
    MaxChanges = 1
    MaxFaults = 1
CHECK_DEADLOCK FALSE
PROPERTIES UnrenderedIsRendered ReactionsAreHeard DeadPanelIsRemoved
