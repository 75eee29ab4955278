SPECIFICATION Spec
CONSTANTS
    Values = {v1}
    None = None
    Forms = {f1, f2}
    Members = {}
    Editors = {}
    Sections = {labels, domains}
    Saves = {}
    Channels = {c1, c2}
CHECK_DEADLOCK FALSE
INVARIANTS TypeOK
           SettingsInv
PROPERTIES FormsKeepTheRest
           EditsKeepTheRest
