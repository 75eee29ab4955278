SPECIFICATION Spec
CONSTANTS
    Users = {owner}
    Owner = owner
    Messages = {m1}
    Labels = {}
    Callers = {c1}
    Requesters = {q1, q2}
    Actions = {REVIEW, DELETE}
    MaxRevision = 2
INVARIANT LabelTypeOK
INVARIANT OneCorrectionPerRevision
INVARIANT ResolvedIsTold
PROPERTY NoLostCorrection
PROPERTY RegisterSpec
CHECK_DEADLOCK FALSE
CONSTRAINT Unaudited
