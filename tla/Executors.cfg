SPECIFICATION ESpec
CONSTANTS
    None = None
    Absent = Absent
    Many = Many
    Registered = {"rule_tuning", "config_change", "agent_action"}
    Rules = {x, y}
    Levels = {0, 5, 17}
    Tunes = {t1, t2}
    Nodes = {n1, n2}
    Sections = {s1}
    Contents = {v1, v2}
    Changes = {c1, c2}
    Groups = {g1, g2}
    Actions = {a1, a2}
    MaxFaults = 1
    MaxIntrusions = 1
SYMMETRY Interchangeable
CHECK_DEADLOCK FALSE
INVARIANTS ExecutorsTypeOK  DiffIsWhatRuns
PROPERTIES   AssignedIsMember
