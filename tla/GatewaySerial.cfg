SPECIFICATION Spec
CONSTANTS
    ann = ann
    bob = bob
    cy = cy
    eve = eve
    home = home
    away = away
    Wolf = Wolf
    Null = Null
    OrgOf <- MCOrgOf
    Users = {ann, bob, cy, eve}
    Proposers = {bob}
    Approvers = {bob, cy, eve}
    Forwards = {f1}
    Classes = {"active_response", "agent_action", "rule_tuning"}
    Requests = {r1, r2}
    Sweepers = {s1}
    TTL = 1
    Duration = 1
    SweepLimit = 1
    MaxTime = 2
    MaxAborts = 0
    MaxEdits = 1
    SerialDeciders = TRUE
SYMMETRY Interchangeable
INVARIANTS PerformedAsProposed SweepWaitsForWindow
PROPERTIES TerminalIsFinal KeepsContract
