SPECIFICATION Spec
CONSTANTS
    ann = ann
    bob = bob
    cy = cy
    eve = eve
    home = home
    away = away
    Wolf = Wolf
    Null = Null
    OrgOf <- MCOrgOf
    Users = {ann, bob, cy}
    Proposers = {bob}
    Approvers = {bob, cy}
    Forwards = {f1}
    Classes = {"active_response"}
    Requests = {r1, r2}
    Sweepers = {s1}
    TTL = 1
    Duration = 1
    SweepLimit = 1
    MaxTime = 2
    MaxAborts = 0
    MaxEdits = 0
    SerialDeciders = FALSE
SYMMETRY Interchangeable
PROPERTIES TerminalIsFinal
