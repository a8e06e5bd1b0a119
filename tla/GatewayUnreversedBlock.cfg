SPECIFICATION FairSpec
CONSTANTS
    ann = ann
    bob = bob
    cy = cy
    eve = eve
    home = home
    away = away
    Wolf = Wolf
    Null = Null
    OrgOf <- MCOrgOf
    Users = {bob, cy}
    Proposers = {bob}
    Approvers = {bob, cy}
    Forwards = {f1}
    Classes = {"active_response"}
    Requests = {r1}
    Sweepers = {s1}
    TTL = 1
    Duration = 1
    SweepLimit = 1
    MaxTime = 2
    MaxAborts = 0
    MaxEdits = 0
    SerialDeciders = TRUE
PROPERTIES DeclinedUndoKeepsTimer
