SPECIFICATION FairSpec
CONSTANTS
    ann = ann
    bob = bob
    cy = cy
    eve = eve
    home = home
    away = away
    Wolf = Wolf
    Null = Null
    OrgOf <- MCOrgOf
    Users = {bob, cy}
    Proposers = {bob}
    Approvers = {bob, cy}
    Forwards = {f1, f2}
    Classes = {"active_response"}
    Requests = {r1}
    Sweepers = {s1}
    TTL = 2
    Duration = 1
    SweepLimit = 1
    MaxTime = 1
    MaxAborts = 1
    MaxEdits = 0
    SerialDeciders = TRUE
PROPERTIES DueBlocksAreTaken 
