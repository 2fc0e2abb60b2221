SPECIFICATION FairSpec
CONSTANTS
    u1 = u1
    u2 = u2
    f1 = f1
    s1 = s1
    s2 = s2
    j1 = j1
    j2 = j2
    None = None
    Profiles = {u1, f1}
    FileProfiles = {f1}
    Scans = {s1, s2}
    Jobs = {j1, j2}
    MaxKills = 1
INVARIANTS TypeOK OneUpdatePerProfile RowsHaveConfigs
PROPERTIES DeletionSticks DueIsUpdated
