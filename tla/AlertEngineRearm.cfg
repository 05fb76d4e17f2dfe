SPECIFICATION FairSpec
CONSTANTS
    Rules = {r1}
    Devices = {d1}
    None = None
    Group = Group
    MaxEnv = 2
PROPERTIES RearmedByReconnect
