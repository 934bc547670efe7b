SPECIFICATION FairSpec
CONSTANTS
    PlayerCount = 2
    process_frame_delay = 5
    alternating_send_rate = 2
    RECEIVE_QUEUE_BACKUP = 18
    Window = 1
    MaxFrame = 9
    MaxCommand = 1
    MayLeave = {2}
    Savers = {}
    Skew = 2
    Latency = 2
INVARIANTS
    SameGame
PROPERTIES
    ArrivesInTime
    Progress
CHECK_DEADLOCK FALSE
