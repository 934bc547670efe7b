SPECIFICATION Spec
CONSTANTS
    PlayerCount = 2
    process_frame_delay = 5
    alternating_send_rate = 2
    RECEIVE_QUEUE_BACKUP = 18
    Window = 9
    MaxFrame = 10
    MaxCommand = 1
    MayLeave = {}
    Savers = {}
    Skew = 10
    Latency = 10
PROPERTY WaitsForPeers
CHECK_DEADLOCK FALSE
