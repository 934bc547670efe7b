SPECIFICATION Spec
CONSTANTS
    PlayerCount = 2
    process_frame_delay = 5
    alternating_send_rate = 2
    RECEIVE_QUEUE_BACKUP = 18
    Window = 9
    MaxFrame = 9
    MaxCommand = 1
    MayLeave = {}
    Savers = {}
    Skew = 1
    Latency = 1
INVARIANT OwnOrdersExecuted
CHECK_DEADLOCK FALSE
