SPECIFICATION Spec
CONSTANTS
    PlayerCount = 2
    process_frame_delay = 2
    alternating_send_rate = 1
    RECEIVE_QUEUE_BACKUP = 5
    Window = 2
    MaxFrame = 6
    MaxCommand = 2
    MayLeave = {}
    Savers = {1, 2}
    Skew = 1
    Latency = 1
INVARIANTS
    TypeOK
    SameSaves
    OwnOrdersExecuted
CHECK_DEADLOCK FALSE
