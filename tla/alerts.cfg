\* Two lenses watched by each of the models, pictures mailed while others are made.
SPECIFICATION FairSpec
CONSTANTS
    Width = 640
    Height = 360
    Smoothing = 2
    Lag = 2
    MaxGone <- Gone
    SavedMax = 1
    Cooldown = 1
    BucketTtl = 2
    l1 = l1
    l2 = l2
    Lenses = {l1, l2}
    Frames <- TestFrames
    LoadRequests <- Requests
    SnapThresholds = {0}
    Heartbeat = 1
    SnapCooldown = 1
    RingSize = 2
    Hwm = 2
    MaxLoads = 2
    MaxScenes = 2
    MaxSent = 3
    MaxEvents = 2
    SmtpConfs <- Confs
    Modes <- TestModes
    SizeOf <- PictureSize
    MaxRecipients = 1
    MaxSnapshots = 2
    MaxBatches = 1
    MaxRetries = 2
    MaxJobs = 1
INVARIANTS
    HistoryIsRecent
    AlertedOnce
    EachIsFollowed
    LeavesWhenDelivered
PROPERTY
    StaleBoxesVanish
CHECK_DEADLOCK FALSE
