SPECIFICATION RecordSpec
CONSTANTS
    Musicians = {}
    QUEUE_TICKS = 2
    Uploads = FALSE
    MaxStarts = 2
    MaxStops = 2
    MaxTicks = 2
    MaxMinute = 1
INVARIANT EachRecordToStopIsOneTake
CHECK_DEADLOCK FALSE
