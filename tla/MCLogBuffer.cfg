SPECIFICATION Spec
CONSTANTS
    Cores = {0, 1}
    LOG_BUFFER_SIZE = 4
    LOG_FLUSH_THRESHOLD = 2
    MAX_LOG_FILE_SIZE = 3
    LOG_TRUNCATE_SIZE = 2
    MaxLines = 5
INVARIANTS TypeOK TailOfTheLog FileBounded
CHECK_DEADLOCK FALSE
