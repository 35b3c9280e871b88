CONSTANTS
    Chars <- MCBarChars
    PivotsKeyChoices <- MCPivotsKeyChoices
    Pivots <- MCBarPivots
    GROUP_NUM = 3
    KEY_LENGTH = 2
    MaxNum = 2
    INVALID_KEY = INVALID_KEY
    INF_LOWER_BOUND = INF_LOWER_BOUND
    INF_UPPER_BOUND = INF_UPPER_BOUND
    Crash = Crash
    NoScan = NoScan
SPECIFICATION Spec
INVARIANT
    PivotsSurviveRestart
