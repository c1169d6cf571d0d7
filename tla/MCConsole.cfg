SPECIFICATION ConsoleSpec
CONSTANTS
    Keys <- AllKeys
    STRAY <- Strays
    EVENTS = 3
    COLS = 2
    ROWS = 3
    Letters = {"a", "b"}
    OPEN = "a"
    TAG <- Tag
    CLOSE <- Close
    CHUNK = 3
    PREINIT = 5
    BUFFER = 8
    ARGS_MAX = 6
    MAX_LINE = 5
    KEYS = 7
    Environment <- Block
    WIDTH = 4
    LIMIT = 6
    ROOM = 9
    Lines <- PrintedLines
    PRINTS = 3
INVARIANTS
    KeysDecoded
    ScreenShows
    ScannedAsPrinted
PROPERTIES
    KeyHandedOver
    CommandArrives
