\* Two lists of at most four bytes, pages of two bytes, three raws.
CONSTANTS
    List = {1, 2}
    MaxRaws = 3
    PAGE_SIZE = 2
    Data <- TwoData
    MaxLen = 4
    Clients <- AllClients
SPECIFICATION Spec
VIEW view
INVARIANTS TailPrivate CursorAgrees
PROPERTY ImplementsByteLists
CHECK_DEADLOCK FALSE
