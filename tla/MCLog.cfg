SPECIFICATION Spec
CONSTANTS
    App = App
    Tasks = {t1}
    Capacity = 2
    Debug = TRUE
    MaxLogged = 3
    Levels = {0, 1, 3}
    MaxQueue = 2
INVARIANTS
    TypeOK
    NewestKept
    SourceOrder
PROPERTY
    HistorySpec
