\* Two tasks, two objects for one bus, buffers longer than the FIFOs.
SPECIFICATION Spec
CONSTANTS
    Tasks = {t1, t2}
    Objects = {o1, o2}
    None = None
    Orders = {0, 1}
    Modes = {0, 1}
    SPI_WORK_MODE_0 = 0
    Depth = 2
    Sizes = {3}
INVARIANTS SettingsStable AnswersInOrder BusAccounted
PROPERTY CallsReturn
