CONSTANTS
    bt = bt
    app = app
    Tasks = {bt, app}
    Bt = bt
    c1 = c1
    c2 = c2
    n1 = n1
    n2 = n2
    Callbacks = {c1, c2, n1}
    NoCallback = NoCallback
    event = event
    config = config
    AppEvent = event
    Types = {config}
    gap = gap
    gatt = gatt
    Modules = {gap, gatt}
    KindOf <- Kinds
    MaskOf <- Masks
    OwnerOf <- Mixed
    Leavers = {c1, n1}
    Cleanup = FALSE
    OneByOne = TRUE
    Slots = 3
    r1 = r1
    r2 = r2
    Records = {r1, r2}
    NoRecord = NoRecord
    MaxRecords = 1
SPECIFICATION Spec
INVARIANTS
    TypeOK
    NoNullCall
    Kept
    Delivered
PROPERTIES
    CalledOnce
