SPECIFICATION Spec
CONSTANTS
    Entities = {"lamp", "sensor"}
    Registered = {"lamp", "sensor"}
    Devices = {"bulb"}
    NoDevice = NoDevice
    DeviceOf <- SmallDeviceOf
    Areas = {"hall"}
    NoArea = NoArea
    AreaOf <- SmallAreaOf
    DashLabels = {"DASH_A"}
    Labellings <- SmallLabellings
    Unencodable = {"sensor"}
    Asks = {"devices", "state", "dashboards"}
    MaxChanges = 2
    MaxPending = 2
INVARIANTS
    TypeOK
    KnowsOnlyExposed
    MirrorCurrent
CHECK_DEADLOCK FALSE
