SPECIFICATION ReadsSpec
CONSTANTS
    elm = elm
    elm2 = elm2
    elmScada = elmScada
    elm2Scada = elm2Scada
    kitchen = kitchen
    bath = bath
    hall = hall
    tank = tank
    pump = pump
    Houses = {elm, elm2}
    EveryHouse = EveryHouse
    OpenAge = 1
    Senders = {elmScada, elm2Scada}
    NoSender = NoSender
    Starts <- MCStarts
    OwnerOf <- MCOwnerOf
    Zones = {kitchen, bath, hall}
    NoZone = NoZone
    HouseOf <- MCHouseOf
    Day = 2
    MaxMessages = 2
    MaxForecasts = 2
    PlotDays = 1
    Channels = {tank, pump}
    NoChannel = NoChannel
    Hour = 2
    FallBack = 4
    Inputs <- MCInputs
INVARIANTS OneSummaryEach LongestCallShown ElectricityOnce PagesWhole WorstFirst ChannelsKept CellsLatest
CHECK_DEADLOCK FALSE
