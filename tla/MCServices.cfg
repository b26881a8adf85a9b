SPECIFICATION ServicesSpec
CONSTANTS
    Evento <- MCEvento
    Par = "par"
    SinReceptor = SinReceptor
    Capacidad = 2
    MaxSubs = 3
    h1 = h1
    h2 = h2
    Hilo = {h1, h2}
    Sesion <- MCSesion
    Nadie = Nadie
    MaxLlamadas = 3
    Llamador = {h1, h2}
    Clave = {"k1", "k2"}
    MaxCambios = 3
    MaxSegundos = 3
    Pin = {"", "1", "2"}
    SinPin = ""
    Cuenta = {"c1", "c2"}
    NoHay = NoHay
    MaxGuardadas = 3
    l1 = l1
    l2 = l2
    Loop = {l1, l2}
    NoLoop = NoLoop
    Tool = {"read_file", "write_file", "web_fetch"}
    NoTool = NoTool
    Allowed = {"read_file"}
    KeyCount = 2
    MaxIterations = 2
    MaxCalls = 2
INVARIANTS
    ServicesTypeOK
    ShownOnce
    StartsAreWhole
    FollowsAreKept
    SavedIsLoadable
PROPERTIES
    BufferedIsShown
    CallsReturn
    UsesAreGranted
    StoppedStartsNothing
    Settles
CHECK_DEADLOCK FALSE
