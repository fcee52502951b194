SPECIFICATION PartsSpec
CONSTANTS
    kA = kA
    kB = kB
    kObj = kObj
    kFlt = kFlt
    anyValue = anyValue
    IntKeys = {1, 2, 3, 4, 5, 7}
    Strings = {kA, kB}
    Objects = {kObj}
    Floats <- MCFloats
    Value = {anyValue}
    Event = kA
    Nothing = Nothing
    Start = Start
    MaxInteger = 7
    MAXABITS = 2
    Instances <- MCInstances
    memMsg = memMsg
    sC = sC
    sD = sD
    Hash <- ContentHash
    Content = {memMsg, kA, kB, sC, sD}
    MEMERRMSG = memMsg
    Literals = {kA, kB}
    MINSTRTABSIZE = 16
    MAXSTRTB = 16
    STRCACHE_M = 2
    MaxProtos = 5
    Trees <- MCTrees
    Root = 1
    NoFunction = Nothing
    MaxLoads = 1
    BITS = 4
    NBM = 2
    RANLIMIT = 4
    Arrays <- MCArrays
    AnyArray <- MCAnyArray
    Imbalance = 2
    LIMLINEDIFF = 2
    MAXIWTHABS = 4
    Lines = {1, 2, 4}
    linedefined = 1
    MaxCode = 7
    LUA_MAXCAPTURES = 2
    MAXCCALLS = 6
    WIDTH = 3
    INT_MAX = 63
    LUAI_MAXSTACK = 3
    PAYLOAD = 2
    SIZE_MAX = 255
    CONT = 3
    MAXUNICODE = 100
    MAXINTEGER = 31
INVARIANTS LengthIsBorder AbsentIsAbsent StringsInterned BoundToOwnCode SortIsRight LinesAreRight
PROPERTIES ImplementsMap NumbersAreExact PatternsMatch ListsAreKept WrittenIsRead TextIsRead
CHECK_DEADLOCK FALSE
