SPECIFICATION BindingSpec
CONSTANTS
    MaxProtos = 6
    Trees <- MCTrees
    Root = 1
    NoFunction = NoFunction
    MaxLoads = 2
INVARIANT BoundToOwnCode
CHECK_DEADLOCK FALSE
