SPECIFICATION Spec
CONSTANTS
  main = main
  Thread = {main, c1, c2}
  LUAI_MAXCCALLS = 5
  HANDLING = 7
  MaxFrames = 2
  MaxMethods = 1
INVARIANTS CCallsCounted LostHaveContinuation HandlerOfLastPCall
PROPERTY ImplementsStates
