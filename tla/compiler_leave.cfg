SPECIFICATION Spec
CONSTANTS
BITS = 6
NBM = 3
MAXTAGLOOP = 3
MAXARG_C = 31
OFFSET_sC = 15
MAXARG_Bx = 127
MAXINDEXRK = 3
MAXREGS = 20
LongStrings = {}
MAXVARS = 20
MAXUPVAL = 6
LFIELDS_PER_FLUSH = 2
StackSize = 80
MaxSteps = 9
Shapes = {"leave"}
PROPERTY CompiledBehaves
CHECK_DEADLOCK FALSE
