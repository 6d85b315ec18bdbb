CONSTANTS
    ExpBits = 4
    ManBits = 3
    Bias = 7
    Beyond = 3
    Inputs <- MCInputs
SPECIFICATION Spec
INVARIANT NormalsRoundToNearest
PROPERTY RequantizeKeepsCode
