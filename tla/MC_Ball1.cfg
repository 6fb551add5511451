\* ball1 on a scaled field: 5-bit registers.
CONSTANTS
    Modulus = 32
    Ball_X_Center = 19
    Ball_Y_Center = 11
    Ball_X_Max = 24
    Ball_Y_Max = 11
    ATM_field = 3
    X_Step = 2
    Jump = 3
    Lift = 4
    Jetpack = TRUE
SPECIFICATION Spec
INVARIANT FallSpeedBounded
