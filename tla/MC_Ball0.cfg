\* ball0 on a scaled field: 5-bit registers.
CONSTANTS
    Modulus = 32
    Ball_X_Center = 4
    Ball_Y_Center = 11
    Ball_X_Max = 24
    Ball_Y_Max = 11
    ATM_field = 3
    X_Step = 1
    Jump = 4
    Lift = 4
    Jetpack = FALSE
SPECIFICATION Spec
INVARIANTS TypeOK OnScreen FallSpeedBounded
PROPERTY NoLeap
