SPECIFICATION Spec
CONSTANTS
    Horizon = 290
    SummerStart = 73
    SummerEnd = 193
    Deadlines = {0, 1, 2, 3, 4, 5, 7, 8, 9, 10}
CHECK_DEADLOCK FALSE
INVARIANTS
    TypeOK
    HeadlineIsTrue
    OverdueHasNoReminder
    
