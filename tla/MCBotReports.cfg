SPECIFICATION SupSpec
CONSTANTS
 MaxApplies = 2
 Tokens = {t1}
 Keep = Keep
 AdminSets = {A, B}
 Bots = {b1, b2}
 MaxFails = 1
 Nil = Nil
INVARIANTS ReportsHeard
CHECK_DEADLOCK FALSE
