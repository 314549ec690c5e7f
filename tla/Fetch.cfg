SPECIFICATION FetchSpec
CONSTANT MaxControllers = 3
INVARIANTS OkMeansTicket EveryControllerAsked
PROPERTIES FetchEnds FetchAdvances
CHECK_DEADLOCK FALSE
