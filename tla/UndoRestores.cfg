SPECIFICATION GoalsSpec
CONSTANTS
    GoalRooms = {r1, r2}
    MaxCount = 1
    MaxPresses = 4
PROPERTY UndoRestores
CHECK_DEADLOCK FALSE
