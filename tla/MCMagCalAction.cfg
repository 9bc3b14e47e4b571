SPECIFICATION Spec
CONSTANTS
  Goal = {g1, g2}
  Thread = {t1, t2}
  Target = 2
  None = None
INVARIANT TypeOK SamplesBounded FlagFollowsGoal
PROPERTY SuccessEarned CancelledGoalEnds AcceptedGoalEnds
CHECK_DEADLOCK FALSE
