SPECIFICATION Spec
CONSTANTS
  Goal = {g1, g2}
  Thread = {t1, t2}
  Target = 2
  None = None
PROPERTY RawCallbackContinues
CHECK_DEADLOCK FALSE
