CONSTANTS
  Message = {m0, m1, m2}
  Default = m0
  N = 3
SPECIFICATION Spec
PROPERTY ImplementsQueue
