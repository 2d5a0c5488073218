SPECIFICATION Spec
CONSTANTS
  Thread = {t1, t2, t3}
PROPERTIES ImplementsLock SomeoneGetsIn
