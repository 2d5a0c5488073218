CONSTANTS
  Tasks <- MCTasks
  Cap = 4
  Mutable = {"rax", "rdi"}
SPECIFICATION Spec
PROPERTY ImplementsTasks
