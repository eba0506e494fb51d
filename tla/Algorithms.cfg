\* Four boxes with confidences 0 to 2, five proposals, up to three cells.
CONSTANTS
  MaxConf = 2
  Priors = 4
  Proposals = 5
  Cells = 3
  MaxTaken = 12
SPECIFICATION AlgSpec
INVARIANTS
  
  ClassesDecoded
  RoisPooled
  ElementsPlaced
  StreamCyclic
  
CHECK_DEADLOCK FALSE
