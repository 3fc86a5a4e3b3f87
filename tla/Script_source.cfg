SPECIFICATION Spec
CONSTANTS
  Workers = {w1, w2}
  main = main
  Functions = {OnInit}
  OnInit = OnInit
  Garbage = {0}
  w1 = w1
  w2 = w2
  MaxServices = 3
  MaxMessages = 1
SYMMETRY Symmetry
INVARIANT SourceIsSender
CHECK_DEADLOCK FALSE
