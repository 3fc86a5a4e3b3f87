SPECIFICATION Spec
CONSTANTS
  Workers = {w1, w2}
  main = main
  Functions = {OnInit, Test}
  OnInit = OnInit
  Test = Test
  Garbage = {1}
  w1 = w1
  w2 = w2
  MaxServices = 3
  MaxMessages = 2
SYMMETRY Symmetry
INVARIANTS TypeOK KnownIdsNameTheService RegisteredIsEvaluated NoReentry
CHECK_DEADLOCK FALSE
