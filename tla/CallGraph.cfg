SPECIFICATION Spec
CONSTANTS
  Tracks = {t1}
  FlowKeys <- MCFlowKeys
  AsyncKeys <- MCAsyncKeys
  ScaleNum = 1
  ScaleDen = 3
  FlowIdRange = 8
  References = {0, 1, 3}
  MaxItems = 3
  MaxDepth = 1
  MaxAdvance = 3
  Menus <- MCMenus
INVARIANT AfterNotInside
CHECK_DEADLOCK FALSE
