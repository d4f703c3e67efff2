SPECIFICATION Spec
CONSTANTS
  Tracks = {t1}
  FlowKeys <- MCFlowKeys
  AsyncKeys <- MCAsyncKeys
  ScaleNum = 1
  ScaleDen = 3
  FlowIdRange = 8
  References = {0, 1, 3}
  MaxItems = 4
  MaxDepth = 2
  MaxAdvance = 1
  Menus <- MCMenus
INVARIANTS RefusedForReferences SlicesNest LifecyclesSeparate
CHECK_DEADLOCK FALSE
