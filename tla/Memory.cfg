SPECIFICATION MCSpec
CONSTANTS
  None = None
  own1 = own1
  own2 = own2
  TableFrames = {0, 1, 2, 3, 4, 5, 6, 7, 8}
  Fanout = 3
  KernelHalf = 1
  Pages = {0, 1, 18}
  Physical = {phys1, phys2}
  MaxSpaces = 2
INVARIANTS FramesAccounted  TablesPartitioned SpacesIsolated
PROPERTIES ImplementsPageMaps 
CHECK_DEADLOCK FALSE
