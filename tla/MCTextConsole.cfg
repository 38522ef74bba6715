SPECIFICATION Spec
CONSTANTS
  t1 = t1
  t2 = t2
  t3 = t3
  sw = sw
  Clients = {t1, t2, t3}
  Switchers = {sw}
  CONFIG_SCREEN_COUNT = 2
  CONSOLE_WIDTH = 3
  CONSOLE_HEIGHT = 2
  CONSOLE_CLEAR_COLOR = 0
  DEFAULT_COLOR = 7
  ValidColors <- Colors
  Radix = 4
  MaxCalls = 4
  Home <- MCHome
  Menus <- MCMenus
  NULL = NULL
INVARIANTS TypeOK ConsoleExclusive PermitsMatchHolders SwitchWaitsForOnePrint
  HardwareCursor CursorInRange
PROPERTIES ImplementsScreens PrintedIsShown CallsEnd
\* All threads may have made their calls.
CHECK_DEADLOCK FALSE
