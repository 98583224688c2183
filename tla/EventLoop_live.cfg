SPECIFICATION Spec
CONSTANTS
  Thread = {t1}
  Loop = loop
  Event = {data, end}
  Handler = {f}
  NIL = NIL
  MaxCalls = 3
  MaxRegs = 2
PROPERTIES ImplementsChannel EveryAnnouncementSettles
CHECK_DEADLOCK FALSE
