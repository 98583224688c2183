SPECIFICATION MCSpec
CONSTANTS
  Thread = {stream}
  Loop = loop
  Event = {data, end, fileData, fileEnd}
  DataEvent = data
  EndEvent = end
  FileData = fileData
  FileEnd = fileEnd
  Handler = {processValue, terminate, processData, readFileEnd}
  ProcessValue = processValue
  Terminate = terminate
  ProcessData = processData
  ReadFileEnd = readFileEnd
  NIL = NIL
  Chunks = 4
  MaxLen = 5
  Block = 2
  MaxCalls = 5
  MaxRegs = 2
INVARIANTS PiIsComplete BoxesLive CountIsRight NoSharedAccess NoUseAfterFree
PROPERTIES Terminates
CHECK_DEADLOCK FALSE
