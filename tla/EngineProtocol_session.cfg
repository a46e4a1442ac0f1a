SPECIFICATION Spec
CONSTANTS
  Owners = {o1}
  NoOwner = NoOwner
  Files = {f1}
  PipeCapacity = 2
  OptionsChunks = 3
  LastStage = 2
  MaxReports = 2
  MaxRequests = 2
INVARIANTS RequestOutstanding ReturnedIsComplete FilesComeLast ExceptionLeavesNothing CountsAreExact
PROPERTIES SessionEnds ImplementsSession
