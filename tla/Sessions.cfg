CONSTANTS
  ana = ana  ben = ben  a1 = a1  a2 = a2  b1 = b1
  None = None
  Agent = {ana, ben}
  Tab = {a1, a2, b1}
  AgentOf <- ThreeTabs
  DID = {p, q}
  MaxBrowsers = 2
  MaxStates = 2
SPECIFICATION Spec
INVARIANTS CurrentIsSignedIn SignInsStayHome
PROPERTIES GoneSessionsLeave EnteringSpendsAState LeavingHasAReason
