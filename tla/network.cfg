SPECIFICATION Spec
CONSTANTS
  \* Routing
  blocked = blocked  listed = listed  plain = plain  server = server
  near = near  far = far  ru = ru  own = own
  Hosts = {blocked, listed, plain, server}
  Addresses = {near, far, ru, own}
  ListsOf <- MCLists
  AddressOf <- MCAddressOf
  Setups <- MCSetups
  NoName = NoName
  MaxSwitches = 1
  \* PortTable: more flows than ports, a clock that outruns both limits
  Flows = {f1, f2, f3}  PortFirst = 10  PortLast = 11
  IdleOpen = 2  IdleClosed = 1  MaxSeconds = 3
  \* UdpSessions
  Pairs = {k1, k2}  MaxSessions = 4  MaxUdp = 5
  \* DnsServer: more names than addresses
  Names = {n1, n2, n3}  Size = 2
  Questions = {q1, q2}  Streams = {c1, c2, c3}  NoStream = NoStream  MaxQuestions = 3
  \* UrlTest
  Members = {m1, m2}  Delays = {10, 80, 200}  Tolerance = 50
  Users = {u1, u2}  IdleLimit = 1  NoBest = NoBest
  \* VeilTokens
  Tokens = {t1, t2}  MaxSkew = 2  Setback = 2  LastTime = 7
  \* VeilSubs
  Ids = {i1, i2}  Requests = {r1}  MaxVersion = 3  MaxTroubles = 1
INVARIANTS PortsAgree AnswerHolds RightAnswer AcceptedOnce UsersFollow
           SecondGoesAround BlockedIsUnreached LookupFollowsTraffic
PROPERTIES SynIsServed NothingIsLeft UsedIsMeasured DisabledIsRevoked
CHECK_DEADLOCK FALSE
