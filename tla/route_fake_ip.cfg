SPECIFICATION RouteSpec
CONSTANTS
  blocked = blocked  listed = listed  plain = plain  server = server
  near = near  far = far  ru = ru  own = own
  Hosts = {blocked, listed, plain, server}
  Addresses = {near, far, ru, own}
  ListsOf <- MCLists
  AddressOf <- MCAddressOf
  Setups <- FakeSetups
  NoName = NoName
  MaxSwitches = 1
INVARIANT FakeIsCarried
CHECK_DEADLOCK FALSE
