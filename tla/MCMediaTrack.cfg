CONSTANTS
  v1 = v1  v2 = v2  v3 = v3  e1 = e1  e2 = e2
  s1 = s1
  c1 = c1  c2 = c2
  Sources = {s1}
  Viewers <- MCViewers
  Endpoints = {e1, e2}
  EndpointOf <- MCEndpointOf
  Channels = {c1, c2}
  FbTimeout = 1
  MaxQueue = 1
SPECIFICATION FairSpec
INVARIANTS StreamsLegal Released
PROPERTIES WishesOfViewers EventuallyOff
