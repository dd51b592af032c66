SPECIFICATION Spec
CONSTANTS
  client = client
  n1 = n1
  n2 = n2
  h = h
  i1 = i1
  i2 = i2
  i3 = i3
  ip1 = ip1
  ip2 = ip2
  ip3 = ip3
  NoId = NoId
  NoHash = NoHash
  Client = client
  Contacts <- MCContacts
  Hashes <- MCHashes
  NodeIds <- MCNodeIds
  Ips <- MCIps
  IdOf <- MCIdOf
  IpOf <- MCIpOf
  Knows <- MCKnows
  Closer <- MCCloser
  Tids = {t1, t2}
  Cutoff = 3
  MaxQueries = 2
  MaxDatagrams = 5
INVARIANTS RegistryConsistent SourcesConsistent KnownIsTrue
 
CHECK_DEADLOCK FALSE
