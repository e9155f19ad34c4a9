CONSTANTS
  ip1 = ip1
  ip2 = ip2
  ip3 = ip3
  IP = {ip1, ip2, ip3}
  s1 = s1
  s2 = s2
  Station = {s1, s2}
  Nobody = Nobody
  Entries = {1, 2, 3}
  Buckets = {1, 2}
  Hash <- MCHash
  EntryTimeout = 3
  RequestTimeout = 1
  MaxRetries = 2
SPECIFICATION ArpSpec
INVARIANTS CacheInv LastHeardIsFound
PROPERTY FreshIsKept
SYMMETRY MCSymmetry
