SPECIFICATION Spec
CONSTANTS
  Ips <- MCIps
  Subnet <- MCSubnet
  LastAddress <- MCLastAddress
  DefaultMask = "narrow"
  Options <- MCOptions
  Servers = {"gateway"}
  Neighbours = {"gateway", "resolver"}
  Peers = {"far"}
  Names <- MCNames
  Records <- MCRecords
  SoaTtls = {0, 1}
  Ids = {1}
  NET_ARP_CACHE_SIZE = 1
  ARP_ENTRY_LIFETIME = 2
  ARP_MAX_ATTEMPTS = 2
  NET_DNS_CACHE_SIZE = 1
  NET_DNS_NEGATIVE_TTL_MAX = 1
  DNS_MAX_ATTEMPTS = 2
  DNS_RETRY_INTERVAL = 1
  DNS_MAX_CNAME_HOPS = 2
  DHCP_DEFAULT_LEASE = 3
  DHCP_RETRY_BASE = 1
  DHCP_SHIFT_MAX = 1
  ICMP_ECHO_TIMEOUT = 1
  MaxAnswers = 2
  LEASE_MAX = 3
  MaxElapsed = 1
INVARIANTS
  AddressIsHeld
  AnswersAreCurrent
PROPERTY
  EveryQueryEnds
