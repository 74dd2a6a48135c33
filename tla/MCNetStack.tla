----------------------------- MODULE MCNetStack -----------------------------
(* A network for TLC: two addresses that DHCP may lease, a gateway that is the *)
(* DHCP server and a resolver, a second resolver, and a far address.  Under    *)
(* the narrow netmask the latter two lie behind the gateway; under the wide    *)
(* one the second resolver is on the link, and the far address is the          *)
(* broadcast address.                                                          *)
EXTENDS NetStack

MCIps == {"own1", "own2", "gateway", "resolver", "far"}
MCSubnet ==
  [narrow |-> [ip \in MCIps |-> IF ip \in {"resolver", "far"} THEN "elsewhere" ELSE "here"],
   wide |-> [ip \in MCIps |-> "everywhere"]]
MCLastAddress == [everywhere |-> "far"]

Lease(address, dns) ==
  [address |-> address, gateway |-> "gateway", dns |-> dns, server |-> "gateway"]

\* The first is an offer whose lease is of no time, which ends the lease it renews; the
\* second and the third differ in the netmask; the last keeps the address that is held
\* or was offered and changes the resolver, or the netmask back.
MCOptions == {[lease |-> 0] @@ Lease("own2", "gateway"),
              [lease |-> 3, renewal |-> 3, rebind |-> 1] @@ Lease("own1", "resolver"),
              [netmask |-> "wide"] @@ Lease("own1", "resolver"),
              [address |-> NoIp, netmask |-> NoIp, dns |-> "gateway"]}

MCNames == {"www", "host"}

\* www is an alias of host; the resolvers know different addresses of host, and
\* one has a loop in its zone.
Zone(server) ==
  {[owner |-> "www", type |-> "CNAME", data |-> "host", ttl |-> 2],
   [owner |-> "host", type |-> "A", data |-> server, ttl |-> 1]}
MCRecords ==
  [server \in {"gateway", "resolver"} |->
     Zone(server) \cup (IF server = "gateway" THEN {}
                        ELSE {[owner |-> "host", type |-> "CNAME", data |-> "www", ttl |-> 1]})]
=============================================================================
