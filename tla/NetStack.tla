------------------------------ MODULE NetStack ------------------------------
(***************************************************************************)
(* The IPv4 stack, kernel/net.c: the ARP cache and the one packet that may  *)
(* wait for it, the DHCP client, the resolver with its cache and the echo   *)
(* request.                                                                 *)
(*                                                                         *)
(* Functions take and give the stack, a record like struct net_stack.  Time *)
(* is kept as the time since an event or left until one, in units of the    *)
(* ARP retry interval, and only net_tick lets it pass, as in the code.  The *)
(* network may deliver any frame at any time; whether the link takes a      *)
(* frame (up) is asked where the code looks at the answer.  Wrong           *)
(* checksums, transaction ids of others and fragments are dropped before    *)
(* they reach the functions below.                                          *)
(***************************************************************************)
EXTENDS Naturals, Sequences, SequencesExt, FiniteSetsExt

CONSTANTS
  Ips,                     \* usable unicast addresses
  Subnet,                  \* Subnet[mask][ip]: the network of an address under a valid netmask
  LastAddress,             \* LastAddress[network]: its broadcast address, if it has one
  DefaultMask,             \* 255.255.255.0
  Options,                 \* what DHCP servers may say: an address and the options present
  Servers,                 \* those that send DHCP messages
  Neighbours,              \* those that send ARP messages
  Peers,                   \* those that programs talk to
  Names,                   \* host names
  Records,                 \* Records[server]: the resource records a resolver holds
  SoaTtls,                 \* lifetimes of negative answers, 0 for none
  Ids,                     \* DNS transaction ids
  NET_ARP_CACHE_SIZE, ARP_ENTRY_LIFETIME, ARP_MAX_ATTEMPTS,
  NET_DNS_CACHE_SIZE, NET_DNS_NEGATIVE_TTL_MAX, DNS_MAX_ATTEMPTS, DNS_RETRY_INTERVAL,
  DNS_MAX_CNAME_HOPS, DHCP_DEFAULT_LEASE, DHCP_RETRY_BASE, DHCP_SHIFT_MAX,
  ICMP_ECHO_TIMEOUT,
  MaxAnswers,              \* bound: records in an answer section
  LEASE_MAX,               \* longest lease in Options
  MaxElapsed               \* longest time between two ticks

\* A lease is a number of seconds, and the time since its start is counted as far as
\* the longest one.
ASSUME LeaseAssumption ==
  /\ LEASE_MAX \in Nat /\ MaxElapsed \in Nat
  /\ DHCP_DEFAULT_LEASE \in 0 .. LEASE_MAX
  /\ \A o \in Options : "lease" \in DOMAIN o => o.lease \in 0 .. LEASE_MAX

\* The names that records are about, and those that aliases lead to, are Names.
ASSUME RecordsAssumption ==
  /\ NET_DNS_CACHE_SIZE \in Nat /\ DNS_MAX_CNAME_HOPS \in Nat /\ MaxAnswers \in Nat
  /\ \A server \in DOMAIN Records : \A r \in Records[server] :
       r.owner \in Names /\ (r.type = "CNAME" => r.data \in Names)

VARIABLE stack

NoIp == "0.0.0.0"                \* also the netmask of nothing
Broadcast == "255.255.255.255"
Nothing == [none |-> TRUE]

ASSUME AddressAssumption == NoIp \notin Ips /\ NoIp \notin DOMAIN Subnet

ARP_RETRY_INTERVAL == 1
Bound == {"BOUND", "RENEWING", "REBINDING"}

NoConfig == [address |-> NoIp, netmask |-> NoIp, gateway |-> NoIp, dns |-> NoIp]

\* struct net_dhcp_client, zeroed.  elapsed is the time since lease_started_ms, wait
\* the time left until next_action_ms.
NoDhcp == [state |-> "OFF", offer |-> NoConfig, server |-> NoIp, lease |-> 0, renewal |-> 0,
           rebind |-> 0, elapsed |-> 0, wait |-> 0, attempts |-> 0]

\* struct net_dns_client, zeroed; attempts and wait are kept while it is PENDING.
NoDns == [state |-> "IDLE", name |-> "none", id |-> 0, address |-> NoIp,
          attempts |-> 0, wait |-> 0]

\* net_init
net_init ==
  [ipv4 |-> NoConfig, arp |-> [i \in 1 .. NET_ARP_CACHE_SIZE |-> Nothing],
   pending_ipv4 |-> Nothing, dhcp |-> NoDhcp, dns |-> NoDns,
   dns_cache |-> [i \in 1 .. NET_DNS_CACHE_SIZE |-> Nothing],
   echo_request |-> Nothing, echo_reply |-> Nothing]

Minus(t, d) == IF t <= d THEN 0 ELSE t - d
Valid(slots) == {i \in DOMAIN slots : slots[i] # Nothing}

\* The slot for a new entry: the first free one, or the first of the oldest.
SlotFor(slots, age) ==
  LET free == DOMAIN slots \ Valid(slots)
      oldest == {i \in DOMAIN slots : \A j \in DOMAIN slots : age[j] <= age[i]}
  IN  IF free # {} THEN Min(free) ELSE Min(oldest)

----------------------------------------------------------------------------
(* ARP and the packet that waits for it *)

net_arp_lookup(s, ip) == \E i \in Valid(s.arp) : s.arp[i].ip = ip

arp_learn(s, ip) ==
  LET known == {i \in Valid(s.arp) : s.arp[i].ip = ip}
      age == [j \in Valid(s.arp) |-> s.arp[j].age]
      i == IF known # {} THEN Min(known) ELSE SlotFor(s.arp, age)
  IN  [s EXCEPT !.arp[i] = [ip |-> ip, age |-> 0]]

\* ipv4_is_usable_unicast, as a filter.
Usable(ip) == IF ip \in Ips THEN ip ELSE NoIp
ipv4_netmask_is_valid(mask) == mask \in DOMAIN Subnet

ipv4_is_on_link(config, ip) ==
  /\ config.address # NoIp
  /\ \/ config.netmask = NoIp
     \/ Subnet[config.netmask][ip] = Subnet[config.netmask][config.address]

ipv4_is_broadcast(config, ip) ==
  \/ ip = Broadcast
  \/ /\ config.address # NoIp /\ config.netmask # NoIp
     /\ \E network \in DOMAIN LastAddress :
          network = Subnet[config.netmask][config.address] /\ ip = LastAddress[network]

\* route_ipv4: the next hop of an address that is not a broadcast, or NoIp.
NextHop(config, destination) ==
  IF config.address = NoIp THEN NoIp
  ELSE Usable(IF ipv4_is_on_link(config, destination) THEN destination ELSE config.gateway)

\* net_ipv4_send: out at once, parked until ARP knows the next hop, or refused.
net_ipv4_send(s, destination, kind, id) ==
  LET hop == NextHop(s.ipv4, destination)
  IN  IF ipv4_is_broadcast(s.ipv4, destination) THEN [stack |-> s, result |-> "SENT"]
      ELSE IF destination = NoIp \/ hop = NoIp THEN [stack |-> s, result |-> "FAILED"]
      ELSE IF net_arp_lookup(s, hop) THEN [stack |-> s, result |-> "SENT"]
      ELSE IF s.pending_ipv4 # Nothing THEN [stack |-> s, result |-> "FAILED"]
      ELSE [stack |-> [s EXCEPT !.pending_ipv4 =
                         [source |-> s.ipv4.address, destination_ip |-> destination,
                          next_hop_ip |-> hop, kind |-> kind, id |-> id, wait |-> 0,
                          arp_attempts |-> 1, transmit_attempts |-> 0]],
            result |-> "QUEUED"]

\* The checksum of a datagram covers the source address of this moment.
net_udp_send(s, destination, kind, id) == net_ipv4_send(s, destination, kind, id)

\* flush_pending_ipv4: if ARP knows the next hop, the packet leaves, or the link
\* refuses it and it waits again.
flush_pending_ipv4(s, up) ==
  IF s.pending_ipv4 = Nothing \/ ~net_arp_lookup(s, s.pending_ipv4.next_hop_ip) THEN s
  ELSE IF up THEN [s EXCEPT !.pending_ipv4 = Nothing]
  ELSE [s EXCEPT !.pending_ipv4.wait = 0,
                 !.pending_ipv4.transmit_attempts = Min({@ + 1, ARP_MAX_ATTEMPTS})]

tick_pending_arp(s, up) ==
  LET p == s.pending_ipv4
  IN  IF p = Nothing \/ p.wait < ARP_RETRY_INTERVAL THEN s
      ELSE IF net_arp_lookup(s, p.next_hop_ip)
           THEN IF p.transmit_attempts >= ARP_MAX_ATTEMPTS
                THEN [s EXCEPT !.pending_ipv4 = Nothing]
                ELSE flush_pending_ipv4(s, up)
      ELSE IF p.arp_attempts >= ARP_MAX_ATTEMPTS THEN [s EXCEPT !.pending_ipv4 = Nothing]
      ELSE [s EXCEPT !.pending_ipv4.wait = 0, !.pending_ipv4.arp_attempts = @ + 1]

\* A packet of the network, or an ARP message, teaches us its sender; what waited
\* for it leaves.
Learn(s, ip, up) == flush_pending_ipv4(arp_learn(s, ip), up)

----------------------------------------------------------------------------
(* Configuration *)

net_dns_cache_clear(s) == [s EXCEPT !.dns_cache = [i \in DOMAIN @ |-> Nothing]]
ForgetNetwork(s) ==
  [s EXCEPT !.arp = [i \in DOMAIN @ |-> Nothing], !.pending_ipv4 = Nothing]

\* Mutant: a new netmask alone does not count.
MaskIgnored(old, new) == old.address # new.address \/ old.gateway # new.gateway

\* Whether the addresses on the link, or the way to others, may be different.
network_changed(old, new) ==
  old.address # new.address \/ old.netmask # new.netmask \/ old.gateway # new.gateway

\* Mutant: only a new network clears the answers, not a new resolver.
ConfigureKeepsAnswers(s, config) ==
  LET t == [s EXCEPT !.ipv4 = config]
  IN  IF network_changed(s.ipv4, config) THEN net_dns_cache_clear(ForgetNetwork(t)) ELSE t

net_configure_ipv4(s, config) ==
  LET changed == network_changed(s.ipv4, config)
      t == [s EXCEPT !.ipv4 = config]
      u == IF changed THEN ForgetNetwork(t) ELSE t
  IN  IF changed \/ s.ipv4.dns # config.dns THEN net_dns_cache_clear(u) ELSE u

net_clear_ipv4(s) ==
  net_dns_cache_clear(ForgetNetwork(
    [s EXCEPT !.ipv4 = NoConfig,
              !.dns = IF @.state = "PENDING"
                      THEN [@ EXCEPT !.state = "TIMED_OUT", !.attempts = 0, !.wait = 0]
                      ELSE @]))

----------------------------------------------------------------------------
(* The DHCP client *)

dhcp_retry_delay(attempts) == DHCP_RETRY_BASE * 2 ^ Min({attempts, DHCP_SHIFT_MAX})

\* dhcp_send_message: to the server while renewing, else to everyone; whatever the
\* link says, the next attempt is due after a delay that doubles.
dhcp_send_message(s) ==
  LET to == IF s.dhcp.state = "RENEWING" /\ s.dhcp.server # NoIp THEN s.dhcp.server
            ELSE Broadcast
      sent == net_udp_send(s, to, "other", 0).stack
  IN  [sent EXCEPT !.dhcp.wait = dhcp_retry_delay(s.dhcp.attempts),
                   !.dhcp.attempts = Min({@ + 1, DHCP_SHIFT_MAX})]

net_dhcp_start(s) ==
  dhcp_send_message([net_clear_ipv4(s) EXCEPT !.dhcp = [NoDhcp EXCEPT !.state = "DISCOVERING"]])
\* with the next transaction id: answers to the old one no longer count
dhcp_restart(s) == net_dhcp_start(s)

\* An option that the message carries, or the default.
Or(m, option, default) == IF option \in DOMAIN m THEN m[option] ELSE default
RebindOf(lease) == (lease * 7) \div 8
FromOther(s, m) == s.dhcp.server # NoIp /\ "server" \in DOMAIN m /\ m.server # s.dhcp.server

\* The DHCPOFFER branch of dhcp_receive.
Offered(s, m, source) ==
  LET lease == Or(m, "lease", DHCP_DEFAULT_LEASE)
  IN  dhcp_send_message([s EXCEPT !.dhcp =
        [@ EXCEPT !.state = "REQUESTING", !.attempts = 0, !.server = Or(m, "server", source),
                  !.offer = [address |-> m.address, netmask |-> Or(m, "netmask", NoIp),
                             gateway |-> Or(m, "gateway", NoIp), dns |-> Or(m, "dns", NoIp)],
                  !.lease = lease, !.renewal = Or(m, "renewal", lease \div 2),
                  !.rebind = Or(m, "rebind", RebindOf(lease))]])

\* The DHCPACK branch.  What it leaves out is as offered; a netmask that is none
\* becomes the default.  A lease of zero seconds is refused, but only after the server
\* and the lease time were stored.
Acknowledged(s, m, source) ==
  LET address == IF m.address \in Ips THEN m.address
                 ELSE IF s.ipv4.address \in Ips THEN s.ipv4.address ELSE s.dhcp.offer.address
      mask == Or(m, "netmask", s.dhcp.offer.netmask)
      config == [address |-> address,
                 netmask |-> IF ipv4_netmask_is_valid(mask) THEN mask ELSE DefaultMask,
                 gateway |-> Usable(Or(m, "gateway", s.dhcp.offer.gateway)),
                 dns |-> Usable(Or(m, "dns", s.dhcp.offer.dns))]
      from == Or(m, "server", source)
      server == IF from \in Ips THEN from ELSE s.dhcp.server
      lease == Or(m, "lease", IF s.dhcp.lease # 0 THEN s.dhcp.lease ELSE DHCP_DEFAULT_LEASE)
      asked == Or(m, "renewal", lease \div 2)
      renewal == IF asked >= lease THEN lease \div 2 ELSE asked
      late == Or(m, "rebind", RebindOf(lease))
      rebind == IF late <= renewal \/ late >= lease THEN RebindOf(lease) ELSE late
      t == [s EXCEPT !.dhcp.server = server, !.dhcp.lease = lease]
  IN  IF address \notin Ips THEN s
      ELSE IF lease = 0 THEN t
      ELSE [net_configure_ipv4(t, config) EXCEPT
              !.dhcp = [@ EXCEPT !.state = "BOUND", !.renewal = renewal, !.rebind = rebind,
                                 !.elapsed = 0, !.wait = renewal, !.attempts = 0]]

\* dhcp_receive: a message that answers our transaction; m holds its options.
dhcp_receive(s, type, m, source) ==
  CASE type = "OFFER" /\ s.dhcp.state = "DISCOVERING" /\ m.address \in Ips
         /\ Or(m, "server", source) \in Ips -> Offered(s, m, source)
    [] type = "NAK" /\ s.dhcp.state \in {"REQUESTING", "RENEWING", "REBINDING"}
         /\ ~(FromOther(s, m) /\ s.dhcp.state # "REBINDING") -> dhcp_restart(s)
    [] type = "ACK" /\ s.dhcp.state \in {"REQUESTING", "RENEWING", "REBINDING"}
         /\ ~(FromOther(s, m) /\ s.dhcp.state # "REBINDING") -> Acknowledged(s, m, source)
    [] OTHER -> s

\* Mutant: only a lease in state BOUND expires.
TickDhcpUntimed(s) ==
  LET d == s.dhcp
  IN  CASE d.state = "OFF" -> s
        [] d.state = "BOUND" ->
             IF d.elapsed >= d.lease THEN dhcp_restart(s)
             ELSE IF d.elapsed >= d.renewal
                  THEN dhcp_send_message([s EXCEPT !.dhcp.state = "RENEWING", !.dhcp.attempts = 0])
             ELSE s
        [] d.state = "RENEWING" /\ d.elapsed >= d.rebind ->
             dhcp_send_message([s EXCEPT !.dhcp.state = "REBINDING", !.dhcp.attempts = 0])
        [] OTHER -> IF d.wait = 0 THEN dhcp_send_message(s) ELSE s

tick_dhcp(s) ==
  LET d == s.dhcp
      Ask(state) == dhcp_send_message([s EXCEPT !.dhcp.state = state, !.dhcp.attempts = 0])
  IN  CASE d.state = "OFF" -> s
        [] d.state \in Bound /\ d.elapsed >= d.lease -> dhcp_restart(s)
        [] d.state = "BOUND" /\ d.elapsed < d.lease ->
             IF d.elapsed >= d.renewal THEN Ask("RENEWING") ELSE s
        [] d.state = "RENEWING" /\ d.elapsed < d.lease /\ d.elapsed >= d.rebind ->
             Ask("REBINDING")
        [] OTHER -> IF d.wait = 0 THEN dhcp_send_message(s) ELSE s

----------------------------------------------------------------------------
(* The resolver *)

Unlimited == 1000000           \* UINT32_MAX

\* A round of the loop of dns_find_address_answer.  at is where the loop stands: at
\* which name, with the shortest lifetime used so far, and whether it goes on.
Round(records, hop, at) ==
  LET Owned(type) == {i \in DOMAIN records : records[i].owner = at.name /\ records[i].type = type}
      as == Owned("A")
      cs == Owned("CNAME")
      cname == records[Min(cs)]
  IN  IF (as # {} /\ cs # {}) \/ (\E i, j \in cs : i # j)
      THEN [at EXCEPT !.kind = "MALFORMED"]
      ELSE IF as # {}
      THEN [at EXCEPT !.kind = "ADDRESS", !.address = records[Min(as)].data,
                      !.ttl = Min({records[i].ttl : i \in as} \cup {@})]
      ELSE IF cs = {} THEN [at EXCEPT !.kind = "NOT_FOUND"]
      ELSE IF hop = DNS_MAX_CNAME_HOPS \/ cname.data = at.name
      THEN [at EXCEPT !.kind = "MALFORMED"]
      ELSE [at EXCEPT !.name = cname.data, !.ttl = Min({@, cname.ttl})]

\* Where the loop stands after each round: it follows the aliases from the name,
\* through the answer records in any order.
Rounds(records, name) ==
  LET at[hop \in 0 .. DNS_MAX_CNAME_HOPS + 1] ==
        IF hop = 0
        THEN [kind |-> "GOING", name |-> name, address |-> NoIp, ttl |-> Unlimited]
        ELSE LET before == at[hop - 1]
             IN  IF before.kind = "GOING" THEN Round(records, hop - 1, before) ELSE before
  IN  at

dns_find_address_answer(records, name) == Rounds(records, name)[DNS_MAX_CNAME_HOPS + 1]

\* What the answer section of a server may amount to, and the messages it may send
\* when asked for a name; one about another name, or with other flags, or that fails
\* dns_validate_record_sections, is malformed.
AnswerSections(server) ==
  UNION {{q \in [1 .. k -> Records[server]] : IsInjective(q)} : k \in 0 .. MaxAnswers}
Messages == [server \in DOMAIN Records |-> [name \in Names |->
  LET Message(code, malformed, soa, answer) ==
        [code |-> code, malformed |-> malformed, soa |-> soa, answer |-> answer]
      found == {dns_find_address_answer(q, name) : q \in AnswerSections(server)}
      none == dns_find_address_answer(<<>>, name)
  IN  {Message(0, TRUE, 0, none), Message(2, FALSE, 0, none)}
        \cup {Message(code, FALSE, soa, a) : code \in {0, 3}, soa \in SoaTtls, a \in found}]]

dns_cache_find(s, name) == {i \in Valid(s.dns_cache) : s.dns_cache[i].name = name}

dns_cache_store(s, name, address, ttl) ==
  LET known == dns_cache_find(s, name)
      age == [j \in Valid(s.dns_cache) |-> s.dns_cache[j].used]
      i == IF known # {} THEN Min(known) ELSE SlotFor(s.dns_cache, age)
  IN  IF ttl = 0 THEN s
      ELSE [s EXCEPT !.dns_cache[i] = [name |-> name, address |-> address,
                                       expires |-> ttl, used |-> 0]]

Ended(s, state, address) ==
  [s EXCEPT !.dns = [@ EXCEPT !.state = state, !.address = address,
                              !.attempts = 0, !.wait = 0]]

\* dns_receive.  m.answer is what dns_find_address_answer makes of the message.
dns_receive(s, source, id, m) ==
  LET a == m.answer
      soa == Min({m.soa, NET_DNS_NEGATIVE_TTL_MAX})
  IN  CASE s.dns.state # "PENDING" \/ source # s.ipv4.dns \/ id # s.dns.id -> s
        [] OTHER ->
             IF m.malformed THEN Ended(s, "MALFORMED_RESPONSE", NoIp)
             ELSE IF m.code \notin {0, 3} THEN Ended(s, "SERVER_ERROR", NoIp)
             ELSE IF a.kind = "MALFORMED" \/ (a.kind = "ADDRESS" /\ m.code # 0)
             THEN Ended(s, "MALFORMED_RESPONSE", NoIp)
             ELSE IF a.kind = "ADDRESS"
             THEN dns_cache_store(Ended(s, "RESOLVED", a.address), s.dns.name, a.address, a.ttl)
             ELSE dns_cache_store(Ended(s, "NOT_FOUND", NoIp), s.dns.name, NoIp, Min({soa, a.ttl}))

\* Mutant: an attempt that could not be sent is not counted.
SendQueryUncounted(s) ==
  LET sent == net_udp_send(s, s.ipv4.dns, "dns", s.dns.id)
  IN  [sent.stack EXCEPT !.dns.attempts = IF sent.result = "FAILED" THEN @ ELSE @ + 1,
                         !.dns.wait = DNS_RETRY_INTERVAL]

dns_send_query(s) ==
  [net_udp_send(s, s.ipv4.dns, "dns", s.dns.id).stack EXCEPT
     !.dns.attempts = @ + 1, !.dns.wait = DNS_RETRY_INTERVAL]

tick_dns(s) ==
  IF s.dns.state # "PENDING" \/ s.dns.wait > 0 THEN s
  ELSE IF s.dns.attempts >= DNS_MAX_ATTEMPTS THEN Ended(s, "TIMED_OUT", NoIp)
  ELSE dns_send_query(s)

\* net_dns_query: from the cache, or refused without a resolver, or asked.
net_dns_query(s, name, id) ==
  LET known == dns_cache_find(s, name)
      i == Min(known)
      cached == s.dns_cache[i].address
  IN  IF known # {}
      THEN [s EXCEPT !.dns_cache[i].used = 0,
                     !.dns = [NoDns EXCEPT !.name = name, !.address = cached,
                                !.state = IF cached = NoIp THEN "NOT_FOUND" ELSE "RESOLVED"]]
      ELSE IF s.ipv4.address = NoIp \/ s.ipv4.dns = NoIp THEN s
      ELSE dns_send_query([s EXCEPT !.dns = [NoDns EXCEPT !.state = "PENDING", !.name = name,
                                                          !.id = id]])

\* net_dns_cancel also takes back the datagram that waits for ARP.
net_dns_cancel(s) ==
  LET p == s.pending_ipv4
  IN  IF s.dns.state # "PENDING" THEN s
      ELSE [s EXCEPT !.dns = NoDns,
              !.pending_ipv4 = IF p # Nothing /\ p.kind = "dns" /\ p.id = s.dns.id
                                    /\ p.destination_ip = s.ipv4.dns
                               THEN Nothing ELSE p]

net_dns_clear_result(s) == [s EXCEPT !.dns = NoDns]

----------------------------------------------------------------------------
(* Echo *)

net_icmp_echo_request(s, destination, id, up) ==
  LET sent == net_ipv4_send(s, destination, "other", 0)
  IN  IF sent.result = "FAILED" \/ (sent.result = "SENT" /\ ~up) THEN s
      ELSE [sent.stack EXCEPT !.echo_request = [destination_ip |-> destination, id |-> id,
                                                sent |-> 0],
                              !.echo_reply = Nothing]

\* receive_icmp: a request is answered, a reply must be the one that is awaited.
receive_icmp(s, source, type, id) ==
  IF type = "REQUEST" THEN net_ipv4_send(s, source, "other", 0).stack
  ELSE IF s.echo_request # Nothing /\ s.echo_request.destination_ip = source
            /\ s.echo_request.id = id
  THEN [s EXCEPT !.echo_request = Nothing, !.echo_reply = [source_ip |-> source, id |-> id]]
  ELSE s

----------------------------------------------------------------------------
(* Time *)

Later(t, d, limit) == Min({t + d, limit})

\* Time passes: current_time_ms is set.
Pass(s, d) ==
  LET p == s.pending_ipv4
      c == s.dhcp
      Older(entry) == [entry EXCEPT !.age = Later(@, d, ARP_ENTRY_LIFETIME)]
      Staler(entry) == [entry EXCEPT !.expires = Minus(@, d), !.used = @ + d]
      arp == [i \in DOMAIN s.arp |-> IF s.arp[i] = Nothing THEN Nothing ELSE Older(s.arp[i])]
      waited == IF p = Nothing THEN Nothing
                ELSE [p EXCEPT !.wait = Later(@, d, ARP_RETRY_INTERVAL)]
      held == IF c.state \in Bound THEN Later(c.elapsed, d, LEASE_MAX) ELSE c.elapsed
      client == [c EXCEPT !.elapsed = held, !.wait = Minus(@, d)]
      asked == [s.dns EXCEPT !.wait = Minus(@, d)]
      answers == [i \in DOMAIN s.dns_cache |->
                    IF s.dns_cache[i] = Nothing THEN Nothing ELSE Staler(s.dns_cache[i])]
      echo == IF s.echo_request = Nothing THEN Nothing
              ELSE [s.echo_request EXCEPT !.sent = Later(@, d, ICMP_ECHO_TIMEOUT)]
  IN  [s EXCEPT !.arp = arp, !.pending_ipv4 = waited, !.dhcp = client, !.dns = asked,
                !.dns_cache = answers, !.echo_request = echo]

\* dns_cache_expire and the loop over the ARP cache
Expire(s) ==
  [s EXCEPT
    !.dns_cache = [i \in DOMAIN @ |-> IF @[i] # Nothing /\ @[i].expires = 0 THEN Nothing ELSE @[i]],
    !.arp = [i \in DOMAIN @ |->
               IF @[i] # Nothing /\ @[i].age >= ARP_ENTRY_LIFETIME THEN Nothing ELSE @[i]]]

tick_echo(s) ==
  IF s.echo_request # Nothing /\ s.echo_request.sent >= ICMP_ECHO_TIMEOUT
  THEN [s EXCEPT !.echo_request = Nothing] ELSE s

----------------------------------------------------------------------------
(* Actions *)

Init == stack = net_init

\* Whether the link takes the packet that waits, if one does.
LinkStates == IF stack.pending_ipv4 = Nothing THEN {TRUE} ELSE BOOLEAN

\* net_tick, which network_poll and net_poll call.
net_tick(d) ==
  \E up \in LinkStates :
  \E s1 \in {Expire(Pass(stack, d))} :
  \E s2 \in {tick_pending_arp(s1, up)} :
  \E s3 \in {tick_dhcp(s2)} :
    stack' = tick_echo(tick_dns(s3))

\* net_dhcp_start: at boot, when a request finds DHCP off, and by the shell's dhcp
\* command, which stops DHCP and clears the configuration first.
DhcpStart == stack' = net_dhcp_start(stack)

\* net_input with an ARP message to us: a request for our address, which is answered,
\* or a reply, which may also name the address 0 of a stack that has none.
receive_arp(sender) == \E up \in LinkStates : stack' = Learn(stack, sender, up)

\* receive_ipv4: what the sender on our network teaches, before the payload counts.
AfterHeader(source, up) ==
  IF ipv4_is_on_link(stack.ipv4, source) THEN Learn(stack, source, up) ELSE stack

\* A DHCP message of a kind that the state waits for; any other teaches no more than
\* an ARP message does.
ReceiveDhcp(source, type, options) ==
  /\ \/ type = "OFFER" /\ stack.dhcp.state = "DISCOVERING"
     \/ type \in {"ACK", "NAK"} /\ stack.dhcp.state \in {"REQUESTING", "RENEWING", "REBINDING"}
  /\ \E up \in LinkStates :
       stack' = dhcp_receive(AfterHeader(source, up), type, options, source)

ReceiveDns(source, id) ==
  /\ stack.ipv4.address # NoIp /\ stack.dns.state = "PENDING"
  /\ \E up \in LinkStates, m \in Messages[source][stack.dns.name] :
       stack' = dns_receive(AfterHeader(source, up), source, id, m)

ReceiveIcmp(source, type, id) ==
  /\ stack.ipv4.address # NoIp
  /\ \E up \in LinkStates : stack' = receive_icmp(AfterHeader(source, up), source, type, id)

\* A frame to us or to everyone, by its type and by what it carries.
net_input ==
  \/ \E sender \in Neighbours : receive_arp(sender)
  \/ \E source \in Servers, type \in {"OFFER", "ACK", "NAK"}, o \in Options :
       ReceiveDhcp(source, type, o)
  \/ \E source \in DOMAIN Records, id \in Ids : ReceiveDns(source, id)
  \/ \E source \in Peers, type \in {"REQUEST", "REPLY"}, id \in Ids :
       ReceiveIcmp(source, type, id)

\* The callers in network.c: one operation at a time, which clears the result that it
\* has read.
Query(name, id) ==
  /\ stack.dns = NoDns /\ stack.echo_reply = Nothing
  /\ stack' = net_dns_query(stack, name, id)
Cancel == stack.dns.state = "PENDING" /\ stack' = net_dns_cancel(stack)
ClearResult == stack.dns # NoDns /\ stack' = net_dns_clear_result(stack)
Ping(destination, id) ==
  /\ stack.dns = NoDns
  /\ \E up \in BOOLEAN : stack' = net_icmp_echo_request(stack, destination, id, up)
ClearReply == stack.echo_reply # Nothing /\ stack' = [stack EXCEPT !.echo_reply = Nothing]
SendSegment(destination) == stack' = net_ipv4_send(stack, destination, "other", 0).stack

Next ==
  \/ \E d \in 0 .. MaxElapsed : net_tick(d)
  \/ DhcpStart
  \/ net_input
  \/ \E name \in Names, id \in Ids : Query(name, id)
  \/ Cancel
  \/ ClearResult
  \/ ClearReply
  \/ \E destination \in Peers, id \in Ids : Ping(destination, id)
  \/ \E destination \in Peers : SendSegment(destination)

\* The idle loops keep polling, and the clock moves on between the polls.
Fairness == WF_stack(\E d \in 1 .. MaxElapsed : net_tick(d))

Spec == Init /\ [][Next]_stack /\ Fairness

----------------------------------------------------------------------------
(* Properties *)

\* The packet that waits for ARP belongs to the network we are in: its checksum
\* covers our present address, its destination is still a single host, and its next
\* hop is still the way there, whatever leases were gained and lost while it waited
\* and whatever they changed: address, netmask, gateway (net_configure_ipv4,
\* net_clear_ipv4).
PacketFitsTheNetwork ==
  LET p == stack.pending_ipv4
  IN  p # Nothing => /\ stack.ipv4.address # NoIp
                     /\ p.source = stack.ipv4.address
                     /\ ~ipv4_is_broadcast(stack.ipv4, p.destination_ip)
                     /\ p.next_hop_ip = NextHop(stack.ipv4, p.destination_ip)

\* The aliases of a server lead from name to n: n is in every set of names that holds
\* name and the targets of its members' aliases.
LeadsTo(server, name, n) ==
  \A names \in SUBSET Names :
    /\ name \in names
    /\ \A r \in Records[server] : r.type = "CNAME" /\ r.owner \in names => r.data \in names
    => n \in names

\* The addresses of a name at a server: those of the A records of every name that its
\* aliases lead to, however many there are.
TrueAddress(server, name) ==
  {r.data : r \in {q \in Records[server] : q.type = "A" /\ LeadsTo(server, name, q.owner)}}

\* An address in the cache is what the resolver of the present configuration says
\* of that name, and every query is answered with an address of its own name:
\* nothing is taken from late answers, from other resolvers or from a network left
\* (net_configure_ipv4, net_clear_ipv4, dns_receive).
AnswersAreCurrent ==
  /\ \A i \in Valid(stack.dns_cache) :
       LET e == stack.dns_cache[i]
       IN  e.address = NoIp \/ e.address \in TrueAddress(stack.ipv4.dns, e.name)
  /\ stack.dns.state = "RESOLVED" =>
       \E server \in DOMAIN Records : stack.dns.address \in TrueAddress(server, stack.dns.name)

\* An address is used only under a lease that runs: the stack is configured exactly
\* while the client holds a lease, and the lease has not expired, in whatever state
\* of renewal.  (A refused acknowledgment of zero seconds ends the lease at the
\* next tick.)
LeaseIsHeld ==
  LET d == stack.dhcp
  IN  /\ stack.ipv4.address # NoIp <=> d.state \in Bound
      /\ d.state \in Bound => d.lease = 0 \/ d.elapsed < d.lease

\* What we send is sent from an address that is ours at that moment: it is leased,
\* and what waits to be sent with it was built for it (tick_dhcp, dhcp_receive,
\* net_configure_ipv4, net_clear_ipv4).
AddressIsHeld == LeaseIsHeld /\ PacketFitsTheNetwork

\* Every question is answered or given up, with the link down, the slot for parked
\* packets taken, the resolver changed or the lease lost.
EveryQueryEnds == stack.dns.state = "PENDING" ~> stack.dns.state # "PENDING"

\* net_dns_cancel takes back the datagram that waits for ARP, "so cancellation
\* cannot transmit it later" (net.c:1593).
CancelTakesBackTheQuery ==
  [][Cancel => stack.pending_ipv4' = Nothing \/ stack.pending_ipv4'.kind # "dns"
                 \/ stack.pending_ipv4'.id # stack.dns.id]_stack
=============================================================================
