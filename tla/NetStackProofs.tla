--------------------------- MODULE NetStackProofs ---------------------------
(***************************************************************************)
(* Proofs about the IPv4 stack, for every set of addresses, leases, hosts   *)
(* and names and every size and interval: an address is used only under a   *)
(* lease that runs, the packet that waits for ARP fits the network, and      *)
(* what is answered or cached for a name is what the resolver says.         *)
(*                                                                         *)
(* The first two are about ipv4, dhcp and pending_ipv4.  The first part says *)
(* which functions leave the first two alone; the second follows the DHCP    *)
(* client; the last is about the resolver, its walk along aliases and cache. *)
(***************************************************************************)
EXTENDS NetStack, WellFoundedInduction, TLAPS

----------------------------------------------------------------------------
(* The invariant, as predicates of a stack s, a configuration and a client d *)

Whole(s) ==
  s = [ipv4 |-> s.ipv4, arp |-> s.arp, pending_ipv4 |-> s.pending_ipv4, dhcp |-> s.dhcp,
       dns |-> s.dns, dns_cache |-> s.dns_cache, echo_request |-> s.echo_request,
       echo_reply |-> s.echo_reply]

\* The packet p has the source and the next hop that the configuration gives it.
PacketOK(p, config) ==
  /\ p = [source |-> p.source, destination_ip |-> p.destination_ip,
          next_hop_ip |-> p.next_hop_ip, kind |-> p.kind, id |-> p.id, wait |-> p.wait,
          arp_attempts |-> p.arp_attempts, transmit_attempts |-> p.transmit_attempts]
  /\ config.address # NoIp
  /\ p.source = config.address
  /\ ~ipv4_is_broadcast(config, p.destination_ip)
  /\ p.next_hop_ip = NextHop(config, p.destination_ip)

Sound(s) ==
  Whole(s) /\ (s.pending_ipv4 # Nothing => PacketOK(s.pending_ipv4, s.ipv4))

WholeClient(d) ==
  /\ DOMAIN d = {"state", "offer", "server", "lease", "renewal", "rebind", "elapsed", "wait",
                 "attempts"}
  /\ d.lease \in Nat /\ d.elapsed \in Nat

\* The stack is configured while the client holds a lease, and an offer it asks for
\* names an address.
Configured(config, d) ==
  /\ WholeClient(d)
  /\ config.address # NoIp <=> d.state \in Bound
  /\ d.state = "REQUESTING" => d.offer.address # NoIp

Unexpired(d) == d.state \in Bound => d.lease = 0 \/ d.elapsed < d.lease

StackOK(s) == Sound(s) /\ Configured(s.ipv4, s.dhcp) /\ Unexpired(s.dhcp)

IInv == StackOK(stack)

----------------------------------------------------------------------------
(* What leaves the configuration and the client alone *)

Frame(t, s) == Sound(t) /\ t.ipv4 = s.ipv4 /\ t.dhcp = s.dhcp

LEMMA FrameChain ==
  ASSUME NEW s, NEW t, NEW u, Frame(t, s), Frame(u, t) PROVE Frame(u, s)
BY DEF Frame

LEMMA FrameKeeps ==
  ASSUME NEW s, NEW t, StackOK(s), Frame(t, s) PROVE StackOK(t)
BY DEF Frame, StackOK

LEMMA ArpFrame ==
  ASSUME NEW s, Sound(s), NEW ip PROVE Frame(arp_learn(s, ip), s)
<1> DEFINE t == arp_learn(s, ip)
<1>1. PICK a : t = [s EXCEPT !.arp = a]
  BY DEF arp_learn, Sound, Whole
<1> HIDE DEF t
<1>2. Frame(t, s)
  BY <1>1 DEF Frame, Sound, Whole
<1> QED
  BY <1>2 DEF t

\* A packet is parked with the source address and the next hop of this moment.
LEMMA SendFrame ==
  ASSUME NEW s, Sound(s), NEW destination, NEW kind, NEW id
  PROVE  Frame(net_ipv4_send(s, destination, kind, id).stack, s)
<1> DEFINE r == net_ipv4_send(s, destination, kind, id)
           hop == NextHop(s.ipv4, destination)
           p == [source |-> s.ipv4.address, destination_ip |-> destination,
                 next_hop_ip |-> hop, kind |-> kind, id |-> id, wait |-> 0,
                 arp_attempts |-> 1, transmit_attempts |-> 0]
<1>1. CASE r.stack = s
  BY <1>1 DEF Frame
<1>2. CASE /\ hop # NoIp /\ ~ipv4_is_broadcast(s.ipv4, destination)
         /\ r.stack = [s EXCEPT !.pending_ipv4 = p]
  <2>1. s.ipv4.address # NoIp
    BY <1>2 DEF NextHop
  <2>2. PacketOK(p, s.ipv4)
    BY <1>2, <2>1 DEF PacketOK
  <2> DEFINE t == r.stack
  <2> HIDE DEF p, r
  <2>3. Frame(t, s)
    BY <1>2, <2>2 DEF Frame, Sound, Whole
  <2> QED
    BY <2>3 DEF r
<1>3. \/ r.stack = s
      \/ (hop # NoIp /\ ~ipv4_is_broadcast(s.ipv4, destination)
            /\ r.stack = [s EXCEPT !.pending_ipv4 = p])
  BY DEF net_ipv4_send
<1> QED
  BY <1>1, <1>2, <1>3

\* The packet keeps its addresses while it waits.
LEMMA WaitingFrame ==
  ASSUME NEW s, Sound(s), s.pending_ipv4 # Nothing, NEW p, NEW t,
         t = [s EXCEPT !.pending_ipv4 = p], PacketOK(p, s.ipv4)
  PROVE  Frame(t, s)
BY DEF Frame, Sound, Whole

LEMMA PacketWaits ==
  ASSUME NEW p, NEW config, PacketOK(p, config), NEW wait, NEW tries, NEW q,
         \/ q = [p EXCEPT !.wait = wait, !.arp_attempts = tries]
         \/ q = [p EXCEPT !.wait = wait, !.transmit_attempts = tries]
  PROVE  PacketOK(q, config)
<1> DEFINE source == p.source
           destination == p.destination_ip
           hop == p.next_hop_ip
           kind == p.kind
           id == p.id
           old == p.wait
           arps == p.arp_attempts
           transmits == p.transmit_attempts
<1>1. p = [source |-> source, destination_ip |-> destination, next_hop_ip |-> hop,
           kind |-> kind, id |-> id, wait |-> old, arp_attempts |-> arps,
           transmit_attempts |-> transmits]
  BY DEF PacketOK
<1>2. /\ config.address # NoIp /\ source = config.address
      /\ ~ipv4_is_broadcast(config, destination)
      /\ hop = NextHop(config, destination)
  BY DEF PacketOK
<1> HIDE DEF source, destination, hop, kind, id, old, arps, transmits
<1>3. PICK a, t :
        q = [source |-> source, destination_ip |-> destination, next_hop_ip |-> hop,
             kind |-> kind, id |-> id, wait |-> wait, arp_attempts |-> a,
             transmit_attempts |-> t]
  BY <1>1
<1>4. /\ q = [source |-> q.source, destination_ip |-> q.destination_ip,
              next_hop_ip |-> q.next_hop_ip, kind |-> q.kind, id |-> q.id, wait |-> q.wait,
              arp_attempts |-> q.arp_attempts, transmit_attempts |-> q.transmit_attempts]
      /\ q.source = source /\ q.next_hop_ip = hop /\ q.destination_ip = destination
  BY <1>3
<1> QED
  BY <1>2, <1>4 DEF PacketOK

LEMMA FlushFrame ==
  ASSUME NEW s, Sound(s), NEW up PROVE Frame(flush_pending_ipv4(s, up), s)
<1> DEFINE t == flush_pending_ipv4(s, up)
           p == s.pending_ipv4
           tries == Min({p.transmit_attempts + 1, ARP_MAX_ATTEMPTS})
           later == [p EXCEPT !.wait = 0, !.transmit_attempts = tries]
<1>1. \/ t = s
      \/ t = [s EXCEPT !.pending_ipv4 = Nothing]
      \/ p # Nothing /\ t = [s EXCEPT !.pending_ipv4.wait = 0,
              !.pending_ipv4.transmit_attempts = Min({@ + 1, ARP_MAX_ATTEMPTS})]
  BY DEF flush_pending_ipv4
<1>2. CASE t = s
  BY <1>2 DEF Frame
<1>3. CASE t = [s EXCEPT !.pending_ipv4 = Nothing]
  <2> HIDE DEF t
  <2>1. Frame(t, s)
    BY <1>3 DEF Frame, Sound, Whole
  <2> QED
    BY <2>1 DEF t
<1>4. CASE p # Nothing /\ t = [s EXCEPT !.pending_ipv4.wait = 0,
              !.pending_ipv4.transmit_attempts = Min({@ + 1, ARP_MAX_ATTEMPTS})]
  <2>1. PacketOK(p, s.ipv4)
    BY <1>4 DEF Sound
  <2>2. t = [s EXCEPT !.pending_ipv4 = later]
    BY <1>4, <2>1 DEF Sound, Whole, PacketOK
  <2>3. PacketOK(later, s.ipv4)
    <3> HIDE DEF tries, p
    <3> QED
      BY <2>1, PacketWaits
  <2> HIDE DEF t, later
  <2>4. Frame(t, s)
    BY <1>4, <2>2, <2>3, WaitingFrame
  <2> QED
    BY <2>4 DEF t
<1> QED
  BY <1>1, <1>2, <1>3, <1>4

LEMMA PendingFrame ==
  ASSUME NEW s, Sound(s), NEW up PROVE Frame(tick_pending_arp(s, up), s)
<1> DEFINE t == tick_pending_arp(s, up)
           p == s.pending_ipv4
           tries == p.arp_attempts + 1
           later == [p EXCEPT !.wait = 0, !.arp_attempts = tries]
<1>1. \/ t = s \/ t = flush_pending_ipv4(s, up)
      \/ t = [s EXCEPT !.pending_ipv4 = Nothing]
      \/ p # Nothing /\ t = [s EXCEPT !.pending_ipv4.wait = 0,
                                      !.pending_ipv4.arp_attempts = @ + 1]
  BY DEF tick_pending_arp
<1>2. CASE t = s \/ t = flush_pending_ipv4(s, up)
  BY <1>2, FlushFrame DEF Frame
<1>3. CASE t = [s EXCEPT !.pending_ipv4 = Nothing]
  <2> HIDE DEF t
  <2>1. Frame(t, s)
    BY <1>3 DEF Frame, Sound, Whole
  <2> QED
    BY <2>1 DEF t
<1>4. CASE p # Nothing /\ t = [s EXCEPT !.pending_ipv4.wait = 0,
                                        !.pending_ipv4.arp_attempts = @ + 1]
  <2>1. PacketOK(p, s.ipv4)
    BY <1>4 DEF Sound
  <2>2. t = [s EXCEPT !.pending_ipv4 = later]
    BY <1>4, <2>1 DEF Sound, Whole, PacketOK
  <2>3. PacketOK(later, s.ipv4)
    <3> HIDE DEF tries, p
    <3> QED
      BY <2>1, PacketWaits
  <2> HIDE DEF t, later
  <2>4. Frame(t, s)
    BY <1>4, <2>2, <2>3, WaitingFrame
  <2> QED
    BY <2>4 DEF t
<1> QED
  BY <1>1, <1>2, <1>3, <1>4

LEMMA LearnFrame ==
  ASSUME NEW s, Sound(s), NEW ip, NEW up PROVE Frame(Learn(s, ip, up), s)
<1> DEFINE t == arp_learn(s, ip)
<1>1. Frame(t, s) /\ Sound(t)
  BY ArpFrame DEF Frame
<1> HIDE DEF t
<1>2. Frame(flush_pending_ipv4(t, up), t)
  BY <1>1, FlushFrame
<1>3. Frame(flush_pending_ipv4(t, up), s)
  BY <1>1, <1>2, FrameChain
<1> QED
  BY <1>3 DEF Learn, t

(* The resolver *)

LEMMA EndedFrame ==
  ASSUME NEW s, Sound(s), NEW state, NEW address PROVE Frame(Ended(s, state, address), s)
<1> DEFINE t == Ended(s, state, address)
<1>1. PICK a : t = [s EXCEPT !.dns = a]
  BY DEF Ended, Sound, Whole
<1> HIDE DEF t
<1>2. Frame(t, s)
  BY <1>1 DEF Frame, Sound, Whole
<1> QED
  BY <1>2 DEF t

LEMMA StoreFrame ==
  ASSUME NEW s, Sound(s), NEW name, NEW address, NEW ttl
  PROVE  Frame(dns_cache_store(s, name, address, ttl), s)
<1> DEFINE t == dns_cache_store(s, name, address, ttl)
<1>1. PICK a : t = [s EXCEPT !.dns_cache = a] \/ t = s
  BY DEF dns_cache_store, Sound, Whole
<1> HIDE DEF t
<1>2. Frame(t, s)
  BY <1>1 DEF Frame, Sound, Whole
<1> QED
  BY <1>2 DEF t

LEMMA DnsReceiveFrame ==
  ASSUME NEW s, Sound(s), NEW source, NEW from, NEW m PROVE Frame(dns_receive(s, source, from, m), s)
<1> DEFINE t == dns_receive(s, source, from, m)
<1>1. \/ t = s
      \/ \E state, address : t = Ended(s, state, address)
      \/ \E state, address, name, at, ttl :
           t = dns_cache_store(Ended(s, state, address), name, at, ttl)
  BY Zenon DEF dns_receive
<1>2. CASE t = s
  BY <1>2 DEF Frame
<1>3. ASSUME NEW state, NEW address, t = Ended(s, state, address) PROVE Frame(t, s)
  BY <1>3, EndedFrame
<1>4. ASSUME NEW state, NEW address, NEW name, NEW at, NEW ttl,
             t = dns_cache_store(Ended(s, state, address), name, at, ttl)
      PROVE  Frame(t, s)
  <2> DEFINE u == Ended(s, state, address)
  <2>1. Frame(u, s) /\ Sound(u)
    BY EndedFrame DEF Frame
  <2> HIDE DEF u
  <2>2. Frame(dns_cache_store(u, name, at, ttl), u)
    BY <2>1, StoreFrame
  <2>3. Frame(dns_cache_store(u, name, at, ttl), s)
    BY <2>1, <2>2, FrameChain
  <2> QED
    BY <1>4, <2>3 DEF u
<1> QED
  BY <1>1, <1>2, <1>3, <1>4, Zenon

LEMMA QueryFrame ==
  ASSUME NEW s, Sound(s) PROVE Frame(dns_send_query(s), s)
<1> DEFINE u == net_ipv4_send(s, s.ipv4.dns, "dns", s.dns.id).stack
           t == dns_send_query(s)
<1>1. Frame(u, s) /\ Sound(u)
  BY SendFrame DEF Frame
<1>2. t = [u EXCEPT !.dns.attempts = @ + 1, !.dns.wait = DNS_RETRY_INTERVAL]
  BY DEF dns_send_query, net_udp_send
<1> HIDE DEF u, t
<1>3. PICK a : t = [u EXCEPT !.dns = a]
  BY <1>1, <1>2 DEF Sound, Whole
<1>4. Frame(t, u)
  BY <1>1, <1>3 DEF Frame, Sound, Whole
<1>5. Frame(t, s)
  BY <1>1, <1>4, FrameChain
<1> QED
  BY <1>5 DEF t

LEMMA TickDnsFrame ==
  ASSUME NEW s, Sound(s) PROVE Frame(tick_dns(s), s)
<1>1. tick_dns(s) \in {s, Ended(s, "TIMED_OUT", NoIp), dns_send_query(s)}
  BY DEF tick_dns
<1>2. Frame(s, s)
  BY DEF Frame
<1>3. Frame(Ended(s, "TIMED_OUT", NoIp), s)
  BY EndedFrame
<1> QED
  BY <1>1, <1>2, <1>3, QueryFrame

LEMMA AskFrame ==
  ASSUME NEW s, Sound(s), NEW name, NEW id PROVE Frame(net_dns_query(s, name, id), s)
<1> DEFINE t == net_dns_query(s, name, id)
<1>1. \/ t = s
      \/ \E i, a : t = [s EXCEPT !.dns_cache[i].used = 0, !.dns = a]
      \/ \E a : t = dns_send_query([s EXCEPT !.dns = a])
  BY Zenon DEF net_dns_query
<1>2. CASE t = s
  BY <1>2 DEF Frame
<1>3. ASSUME NEW i, NEW a, t = [s EXCEPT !.dns_cache[i].used = 0, !.dns = a]
      PROVE  Frame(t, s)
  <2>1. PICK b : t = [s EXCEPT !.dns_cache = b, !.dns = a]
    BY <1>3 DEF Sound, Whole
  <2> HIDE DEF t
  <2>2. Frame(t, s)
    BY <2>1 DEF Frame, Sound, Whole
  <2> QED
    BY <2>2
<1>4. ASSUME NEW a, t = dns_send_query([s EXCEPT !.dns = a]) PROVE Frame(t, s)
  <2> DEFINE u == [s EXCEPT !.dns = a]
  <2>1. Frame(u, s) /\ Sound(u)
    BY DEF Frame, Sound, Whole
  <2> HIDE DEF u
  <2>2. Frame(dns_send_query(u), s)
    BY <2>1, QueryFrame, FrameChain
  <2> QED
    BY <1>4, <2>2 DEF u
<1> QED
  BY <1>1, <1>2, <1>3, <1>4, Zenon

LEMMA CancelFrame ==
  ASSUME NEW s, Sound(s) PROVE Frame(net_dns_cancel(s), s)
<1> DEFINE t == net_dns_cancel(s)
<1>1. PICK a, p : /\ p = s.pending_ipv4 \/ p = Nothing
                  /\ t = s \/ t = [s EXCEPT !.dns = a, !.pending_ipv4 = p]
  BY DEF net_dns_cancel
<1> HIDE DEF t
<1>2. Frame(t, s)
  BY <1>1 DEF Frame, Sound, Whole
<1> QED
  BY <1>2 DEF t

LEMMA ClearResultFrame ==
  ASSUME NEW s, Sound(s) PROVE Frame(net_dns_clear_result(s), s)
<1> DEFINE a == NoDns
<1>1. net_dns_clear_result(s) = [s EXCEPT !.dns = a]
  BY DEF net_dns_clear_result
<1> HIDE DEF a
<1> QED
  BY <1>1 DEF Frame, Sound, Whole

(* Echo and the caches *)

LEMMA EchoFrame ==
  ASSUME NEW s, Sound(s), NEW d, NEW e, NEW t,
         t = [s EXCEPT !.echo_request = d, !.echo_reply = e]
  PROVE  Frame(t, s)
BY DEF Frame, Sound, Whole

LEMMA PingFrame ==
  ASSUME NEW s, Sound(s), NEW destination, NEW id, NEW up
  PROVE  Frame(net_icmp_echo_request(s, destination, id, up), s)
<1> DEFINE other == "other"
           zero == 0
           u == net_ipv4_send(s, destination, other, zero).stack
           t == net_icmp_echo_request(s, destination, id, up)
<1>1. PICK d, e : t = s \/ t = [u EXCEPT !.echo_request = d, !.echo_reply = e]
  BY DEF net_icmp_echo_request
<1> HIDE DEF other, zero
<1>2. Frame(u, s) /\ Sound(u)
  BY SendFrame DEF Frame
<1> HIDE DEF u, t
<1>3. CASE t = s
  BY <1>3 DEF Frame, t
<1>4. CASE t = [u EXCEPT !.echo_request = d, !.echo_reply = e]
  <2>1. Frame(t, u)
    BY <1>2, <1>4, EchoFrame
  <2>2. Frame(t, s)
    BY <1>2, <2>1, FrameChain
  <2> QED
    BY <2>2 DEF t
<1> QED
  BY <1>1, <1>3, <1>4

LEMMA IcmpFrame ==
  ASSUME NEW s, Sound(s), NEW source, NEW type, NEW id
  PROVE  Frame(receive_icmp(s, source, type, id), s)
<1> DEFINE other == "other"
           zero == 0
           t == receive_icmp(s, source, type, id)
<1>1. PICK d, e : \/ t = s \/ t = net_ipv4_send(s, source, other, zero).stack
                  \/ t = [s EXCEPT !.echo_request = d, !.echo_reply = e]
  BY DEF receive_icmp
<1> HIDE DEF other, zero
<1>2. Frame(s, s) /\ Frame(net_ipv4_send(s, source, other, zero).stack, s)
  BY SendFrame DEF Frame
<1> HIDE DEF t
<1>3. Frame(t, s)
  BY <1>1, <1>2, EchoFrame
<1> QED
  BY <1>3 DEF t

LEMMA TickEchoFrame ==
  ASSUME NEW s, Sound(s) PROVE Frame(tick_echo(s), s)
<1> DEFINE t == tick_echo(s)
<1>1. PICK d : t = s \/ t = [s EXCEPT !.echo_request = d]
  BY DEF tick_echo
<1> HIDE DEF t
<1>2. Frame(t, s)
  BY <1>1 DEF Frame, Sound, Whole
<1> QED
  BY <1>2 DEF t

LEMMA ExpireFrame ==
  ASSUME NEW s, Sound(s) PROVE Frame(Expire(s), s)
<1> DEFINE t == Expire(s)
<1>1. PICK c, a : t = [s EXCEPT !.dns_cache = c, !.arp = a]
  BY DEF Expire
<1> HIDE DEF t
<1>2. Frame(t, s)
  BY <1>1 DEF Frame, Sound, Whole
<1> QED
  BY <1>2 DEF t

----------------------------------------------------------------------------
(* The DHCP client *)

\* Two clients that differ in their timers for messages, their attempts and the
\* server only.
SameClient(e, d) ==
  /\ WholeClient(e) /\ e.state = d.state /\ e.offer = d.offer
  /\ e.lease = d.lease /\ e.elapsed = d.elapsed

LEMMA ClientTimed ==
  ASSUME NEW d, WholeClient(d), NEW w, NEW a, NEW e, e = [d EXCEPT !.wait = w, !.attempts = a]
  PROVE  SameClient(e, d)
BY DEF SameClient, WholeClient

LEMMA MessageKeeps ==
  ASSUME NEW s, StackOK(s) PROVE StackOK(dhcp_send_message(s))
<1> DEFINE to == IF s.dhcp.state = "RENEWING" /\ s.dhcp.server # NoIp THEN s.dhcp.server
                 ELSE Broadcast
           other == "other"
           zero == 0
           sent == net_ipv4_send(s, to, other, zero).stack
           delay == dhcp_retry_delay(s.dhcp.attempts)
           t == dhcp_send_message(s)
<1>1. t = [sent EXCEPT !.dhcp.wait = delay, !.dhcp.attempts = Min({@ + 1, DHCP_SHIFT_MAX})]
  BY DEF dhcp_send_message, net_udp_send
<1> HIDE DEF to, other, zero, delay, t
<1>2. Frame(sent, s)
  BY SendFrame DEF StackOK
<1>3. StackOK(sent)
  BY <1>2, FrameKeeps
<1> HIDE DEF sent
<1> DEFINE d == sent.dhcp
           tries == Min({d.attempts + 1, DHCP_SHIFT_MAX})
           e == [d EXCEPT !.wait = delay, !.attempts = tries]
<1>4. WholeClient(d)
  BY <1>3 DEF StackOK, Configured
<1>5. t = [sent EXCEPT !.dhcp = e]
  BY <1>1, <1>3, <1>4 DEF StackOK, Sound, Whole, WholeClient
<1>6. SameClient(e, d)
  <2> HIDE DEF d, tries
  <2> QED
    BY <1>4, ClientTimed
<1> HIDE DEF e
<1>7. Sound(t) /\ t.ipv4 = sent.ipv4 /\ t.dhcp = e
  BY <1>3, <1>5 DEF StackOK, Sound, Whole
<1>8. Configured(sent.ipv4, e) /\ Unexpired(e)
  BY <1>3, <1>6 DEF StackOK, Configured, Unexpired, SameClient
<1>9. StackOK(t)
  BY <1>7, <1>8 DEF StackOK
<1> QED
  BY <1>9 DEF t

LEMMA ClearForgets ==
  ASSUME NEW s, Sound(s)
  PROVE  /\ Sound(net_clear_ipv4(s)) /\ net_clear_ipv4(s).ipv4 = NoConfig
         /\ net_clear_ipv4(s).dhcp = s.dhcp
<1> DEFINE none == NoConfig
           nothing == Nothing
           t == net_clear_ipv4(s)
<1>1. PICK a, b, c :
        t = [s EXCEPT !.ipv4 = none, !.dns = a, !.arp = b, !.pending_ipv4 = nothing,
                      !.dns_cache = c]
  BY DEF net_clear_ipv4, net_dns_cache_clear, ForgetNetwork, Sound, Whole
<1> HIDE DEF t, none
<1>2. Sound(t) /\ t.ipv4 = none /\ t.dhcp = s.dhcp
  BY <1>1 DEF Sound, Whole
<1> QED
  BY <1>2 DEF t, none

LEMMA StartKeeps ==
  ASSUME NEW s, Sound(s) PROVE StackOK(net_dhcp_start(s))
<1> DEFINE t == net_clear_ipv4(s)
           d == [NoDhcp EXCEPT !.state = "DISCOVERING"]
           u == [t EXCEPT !.dhcp = d]
<1>1. Sound(t) /\ t.ipv4 = NoConfig
  BY ClearForgets
<1>2. WholeClient(d) /\ d.state = "DISCOVERING"
  BY DEF WholeClient, NoDhcp
<1> HIDE DEF t, d
<1>3. Sound(u) /\ u.ipv4 = NoConfig /\ u.dhcp = d
  BY <1>1 DEF Sound, Whole
<1>4. Configured(NoConfig, d) /\ Unexpired(d)
  BY <1>2 DEF Configured, Unexpired, Bound, NoConfig
<1> HIDE DEF u
<1>5. StackOK(u)
  BY <1>3, <1>4 DEF StackOK
<1>6. StackOK(dhcp_send_message(u))
  BY <1>5, MessageKeeps
<1> QED
  BY <1>6 DEF net_dhcp_start, u, t, d

\* A new configuration takes the packet along only when its way stays the same.
LEMMA ConfigureKeeps ==
  ASSUME NEW s, Sound(s), NEW config
  PROVE  /\ Sound(net_configure_ipv4(s, config))
         /\ net_configure_ipv4(s, config).ipv4 = config
         /\ net_configure_ipv4(s, config).dhcp = s.dhcp
<1> DEFINE v == net_configure_ipv4(s, config)
           changed == network_changed(s.ipv4, config)
           t == [s EXCEPT !.ipv4 = config]
           w == ForgetNetwork(t)
<1>0. v = IF changed \/ s.ipv4.dns # config.dns
          THEN net_dns_cache_clear(IF changed THEN w ELSE t) ELSE IF changed THEN w ELSE t
  BY DEF net_configure_ipv4
<1>1. CASE changed
  <2> DEFINE nothing == Nothing
             a == [i \in DOMAIN t.arp |-> nothing]
             c == [i \in DOMAIN w.dns_cache |-> nothing]
  <2>1. v = [w EXCEPT !.dns_cache = c]
    BY <1>0, <1>1, Zenon DEF net_dns_cache_clear
  <2>2. w = [t EXCEPT !.arp = a, !.pending_ipv4 = nothing]
    BY Zenon DEF ForgetNetwork
  <2> HIDE DEF nothing, a, c, w
  <2>3. v = [s EXCEPT !.ipv4 = config, !.arp = a, !.pending_ipv4 = nothing, !.dns_cache = c]
    BY <2>1, <2>2 DEF Sound, Whole
  <2> USE DEF nothing
  <2> HIDE DEF v
  <2>4. Sound(v) /\ v.ipv4 = config /\ v.dhcp = s.dhcp
    BY <2>3 DEF Sound, Whole
  <2> QED
    BY <2>4 DEF v
<1>2. CASE ~changed
  <2> DEFINE c == [i \in DOMAIN t.dns_cache |-> Nothing]
  <2>1. v = [t EXCEPT !.dns_cache = c] \/ v = t
    BY <1>0, <1>2, Zenon DEF net_dns_cache_clear
  <2> HIDE DEF c
  <2>2. PICK e : v = [s EXCEPT !.ipv4 = config, !.dns_cache = e]
    BY <2>1 DEF Sound, Whole
  <2> HIDE DEF v
  <2>3. Whole(v) /\ v.ipv4 = config /\ v.dhcp = s.dhcp /\ v.pending_ipv4 = s.pending_ipv4
    BY <2>2 DEF Sound, Whole
  <2>4. ASSUME NEW p, PacketOK(p, s.ipv4) PROVE PacketOK(p, config)
    BY <1>2, <2>4
    DEF PacketOK, NextHop, ipv4_is_on_link, ipv4_is_broadcast, network_changed
  <2>5. Sound(v)
    BY <2>3, <2>4 DEF Sound
  <2> QED
    BY <2>3, <2>5 DEF v
<1> QED
  BY <1>1, <1>2

\* A message with a lease has a number there.
Leased(m) == "lease" \in DOMAIN m => m.lease \in Nat

LEMMA OptionsAreLeased ==
  ASSUME NEW o \in Options PROVE Leased(o)
BY LeaseAssumption DEF Leased

LEMMA OrIsANumber ==
  ASSUME NEW m, Leased(m), NEW default \in Nat PROVE Or(m, "lease", default) \in Nat
BY DEF Leased, Or

LEMMA OfferKeeps ==
  ASSUME NEW s, StackOK(s), s.dhcp.state = "DISCOVERING", NEW m, Leased(m),
         m.address \in Ips, NEW source
  PROVE  StackOK(Offered(s, m, source))
<1> DEFINE lease == Or(m, "lease", DHCP_DEFAULT_LEASE)
           requesting == "REQUESTING"
           zero == 0
           server == Or(m, "server", source)
           offer == [address |-> m.address, netmask |-> Or(m, "netmask", NoIp),
                     gateway |-> Or(m, "gateway", NoIp), dns |-> Or(m, "dns", NoIp)]
           renewal == Or(m, "renewal", lease \div 2)
           rebind == Or(m, "rebind", RebindOf(lease))
           d == s.dhcp
           e == [d EXCEPT !.state = requesting, !.attempts = zero, !.server = server,
                          !.offer = offer, !.lease = lease, !.renewal = renewal,
                          !.rebind = rebind]
           u == [s EXCEPT !.dhcp = e]
<1>1. Offered(s, m, source) = dhcp_send_message(u)
  BY DEF Offered
<1>2. lease \in Nat
  BY LeaseAssumption, OrIsANumber
<1>3. offer.address # NoIp
  BY AddressAssumption
<1>4. /\ WholeClient(d) /\ s.ipv4.address = NoIp
  BY DEF StackOK, Configured, Bound
<1> HIDE DEF lease, server, offer, renewal, rebind, d, requesting
<1>5. WholeClient(e) /\ e.state = requesting /\ e.offer = offer
  BY <1>2, <1>4 DEF WholeClient
<1>6. e.state = "REQUESTING"
  BY <1>5 DEF requesting
<1> HIDE DEF e
<1>7. Sound(u) /\ u.ipv4 = s.ipv4 /\ u.dhcp = e
  BY DEF StackOK, Sound, Whole
<1>8. Configured(s.ipv4, e) /\ Unexpired(e)
  BY <1>3, <1>4, <1>5, <1>6 DEF Configured, Unexpired, Bound
<1> HIDE DEF u
<1>9. StackOK(u)
  BY <1>7, <1>8 DEF StackOK
<1> QED
  BY <1>1, <1>9, MessageKeeps

LEMMA AcknowledgmentKeeps ==
  ASSUME NEW s, StackOK(s), s.dhcp.state \in {"REQUESTING", "RENEWING", "REBINDING"},
         NEW m, Leased(m), NEW source
  PROVE  StackOK(Acknowledged(s, m, source))
<1> DEFINE address == IF m.address \in Ips THEN m.address
                      ELSE IF s.ipv4.address \in Ips THEN s.ipv4.address
                      ELSE s.dhcp.offer.address
           mask == Or(m, "netmask", s.dhcp.offer.netmask)
           config == [address |-> address,
                      netmask |-> IF ipv4_netmask_is_valid(mask) THEN mask ELSE DefaultMask,
                      gateway |-> Usable(Or(m, "gateway", s.dhcp.offer.gateway)),
                      dns |-> Usable(Or(m, "dns", s.dhcp.offer.dns))]
           from == Or(m, "server", source)
           default == IF s.dhcp.lease # 0 THEN s.dhcp.lease ELSE DHCP_DEFAULT_LEASE
           lease == Or(m, "lease", default)
           asked == Or(m, "renewal", lease \div 2)
           renewal == IF asked >= lease THEN lease \div 2 ELSE asked
           late == Or(m, "rebind", RebindOf(lease))
           rebind == IF late <= renewal \/ late >= lease THEN RebindOf(lease) ELSE late
           server == IF from \in Ips THEN from ELSE s.dhcp.server
           d == s.dhcp
           e == [d EXCEPT !.server = server, !.lease = lease]
           t == [s EXCEPT !.dhcp.server = server, !.dhcp.lease = lease]
           bound == "BOUND"
           zero == 0
           v == net_configure_ipv4(t, config)
           g == [v.dhcp EXCEPT !.state = bound, !.renewal = renewal, !.rebind = rebind,
                               !.elapsed = zero, !.wait = renewal, !.attempts = zero]
           w == [v EXCEPT !.dhcp = g]
<1>1. WholeClient(d)
  BY DEF StackOK, Configured
<1>2. t = [s EXCEPT !.dhcp = e]
  BY <1>1 DEF StackOK, Sound, Whole
<1>3. Acknowledged(s, m, source) = IF address \notin Ips THEN s ELSE IF lease = 0 THEN t ELSE w
  BY Zenon DEF Acknowledged
<1>4. lease \in Nat
  <2>1. default \in Nat
    BY <1>1, LeaseAssumption DEF WholeClient
  <2> HIDE DEF default
  <2> QED
    BY <2>1, OrIsANumber
<1>5. address \in Ips => config.address # NoIp
  BY AddressAssumption
<1>6. zero \in Nat /\ bound \in Bound
  BY DEF Bound
<1> HIDE DEF lease, server, d, config, bound, renewal, rebind, address
<1>7. /\ WholeClient(e) /\ e.state = d.state /\ e.offer = d.offer /\ e.lease = lease
  BY <1>1, <1>4 DEF WholeClient
<1> HIDE DEF e
<1> HIDE DEF t
<1>8. Sound(t) /\ t.ipv4 = s.ipv4 /\ t.dhcp = e
  BY <1>2 DEF StackOK, Sound, Whole
<1>9. CASE address \in Ips /\ lease = 0
  <2>1. Configured(s.ipv4, e) /\ Unexpired(e)
    BY <1>7, <1>9 DEF StackOK, Configured, Unexpired, d
  <2>2. StackOK(t)
    BY <1>8, <2>1 DEF StackOK
  <2> QED
    BY <1>3, <1>9, <2>2
<1>10. CASE address \in Ips /\ lease # 0
  <2>1. Sound(v) /\ v.ipv4 = config /\ v.dhcp = e
    BY <1>8, ConfigureKeeps
  <2> HIDE DEF v
  <2>2. WholeClient(v.dhcp) /\ v.dhcp.lease = lease
    BY <1>7, <2>1
  <2> DEFINE h == v.dhcp
  <2>3. WholeClient(g) /\ g.state = bound /\ g.lease = lease /\ g.elapsed = zero
    <3> HIDE DEF h, zero
    <3>1. g = [h EXCEPT !.state = bound, !.renewal = renewal, !.rebind = rebind,
                        !.elapsed = zero, !.wait = renewal, !.attempts = zero]
      BY DEF h
    <3>2. WholeClient(h) /\ h.lease = lease
      BY <2>2 DEF h
    <3> HIDE DEF g
    <3> QED
      BY <1>6, <3>1, <3>2 DEF WholeClient
  <2> HIDE DEF g
  <2>4. Sound(w) /\ w.ipv4 = config /\ w.dhcp = g
    BY <2>1 DEF Sound, Whole
  <2>5. Unexpired(g)
    BY <1>4, <1>10, <2>3 DEF Unexpired
  <2>6. g.state = "BOUND"
    BY <2>3 DEF bound
  <2>7. Configured(config, g)
    BY <1>5, <1>10, <2>3, <2>6 DEF Configured, Bound
  <2>8. StackOK(w)
    BY <2>4, <2>5, <2>7 DEF StackOK
  <2> QED
    BY <1>3, <1>10, <2>8
<1>11. CASE address \notin Ips
  BY <1>3, <1>11
<1> QED
  BY <1>9, <1>10, <1>11

LEMMA ReceiveKeeps ==
  ASSUME NEW s, StackOK(s), NEW type, NEW m, Leased(m), NEW source
  PROVE  StackOK(dhcp_receive(s, type, m, source))
<1> DEFINE t == dhcp_receive(s, type, m, source)
<1>1. \/ t = s
      \/ t = net_dhcp_start(s)
      \/ s.dhcp.state = "DISCOVERING" /\ m.address \in Ips /\ t = Offered(s, m, source)
      \/ /\ s.dhcp.state \in {"REQUESTING", "RENEWING", "REBINDING"}
         /\ t = Acknowledged(s, m, source)
  BY Zenon DEF dhcp_receive, dhcp_restart
<1>2. Sound(s)
  BY DEF StackOK
<1> HIDE DEF t
<1>3. StackOK(t)
  BY <1>1, <1>2, StartKeeps, OfferKeeps, AcknowledgmentKeeps
<1> QED
  BY <1>3 DEF t

\* What tick_dhcp asks for while the lease runs.
LEMMA AskKeeps ==
  ASSUME NEW s, StackOK(s), s.dhcp.state \in Bound, NEW state \in Bound
  PROVE  StackOK(dhcp_send_message([s EXCEPT !.dhcp.state = state, !.dhcp.attempts = 0]))
<1> DEFINE u == [s EXCEPT !.dhcp.state = state, !.dhcp.attempts = 0]
           d == s.dhcp
           zero == 0
           e == [d EXCEPT !.state = state, !.attempts = zero]
<1>1. WholeClient(d)
  BY DEF StackOK, Configured
<1>2. u = [s EXCEPT !.dhcp = e]
  BY <1>1 DEF StackOK, Sound, Whole
<1> HIDE DEF zero, u
<1>3. /\ WholeClient(e) /\ e.state = state /\ e.lease = d.lease
      /\ e.elapsed = d.elapsed
  <2> HIDE DEF d
  <2> QED
    BY <1>1 DEF WholeClient
<1> HIDE DEF e
<1>4. Sound(u) /\ u.ipv4 = s.ipv4 /\ u.dhcp = e
  BY <1>2 DEF StackOK, Sound, Whole
<1>5. Configured(s.ipv4, e) /\ Unexpired(e)
  BY <1>3 DEF StackOK, Configured, Unexpired, Bound
<1>6. StackOK(u)
  BY <1>4, <1>5 DEF StackOK
<1>7. StackOK(dhcp_send_message(u))
  BY <1>6, MessageKeeps
<1> QED
  BY <1>7 DEF u

\* The tick ends a lease that has run out, whatever the state of its renewal.
LEMMA TickDhcpKeeps ==
  ASSUME NEW s, Sound(s), Configured(s.ipv4, s.dhcp)
  PROVE  StackOK(tick_dhcp(s))
<1> DEFINE d == s.dhcp
           t == tick_dhcp(s)
           Ask(state) == dhcp_send_message([s EXCEPT !.dhcp.state = state, !.dhcp.attempts = 0])
<1>1. d.lease \in Nat /\ d.elapsed \in Nat
  BY DEF Configured, WholeClient
<1>2. CASE d.state \in Bound /\ d.elapsed >= d.lease
  <2>1. t = net_dhcp_start(s)
    BY <1>1, <1>2 DEF tick_dhcp, dhcp_restart, Bound
  <2> QED
    BY <2>1, StartKeeps
<1>3. CASE ~ (d.state \in Bound /\ d.elapsed >= d.lease)
  <2>1. StackOK(s)
    BY <1>1, <1>3 DEF StackOK, Unexpired
  <2>2. \/ t = s
        \/ d.state = "BOUND" /\ t = Ask("RENEWING")
        \/ d.state = "RENEWING" /\ t = Ask("REBINDING")
        \/ t = dhcp_send_message(s)
    BY <1>1, <1>3, Zenon DEF tick_dhcp
  <2>3. "BOUND" \in Bound /\ "RENEWING" \in Bound /\ "REBINDING" \in Bound
    BY DEF Bound
  <2>4. CASE t = s
    BY <2>1, <2>4
  <2>5. CASE d.state = "BOUND" /\ t = Ask("RENEWING")
    <3> DEFINE state == "RENEWING"
    <3>1. state \in Bound /\ d.state \in Bound /\ t = Ask(state)
      BY <2>3, <2>5
    <3> HIDE DEF state
    <3> QED
      BY <2>1, <3>1, AskKeeps
  <2>6. CASE d.state = "RENEWING" /\ t = Ask("REBINDING")
    <3> DEFINE state == "REBINDING"
    <3>1. state \in Bound /\ d.state \in Bound /\ t = Ask(state)
      BY <2>3, <2>6
    <3> HIDE DEF state
    <3> QED
      BY <2>1, <3>1, AskKeeps
  <2>7. CASE t = dhcp_send_message(s)
    BY <2>1, <2>7, MessageKeeps
  <2> QED
    BY <2>2, <2>4, <2>5, <2>6, <2>7
<1> QED
  BY <1>2, <1>3

----------------------------------------------------------------------------
(* Time *)

LEMMA LaterIsANumber ==
  ASSUME NEW t \in Nat, NEW d \in Nat, NEW limit \in Nat PROVE Later(t, d, limit) \in Nat
<1> DEFINE S == {t + d, limit}
<1>1. \E x \in S : \A y \in S : x <= y
  <2>1. CASE t + d <= limit
    BY <2>1
  <2>2. CASE ~ (t + d <= limit)
    BY <2>2
  <2> QED
    BY <2>1, <2>2
<1>2. Min(S) \in S
  <2> HIDE DEF S
  <2> QED
    BY <1>1 DEF Min
<1>3. S \subseteq Nat
  OBVIOUS
<1> QED
  BY <1>2, <1>3 DEF Later

LEMMA PassKeeps ==
  ASSUME NEW s, StackOK(s), NEW d \in 0 .. MaxElapsed
  PROVE  LET t == Pass(s, d) IN Sound(t) /\ Configured(t.ipv4, t.dhcp)
<1> DEFINE t == Pass(s, d)
           p == s.pending_ipv4
           since == Later(p.wait, d, ARP_RETRY_INTERVAL)
           q == IF p = Nothing THEN Nothing ELSE [p EXCEPT !.wait = since]
           c == s.dhcp
           elapsed == IF c.state \in Bound THEN Later(c.elapsed, d, LEASE_MAX) ELSE c.elapsed
           left == Minus(c.wait, d)
           e == [c EXCEPT !.elapsed = elapsed, !.wait = left]
<1>1. Sound(s) /\ Configured(s.ipv4, c) /\ WholeClient(c)
  BY DEF StackOK, Configured
<1>2. elapsed \in Nat
  <2>1. c.elapsed \in Nat /\ d \in Nat /\ LEASE_MAX \in Nat
    BY <1>1, LeaseAssumption DEF WholeClient
  <2> QED
    BY <2>1, LaterIsANumber
<1>3. PICK a, b, f, g :
        t = [s EXCEPT !.arp = a, !.pending_ipv4 = q, !.dhcp = e, !.dns = b,
                      !.dns_cache = f, !.echo_request = g]
  BY ZenonT(60) DEF Pass
<1>4. q # Nothing => PacketOK(q, s.ipv4)
  <2> HIDE DEF since, p
  <2>1. CASE p = Nothing
    BY <2>1
  <2>2. CASE p # Nothing
    <3>1. PacketOK(p, s.ipv4)
      BY <1>1, <2>2 DEF Sound, p
    <3> DEFINE tries == p.arp_attempts
    <3>2. q = [p EXCEPT !.wait = since, !.arp_attempts = tries]
      BY <2>2, <3>1 DEF PacketOK
    <3> HIDE DEF tries, q
    <3>3. PacketOK(q, s.ipv4)
      BY <3>1, <3>2, PacketWaits
    <3> QED
      BY <3>3
  <2> QED
    BY <2>1, <2>2
<1> HIDE DEF elapsed, left, q, t
<1>5. WholeClient(e) /\ e.state = c.state /\ e.offer = c.offer
  <2> HIDE DEF c
  <2> QED
    BY <1>1, <1>2 DEF WholeClient
<1> HIDE DEF e
<1>6. Whole(t) /\ t.ipv4 = s.ipv4 /\ t.dhcp = e /\ t.pending_ipv4 = q
  BY <1>1, <1>3 DEF Sound, Whole
<1>7. Sound(t)
  BY <1>4, <1>6 DEF Sound
<1>8. Configured(s.ipv4, e)
  BY <1>1, <1>5 DEF Configured
<1>9. Sound(t) /\ Configured(t.ipv4, t.dhcp)
  BY <1>6, <1>7, <1>8
<1> QED
  BY <1>9 DEF t

----------------------------------------------------------------------------
(* The steps of the stack *)

LEMMA InitHolds ==
  ASSUME Init PROVE IInv
<1> DEFINE a == [i \in 1 .. NET_ARP_CACHE_SIZE |-> Nothing]
           b == [i \in 1 .. NET_DNS_CACHE_SIZE |-> Nothing]
           config == NoConfig
           d == NoDhcp
           dns == NoDns
           nothing == Nothing
<1>1. stack = [ipv4 |-> config, arp |-> a, pending_ipv4 |-> nothing, dhcp |-> d, dns |-> dns,
               dns_cache |-> b, echo_request |-> nothing, echo_reply |-> nothing]
  BY DEF Init, net_init
<1>2. WholeClient(d) /\ d.state = "OFF"
  BY DEF WholeClient, NoDhcp
<1>3. config.address = NoIp
  BY DEF NoConfig
<1> HIDE DEF a, b, config, d, dns, nothing
<1>4. /\ Whole(stack) /\ stack.pending_ipv4 = nothing /\ stack.ipv4 = config
      /\ stack.dhcp = d
  BY <1>1 DEF Whole
<1>5. Sound(stack)
  BY <1>4 DEF Sound, nothing
<1>6. Configured(config, d) /\ Unexpired(d)
  BY <1>2, <1>3 DEF Configured, Unexpired, Bound
<1> QED
  BY <1>4, <1>5, <1>6 DEF IInv, StackOK

LEMMA TickHolds ==
  ASSUME IInv, NEW d \in 0 .. MaxElapsed, net_tick(d) PROVE IInv'
<1> DEFINE s == stack
           s0 == Pass(s, d)
           s1 == Expire(s0)
<1>1. PICK up \in LinkStates : stack' = tick_echo(tick_dns(tick_dhcp(tick_pending_arp(s1, up))))
  BY DEF net_tick
<1> DEFINE s2 == tick_pending_arp(s1, up)
           s3 == tick_dhcp(s2)
           s4 == tick_dns(s3)
<1>2. StackOK(s)
  BY DEF IInv
<1> HIDE DEF s
<1>3. Sound(s0) /\ Configured(s0.ipv4, s0.dhcp)
  BY <1>2, PassKeeps
<1> HIDE DEF s0
<1>4. Frame(s1, s0) /\ Sound(s1)
  BY <1>3, ExpireFrame DEF Frame
<1> HIDE DEF s1
<1>5. Frame(s2, s1)
  BY <1>4, PendingFrame
<1> HIDE DEF s2
<1>6. Sound(s2) /\ Configured(s2.ipv4, s2.dhcp)
  BY <1>3, <1>4, <1>5 DEF Frame
<1>7. StackOK(s3)
  BY <1>6, TickDhcpKeeps
<1> HIDE DEF s3
<1>8. Frame(s4, s3)
  BY <1>7, TickDnsFrame DEF StackOK
<1>9. StackOK(s4)
  BY <1>7, <1>8, FrameKeeps
<1> HIDE DEF s4
<1>10. Frame(tick_echo(s4), s4)
  BY <1>9, TickEchoFrame DEF StackOK
<1>11. StackOK(tick_echo(s4))
  BY <1>9, <1>10, FrameKeeps
<1>12. stack' = tick_echo(s4)
  BY <1>1 DEF s4, s3, s2
<1> QED
  BY <1>11, <1>12 DEF IInv

LEMMA HeaderKeeps ==
  ASSUME IInv, NEW source, NEW up PROVE StackOK(AfterHeader(source, up))
<1> DEFINE s == stack
<1>1. StackOK(s)
  BY DEF IInv
<1>2. AfterHeader(source, up) = s \/ AfterHeader(source, up) = Learn(s, source, up)
  BY DEF AfterHeader
<1> HIDE DEF s
<1>3. Frame(Learn(s, source, up), s)
  BY <1>1, LearnFrame DEF StackOK
<1> QED
  BY <1>1, <1>2, <1>3, FrameKeeps

\* A step to a stack with the same configuration and client.
LEMMA FrameHolds ==
  ASSUME IInv, Frame(stack', stack) PROVE IInv'
<1> DEFINE s == stack
           t == stack'
<1>1. StackOK(s) /\ Frame(t, s)
  BY DEF IInv
<1> HIDE DEF s, t
<1>2. StackOK(t)
  BY <1>1, FrameKeeps
<1> QED
  BY <1>2 DEF IInv, t

LEMMA InputHolds ==
  ASSUME IInv, net_input PROVE IInv'
<1>1. StackOK(stack) /\ Sound(stack)
  BY DEF IInv, StackOK
<1>2. ASSUME NEW sender \in Neighbours, receive_arp(sender) PROVE IInv'
  <2>1. PICK up \in LinkStates : stack' = Learn(stack, sender, up)
    BY <1>2 DEF receive_arp
  <2>2. Frame(stack', stack)
    BY <1>1, <2>1, LearnFrame
  <2> QED
    BY <2>2, FrameHolds
<1>3. ASSUME NEW source \in Servers, NEW type \in {"OFFER", "ACK", "NAK"}, NEW o \in Options,
             ReceiveDhcp(source, type, o)
      PROVE  IInv'
  <2>1. PICK up \in LinkStates :
          stack' = dhcp_receive(AfterHeader(source, up), type, o, source)
    BY <1>3 DEF ReceiveDhcp
  <2> DEFINE t == AfterHeader(source, up)
  <2>2. StackOK(t) /\ Leased(o)
    BY HeaderKeeps, OptionsAreLeased
  <2> HIDE DEF t
  <2>3. StackOK(dhcp_receive(t, type, o, source))
    BY <2>2, ReceiveKeeps
  <2> QED
    BY <2>1, <2>3 DEF IInv, t
<1>4. ASSUME NEW source \in DOMAIN Records, NEW id \in Ids, ReceiveDns(source, id) PROVE IInv'
  <2>1. PICK up, m : stack' = dns_receive(AfterHeader(source, up), source, id, m)
    BY <1>4, Zenon DEF ReceiveDns
  <2> DEFINE t == AfterHeader(source, up)
  <2>2. StackOK(t) /\ Sound(t)
    BY HeaderKeeps DEF StackOK
  <2> HIDE DEF t
  <2>3. StackOK(dns_receive(t, source, id, m))
    BY <2>2, DnsReceiveFrame, FrameKeeps
  <2> QED
    BY <2>1, <2>3 DEF IInv, t
<1>5. ASSUME NEW source \in Peers, NEW type \in {"REQUEST", "REPLY"}, NEW id \in Ids,
             ReceiveIcmp(source, type, id)
      PROVE  IInv'
  <2>1. PICK up \in LinkStates :
          stack' = receive_icmp(AfterHeader(source, up), source, type, id)
    BY <1>5 DEF ReceiveIcmp
  <2> DEFINE t == AfterHeader(source, up)
  <2>2. StackOK(t) /\ Sound(t)
    BY HeaderKeeps DEF StackOK
  <2> HIDE DEF t
  <2>3. StackOK(receive_icmp(t, source, type, id))
    BY <2>2, IcmpFrame, FrameKeeps
  <2> QED
    BY <2>1, <2>3 DEF IInv, t
<1> QED
  BY <1>2, <1>3, <1>4, <1>5 DEF net_input

\* A step of the callers in network.c.
LEMMA CallHolds ==
  ASSUME IInv,
         \/ \E name \in Names, id \in Ids : Query(name, id)
         \/ Cancel \/ ClearResult \/ ClearReply
         \/ \E destination \in Peers, id \in Ids : Ping(destination, id)
         \/ \E destination \in Peers : SendSegment(destination)
  PROVE  IInv'
<1> DEFINE s == stack
<1>1. Sound(s)
  BY DEF IInv, StackOK
<1>2. ASSUME NEW name \in Names, NEW id \in Ids, Query(name, id) PROVE Frame(stack', s)
  BY <1>1, <1>2, AskFrame DEF Query
<1>3. ASSUME Cancel PROVE Frame(stack', s)
  BY <1>1, <1>3, CancelFrame DEF Cancel
<1>4. ASSUME ClearResult PROVE Frame(stack', s)
  BY <1>1, <1>4, ClearResultFrame DEF ClearResult
<1>5. ASSUME ClearReply PROVE Frame(stack', s)
  <2> DEFINE nothing == Nothing
  <2>1. stack' = [s EXCEPT !.echo_reply = nothing]
    BY <1>5 DEF ClearReply
  <2> HIDE DEF nothing, s
  <2> QED
    BY <1>1, <2>1 DEF Frame, Sound, Whole
<1>6. ASSUME NEW destination \in Peers, NEW id \in Ids, Ping(destination, id)
      PROVE  Frame(stack', s)
  BY <1>1, <1>6, PingFrame DEF Ping
<1>7. ASSUME NEW destination \in Peers, SendSegment(destination) PROVE Frame(stack', s)
  BY <1>1, <1>7, SendFrame DEF SendSegment
<1>8. Frame(stack', s)
  BY <1>2, <1>3, <1>4, <1>5, <1>6, <1>7
<1> QED
  BY <1>8, FrameHolds

LEMMA StartHolds ==
  ASSUME IInv, DhcpStart PROVE IInv'
<1> DEFINE s == stack
<1>1. Sound(s)
  BY DEF IInv, StackOK
<1>2. stack' = net_dhcp_start(s)
  BY DEF DhcpStart
<1> HIDE DEF s
<1>3. StackOK(net_dhcp_start(s))
  BY <1>1, StartKeeps
<1> QED
  BY <1>2, <1>3 DEF IInv

LEMMA NextHolds ==
  ASSUME IInv, [Next]_stack PROVE IInv'
<1>1. CASE UNCHANGED stack
  BY <1>1 DEF IInv
<1>2. CASE Next
  BY <1>2, TickHolds, StartHolds, InputHolds, CallHolds, Zenon DEF Next
<1> QED
  BY <1>1, <1>2

LEMMA InvHolds == Spec => []IInv
<1>1. Init => IInv
  BY InitHolds
<1>2. IInv /\ [Next]_stack => IInv'
  BY NextHolds
<1> QED
  BY <1>1, <1>2, PTL DEF Spec

----------------------------------------------------------------------------
(* What dns_find_address_answer finds *)

\* A nonempty set of natural numbers has a least member, which Min chooses.
LEMMA MinOf ==
  ASSUME NEW S \in SUBSET Nat, S # {}
  PROVE  Min(S) \in S /\ \A y \in S : Min(S) <= y
<1> DEFINE R == {ss \in Nat \X Nat : ss[1] < ss[2]}
<1>1. IsWellFoundedOn(R, Nat)
  BY NatLessThanWellFounded, Zenon DEF OpToRel
<1>2. \A x, y \in Nat : <<y, x>> \in R <=> y < x
  OBVIOUS
<1> HIDE DEF R
<1>3. PICK x \in S : \A y \in S : ~ (<<y, x>> \in R)
  BY <1>1, WFMin
<1>4. ASSUME NEW y \in S PROVE x <= y
  <2>1. ~ (y < x) /\ x \in Nat /\ y \in Nat
    BY <1>2, <1>3
  <2> QED
    BY <2>1
<1>5. \E z \in S : \A y \in S : z <= y
  BY <1>4
<1> QED
  BY <1>5 DEF Min

\* A property of numbers that holds of 0 and of the successor of every number that
\* has it holds of all; the property is given as the set of numbers that have it.
LEMMA Counting ==
  ASSUME NEW P \in SUBSET Nat, 0 \in P, \A n \in P : n + 1 \in P
  PROVE  P = Nat
<1> DEFINE S == Nat \ P
<1> SUFFICES ASSUME S # {} PROVE FALSE
  OBVIOUS
<1> DEFINE least == Min(S)
<1>1. least \in S /\ \A y \in S : least <= y
  BY MinOf
<1> HIDE DEF least
<1>2. least \in Nat /\ least # 0 /\ least - 1 \in Nat /\ least - 1 \notin S
  BY <1>1
<1>3. (least - 1) + 1 \in P
  BY <1>2
<1> QED
  BY <1>1, <1>2, <1>3

\* One round, or none when the loop has ended.
After(records, hop, at) == IF at.kind = "GOING" THEN Round(records, hop, at) ELSE at
Start(name) == [kind |-> "GOING", name |-> name, address |-> NoIp, ttl |-> Unlimited]
Loop(records, name, n, f) ==
  f = [hop \in 0 .. n |-> IF hop = 0 THEN Start(name) ELSE After(records, hop - 1, f[hop - 1])]

\* The loop is defined for every number of rounds.
LEMMA RoundsExist ==
  ASSUME NEW records, NEW name PROVE \A n \in Nat : \E f : Loop(records, name, n, f)
<1> DEFINE P == {n \in Nat : \E f : Loop(records, name, n, f)}
<1>1. 0 \in P
  <2> DEFINE f == [hop \in 0 .. 0 |-> Start(name)]
  <2>1. Loop(records, name, 0, f)
    BY DEF Loop
  <2> HIDE DEF f
  <2> QED
    BY <2>1
<1>2. ASSUME NEW n \in P PROVE n + 1 \in P
  <2>1. PICK f : Loop(records, name, n, f)
    OBVIOUS
  <2> DEFINE last == After(records, n, f[n])
             g == [hop \in 0 .. n + 1 |-> IF hop = n + 1 THEN last ELSE f[hop]]
             h == [hop \in 0 .. n + 1 |->
                     IF hop = 0 THEN Start(name) ELSE After(records, hop - 1, g[hop - 1])]
  <2>2. ASSUME NEW hop \in 0 .. n + 1 PROVE g[hop] = h[hop]
    <3>1. n \in Nat
      OBVIOUS
    <3>2. CASE hop = n + 1
      <4>1. g[hop] = last /\ g[hop - 1] = f[n] /\ hop - 1 = n
        BY <3>1, <3>2
      <4> QED
        BY <3>1, <3>2, <4>1
    <3>3. CASE hop = 0
      <4>1. g[hop] = f[hop] /\ hop \in 0 .. n
        BY <3>1, <3>3
      <4>2. f[hop] = Start(name)
        BY <2>1, <3>3, <4>1 DEF Loop
      <4> QED
        BY <3>1, <3>3, <4>1, <4>2
    <3>4. CASE hop \in 1 .. n
      <4>1. g[hop] = f[hop] /\ g[hop - 1] = f[hop - 1] /\ hop \in 0 .. n
        BY <3>1, <3>4
      <4>2. f[hop] = After(records, hop - 1, f[hop - 1])
        BY <2>1, <3>1, <3>4, <4>1 DEF Loop
      <4>3. h[hop] = After(records, hop - 1, g[hop - 1])
        BY <3>1, <3>4
      <4> QED
        BY <4>1, <4>2, <4>3
    <3> QED
      BY <3>1, <3>2, <3>3, <3>4
  <2>3. g = h
    BY <2>2
  <2>4. Loop(records, name, n + 1, g)
    BY <2>3 DEF Loop
  <2> HIDE DEF g
  <2> QED
    BY <2>4
<1>3. P = Nat
  <2>1. P \in SUBSET Nat
    OBVIOUS
  <2> HIDE DEF P
  <2> QED
    BY <1>1, <1>2, <2>1, Counting
<1> QED
  BY <1>3

LEMMA RoundsAreRounds ==
  ASSUME NEW records, NEW name
  PROVE  Loop(records, name, DNS_MAX_CNAME_HOPS + 1, Rounds(records, name))
<1>1. \E f : Loop(records, name, DNS_MAX_CNAME_HOPS + 1, f)
  BY RoundsExist, RecordsAssumption
<1>2. Rounds(records, name) = CHOOSE f : Loop(records, name, DNS_MAX_CNAME_HOPS + 1, f)
  BY Zenon DEF Rounds, Loop, After, Start
<1> QED
  BY <1>1, <1>2, Zenon

\* Where the loop stands for a name, when all records are those of one server: at a
\* name that the aliases lead to, and an address found is one of that name.
WalkOK(server, name, at) ==
  /\ at = [kind |-> at.kind, name |-> at.name, address |-> at.address, ttl |-> at.ttl]
  /\ LeadsTo(server, name, at.name)
  /\ at.kind = "ADDRESS" => at.address \in TrueAddress(server, name)

AreRecordsOf(records, server) ==
  DOMAIN records \in SUBSET Nat /\ \A i \in DOMAIN records : records[i] \in Records[server]

LEMMA RoundKeeps ==
  ASSUME NEW server, NEW name, NEW records, AreRecordsOf(records, server), NEW hop,
         NEW at, WalkOK(server, name, at), at.kind = "GOING"
  PROVE  WalkOK(server, name, Round(records, hop, at))
<1> DEFINE as == {i \in DOMAIN records : records[i].owner = at.name /\ records[i].type = "A"}
           cs == {i \in DOMAIN records : records[i].owner = at.name /\ records[i].type = "CNAME"}
           cname == records[Min(cs)]
           address == records[Min(as)].data
           t == Round(records, hop, at)
<1>1. \E ttl : \/ t = [at EXCEPT !.kind = "MALFORMED"]
               \/ as # {} /\ t = [at EXCEPT !.kind = "ADDRESS", !.address = address, !.ttl = ttl]
               \/ t = [at EXCEPT !.kind = "NOT_FOUND"]
               \/ cs # {} /\ t = [at EXCEPT !.name = cname.data, !.ttl = ttl]
  BY Zenon DEF Round
<1>2. as # {} => address \in TrueAddress(server, name)
  <2> SUFFICES ASSUME as # {} PROVE address \in TrueAddress(server, name)
    OBVIOUS
  <2>1. Min(as) \in as
    BY MinOf DEF AreRecordsOf
  <2>2. PICK r \in Records[server] : r = records[Min(as)] /\ r.type = "A" /\ r.owner = at.name
    BY <2>1 DEF AreRecordsOf
  <2>3. address = r.data /\ LeadsTo(server, name, r.owner)
    BY <2>2 DEF WalkOK
  <2> HIDE DEF address
  <2> QED
    BY <2>2, <2>3 DEF TrueAddress
<1>3. cs # {} => LeadsTo(server, name, cname.data)
  <2> SUFFICES ASSUME cs # {} PROVE LeadsTo(server, name, cname.data)
    OBVIOUS
  <2>1. Min(cs) \in cs
    BY MinOf DEF AreRecordsOf
  <2>2. PICK r \in Records[server] : r = cname /\ r.type = "CNAME" /\ r.owner = at.name
    BY <2>1 DEF AreRecordsOf
  <2> HIDE DEF cname
  <2> QED
    BY <2>2 DEF LeadsTo, WalkOK
<1> HIDE DEF as, cs, cname, address, t
<1>4. WalkOK(server, name, t)
  BY <1>1, <1>2, <1>3 DEF WalkOK
<1> QED
  BY <1>4 DEF t

\* An address that dns_find_address_answer finds in records of a server is one of the
\* name that was asked for, however many aliases lead to it.
LEMMA AnswerIsTrue ==
  ASSUME NEW server, NEW name, NEW records, AreRecordsOf(records, server)
  PROVE  WalkOK(server, name, dns_find_address_answer(records, name))
<1> DEFINE f == Rounds(records, name)
           last == DNS_MAX_CNAME_HOPS + 1
           P == {n \in Nat : n <= last => WalkOK(server, name, f[n])}
<1>1. /\ last \in Nat
      /\ f = [hop \in 0 .. last |-> IF hop = 0 THEN Start(name)
                                    ELSE After(records, hop - 1, f[hop - 1])]
  BY RoundsAreRounds, RecordsAssumption DEF Loop
<1> HIDE DEF f, last
<1>2. 0 \in P
  <2>1. f[0] = Start(name)
    BY <1>1
  <2> QED
    BY <2>1 DEF WalkOK, Start, LeadsTo
<1>3. ASSUME NEW n \in P PROVE n + 1 \in P
  <2> SUFFICES ASSUME n + 1 <= last PROVE WalkOK(server, name, f[n + 1])
    OBVIOUS
  <2>1. n \in Nat /\ WalkOK(server, name, f[n])
    BY <1>1
  <2>2. f[n + 1] = After(records, n, f[n])
    BY <1>1, <2>1
  <2> QED
    BY <2>1, <2>2, RoundKeeps DEF After
<1>4. P = Nat
  <2>1. P \in SUBSET Nat
    OBVIOUS
  <2> HIDE DEF P
  <2> QED
    BY <1>2, <1>3, <2>1, Counting
<1>5. WalkOK(server, name, f[last])
  <2>1. \A n \in P : n <= last => WalkOK(server, name, f[n])
    OBVIOUS
  <2> HIDE DEF P
  <2> QED
    BY <1>1, <1>4, <2>1
<1> QED
  BY <1>5 DEF dns_find_address_answer, f, last

\* What a resolver may answer about a name is true of it.
LEMMA MessageIsTrue ==
  ASSUME NEW server \in DOMAIN Records, NEW name \in Names, NEW m \in Messages[server][name]
  PROVE  m.answer.kind = "ADDRESS" => m.answer.address \in TrueAddress(server, name)
<1>1. PICK records : AreRecordsOf(records, server) /\ m.answer = dns_find_address_answer(records, name)
  <2> DEFINE found == {dns_find_address_answer(q, name) : q \in AnswerSections(server)}
             none == dns_find_address_answer(<<>>, name)
  <2>1. m.answer \in found \cup {none}
    BY DEF Messages
  <2>2. ASSUME NEW q \in AnswerSections(server) PROVE AreRecordsOf(q, server)
    BY RecordsAssumption DEF AnswerSections, AreRecordsOf
  <2>3. AreRecordsOf(<<>>, server)
    BY DEF AreRecordsOf
  <2> QED
    BY <2>1, <2>2, <2>3
<1> QED
  BY <1>1, AnswerIsTrue DEF WalkOK

----------------------------------------------------------------------------
(* The answers, as a predicate of a cache, the resolver and a query q *)

EntryOK(e, server) ==
  /\ DOMAIN e = {"name", "address", "expires", "used"}
  /\ e.address = NoIp \/ (server \in DOMAIN Records /\ e.address \in TrueAddress(server, e.name))

CacheOK(cache, server) ==
  /\ DOMAIN cache \in SUBSET Nat /\ cache = [i \in DOMAIN cache |-> cache[i]]
  /\ \A i \in DOMAIN cache : cache[i] # Nothing => EntryOK(cache[i], server)

\* The query is about a name, and its answer one that some resolver gave.
QueryOK(q) ==
  /\ DOMAIN q = {"state", "name", "id", "address", "attempts", "wait"}
  /\ q.state = "PENDING" => q.name \in Names
  /\ q.state = "RESOLVED" =>
       \E server \in DOMAIN Records : q.address \in TrueAddress(server, q.name)

AnswersOK(s) == CacheOK(s.dns_cache, s.ipv4.dns) /\ QueryOK(s.dns)

AnswersInv == AnswersOK(stack)

\* t has the answers and the resolver of s.
SameAnswers(t, s) ==
  t.dns_cache = s.dns_cache /\ t.dns = s.dns /\ t.ipv4 = s.ipv4

LEMMA SameAnswersChain ==
  ASSUME NEW s, NEW t, NEW u, SameAnswers(t, s), SameAnswers(u, t) PROVE SameAnswers(u, s)
BY DEF SameAnswers

LEMMA SameAnswersKeep ==
  ASSUME NEW s, NEW t, AnswersOK(s), SameAnswers(t, s) PROVE AnswersOK(t)
BY DEF SameAnswers, AnswersOK

(* ARP, packets, echo and DHCP messages *)

LEMMA ArpAnswers ==
  ASSUME NEW s, Sound(s), NEW ip PROVE SameAnswers(arp_learn(s, ip), s)
<1> DEFINE t == arp_learn(s, ip)
<1>1. PICK a : t = [s EXCEPT !.arp = a]
  BY DEF arp_learn, Sound, Whole
<1> HIDE DEF t
<1>2. SameAnswers(t, s)
  BY <1>1 DEF SameAnswers, Sound, Whole
<1> QED
  BY <1>2 DEF t

LEMMA SendAnswers ==
  ASSUME NEW s, Sound(s), NEW destination, NEW kind, NEW id
  PROVE  SameAnswers(net_ipv4_send(s, destination, kind, id).stack, s)
<1> DEFINE t == net_ipv4_send(s, destination, kind, id).stack
<1>1. PICK p : t = s \/ t = [s EXCEPT !.pending_ipv4 = p]
  BY DEF net_ipv4_send
<1> HIDE DEF t
<1>2. SameAnswers(t, s)
  BY <1>1 DEF SameAnswers, Sound, Whole
<1> QED
  BY <1>2 DEF t

LEMMA FlushAnswers ==
  ASSUME NEW s, Sound(s), NEW up PROVE SameAnswers(flush_pending_ipv4(s, up), s)
<1> DEFINE t == flush_pending_ipv4(s, up)
<1>1. PICK p : t = s \/ t = [s EXCEPT !.pending_ipv4 = p]
  BY DEF flush_pending_ipv4, Sound, Whole
<1> HIDE DEF t
<1>2. SameAnswers(t, s)
  BY <1>1 DEF SameAnswers, Sound, Whole
<1> QED
  BY <1>2 DEF t

LEMMA PendingAnswers ==
  ASSUME NEW s, Sound(s), NEW up PROVE SameAnswers(tick_pending_arp(s, up), s)
<1> DEFINE t == tick_pending_arp(s, up)
<1>1. PICK p : t = s \/ t = [s EXCEPT !.pending_ipv4 = p] \/ t = flush_pending_ipv4(s, up)
  BY DEF tick_pending_arp, Sound, Whole
<1> HIDE DEF t
<1>2. SameAnswers(t, s)
  BY <1>1, FlushAnswers DEF SameAnswers, Sound, Whole
<1> QED
  BY <1>2 DEF t

LEMMA LearnAnswers ==
  ASSUME NEW s, Sound(s), NEW ip, NEW up PROVE SameAnswers(Learn(s, ip, up), s)
<1> DEFINE t == arp_learn(s, ip)
<1>1. SameAnswers(t, s) /\ Sound(t)
  BY ArpAnswers, ArpFrame DEF Frame
<1> HIDE DEF t
<1>2. SameAnswers(flush_pending_ipv4(t, up), t)
  BY <1>1, FlushAnswers
<1>3. SameAnswers(flush_pending_ipv4(t, up), s)
  BY <1>1, <1>2, SameAnswersChain
<1> QED
  BY <1>3 DEF Learn, t

LEMMA IcmpAnswers ==
  ASSUME NEW s, Sound(s), NEW source, NEW type, NEW id
  PROVE  SameAnswers(receive_icmp(s, source, type, id), s)
<1> DEFINE t == receive_icmp(s, source, type, id)
           u == net_ipv4_send(s, source, "other", 0).stack
<1>1. PICK a, b : \/ t = s \/ t = [s EXCEPT !.echo_request = a, !.echo_reply = b]
                  \/ t = u
  BY DEF receive_icmp
<1>2. SameAnswers(u, s)
  BY SendAnswers
<1> HIDE DEF t, u
<1>3. SameAnswers(t, s)
  BY <1>1, <1>2 DEF SameAnswers, Sound, Whole
<1> QED
  BY <1>3 DEF t

LEMMA PingAnswers ==
  ASSUME NEW s, Sound(s), NEW destination, NEW id, NEW up
  PROVE  SameAnswers(net_icmp_echo_request(s, destination, id, up), s)
<1> DEFINE t == net_icmp_echo_request(s, destination, id, up)
           u == net_ipv4_send(s, destination, "other", 0).stack
<1>1. PICK a, b : t = s \/ t = [u EXCEPT !.echo_request = a, !.echo_reply = b]
  BY Zenon DEF net_icmp_echo_request
<1>2. SameAnswers(u, s) /\ Sound(u)
  BY SendAnswers, SendFrame DEF Frame
<1> HIDE DEF t, u
<1>3. SameAnswers(t, s)
  BY <1>1, <1>2 DEF SameAnswers, Sound, Whole
<1> QED
  BY <1>3 DEF t

LEMMA TickEchoAnswers ==
  ASSUME NEW s, Sound(s) PROVE SameAnswers(tick_echo(s), s)
<1> DEFINE t == tick_echo(s)
<1>1. PICK a : t = s \/ t = [s EXCEPT !.echo_request = a]
  BY DEF tick_echo
<1> HIDE DEF t
<1>2. SameAnswers(t, s)
  BY <1>1 DEF SameAnswers, Sound, Whole
<1> QED
  BY <1>2 DEF t

LEMMA DhcpMessageAnswers ==
  ASSUME NEW s, Sound(s) PROVE SameAnswers(dhcp_send_message(s), s)
<1> DEFINE to == IF s.dhcp.state = "RENEWING" /\ s.dhcp.server # NoIp THEN s.dhcp.server
                 ELSE Broadcast
           u == net_ipv4_send(s, to, "other", 0).stack
           t == dhcp_send_message(s)
<1>1. t = [u EXCEPT !.dhcp.wait = dhcp_retry_delay(s.dhcp.attempts),
                    !.dhcp.attempts = Min({@ + 1, DHCP_SHIFT_MAX})]
  BY DEF dhcp_send_message, net_udp_send
<1>2. SameAnswers(u, s) /\ Sound(u)
  BY SendAnswers, SendFrame DEF Frame
<1> HIDE DEF t, u
<1>3. PICK d : t = [u EXCEPT !.dhcp = d]
  BY <1>1, <1>2 DEF Sound, Whole
<1>4. SameAnswers(t, s)
  BY <1>2, <1>3 DEF SameAnswers, Sound, Whole
<1> QED
  BY <1>4 DEF t

(* The resolver *)

\* A query that ends keeps its name; asking again changes only when it was asked.
LEMMA QueryEnds ==
  ASSUME NEW o, QueryOK(o), NEW state, state # "PENDING", NEW address,
         state = "RESOLVED" => \E server \in DOMAIN Records : address \in TrueAddress(server, o.name)
  PROVE  QueryOK([o EXCEPT !.state = state, !.address = address, !.attempts = 0, !.wait = 0])
<1> DEFINE q == [o EXCEPT !.state = state, !.address = address, !.attempts = 0, !.wait = 0]
<1>1. q.state = state /\ q.name = o.name /\ q.address = address /\ DOMAIN q = DOMAIN o
  BY DEF QueryOK
<1> HIDE DEF q
<1>2. QueryOK(q)
  BY <1>1 DEF QueryOK
<1> QED
  BY <1>2 DEF q

LEMMA QueryWaits ==
  ASSUME NEW o, QueryOK(o), NEW attempts, NEW wait
  PROVE  QueryOK([o EXCEPT !.attempts = attempts, !.wait = wait])
<1> DEFINE q == [o EXCEPT !.attempts = attempts, !.wait = wait]
<1>1. q.state = o.state /\ q.name = o.name /\ q.address = o.address /\ DOMAIN q = DOMAIN o
  BY DEF QueryOK
<1> HIDE DEF q
<1>2. QueryOK(q)
  BY <1>1 DEF QueryOK
<1> QED
  BY <1>2 DEF q

LEMMA EndedAnswers ==
  ASSUME NEW s, Sound(s), AnswersOK(s), NEW state, state \notin {"PENDING", "RESOLVED"}, NEW address
  PROVE  AnswersOK(Ended(s, state, address))
<1> DEFINE q == [s.dns EXCEPT !.state = state, !.address = address, !.attempts = 0, !.wait = 0]
           t == Ended(s, state, address)
<1>1. QueryOK(q)
  BY QueryEnds DEF AnswersOK
<1>2. t = [s EXCEPT !.dns = q]
  BY DEF Ended, Sound, Whole
<1> HIDE DEF q, t
<1>3. t.dns = q /\ t.dns_cache = s.dns_cache /\ t.ipv4 = s.ipv4
  BY <1>2 DEF Sound, Whole
<1>4. AnswersOK(t)
  BY <1>1, <1>3 DEF AnswersOK
<1> QED
  BY <1>4 DEF t

\* The query ends with an address that the present resolver has for its name.
LEMMA ResolvedAnswers ==
  ASSUME NEW s, Sound(s), AnswersOK(s), NEW address, s.ipv4.dns \in DOMAIN Records,
         address \in TrueAddress(s.ipv4.dns, s.dns.name)
  PROVE  AnswersOK(Ended(s, "RESOLVED", address))
<1> DEFINE q == [s.dns EXCEPT !.state = "RESOLVED", !.address = address, !.attempts = 0, !.wait = 0]
           t == Ended(s, "RESOLVED", address)
<1>1. QueryOK(q)
  BY QueryEnds DEF AnswersOK
<1>2. t = [s EXCEPT !.dns = q]
  BY DEF Ended, Sound, Whole
<1> HIDE DEF q, t
<1>3. t.dns = q /\ t.dns_cache = s.dns_cache /\ t.ipv4 = s.ipv4
  BY <1>2 DEF Sound, Whole
<1>4. AnswersOK(t)
  BY <1>1, <1>3 DEF AnswersOK
<1> QED
  BY <1>4 DEF t

\* An entry is stored with the answer of the present resolver, or none.
LEMMA StoreAnswers ==
  ASSUME NEW s, Sound(s), AnswersOK(s), NEW name, NEW address, NEW ttl,
         \/ address = NoIp
         \/ s.ipv4.dns \in DOMAIN Records /\ address \in TrueAddress(s.ipv4.dns, name)
  PROVE  AnswersOK(dns_cache_store(s, name, address, ttl))
<1> DEFINE e == [name |-> name, address |-> address, expires |-> ttl, used |-> 0]
           t == dns_cache_store(s, name, address, ttl)
<1>1. PICK i : t = s \/ t = [s EXCEPT !.dns_cache[i] = e]
  BY DEF dns_cache_store
<1> DEFINE cache == [s.dns_cache EXCEPT ![i] = e]
<1>2. EntryOK(e, s.ipv4.dns)
  BY DEF EntryOK
<1> HIDE DEF e
<1>3. CacheOK(cache, s.ipv4.dns)
  BY <1>2 DEF CacheOK, AnswersOK
<1> HIDE DEF t
<1>4. t = s \/ t = [s EXCEPT !.dns_cache = cache]
  BY <1>1 DEF Sound, Whole
<1> HIDE DEF cache
<1>5. t = s \/ (t.dns = s.dns /\ t.dns_cache = cache /\ t.ipv4 = s.ipv4)
  BY <1>4 DEF Sound, Whole
<1>6. AnswersOK(t)
  BY <1>3, <1>5 DEF AnswersOK
<1> QED
  BY <1>6 DEF t

\* A message counts only from the present resolver, and what it says is true.
LEMMA DnsReceiveAnswers ==
  ASSUME NEW s, Sound(s), AnswersOK(s), NEW source \in DOMAIN Records, NEW id, NEW m,
         s.dns.state = "PENDING" => m \in Messages[source][s.dns.name]
  PROVE  AnswersOK(dns_receive(s, source, id, m))
<1> DEFINE t == dns_receive(s, source, id, m)
           a == m.answer
           found == Ended(s, "RESOLVED", a.address)
           none == Ended(s, "NOT_FOUND", NoIp)
<1>1. \/ t = s
      \/ \E state \in {"MALFORMED_RESPONSE", "SERVER_ERROR"} : t = Ended(s, state, NoIp)
      \/ \E ttl : t = dns_cache_store(none, s.dns.name, NoIp, ttl)
      \/ /\ s.dns.state = "PENDING" /\ source = s.ipv4.dns /\ a.kind = "ADDRESS"
         /\ \E ttl : t = dns_cache_store(found, s.dns.name, a.address, ttl)
  BY Zenon DEF dns_receive
<1>2. CASE t = s
  BY <1>2
<1>3. ASSUME NEW state \in {"MALFORMED_RESPONSE", "SERVER_ERROR"}, t = Ended(s, state, NoIp)
      PROVE  AnswersOK(t)
  BY <1>3, EndedAnswers
<1>4. ASSUME NEW ttl, t = dns_cache_store(none, s.dns.name, NoIp, ttl) PROVE AnswersOK(t)
  <2>1. AnswersOK(none) /\ Sound(none)
    BY EndedAnswers, EndedFrame DEF Frame
  <2> HIDE DEF none, t
  <2> QED
    BY <1>4, <2>1, StoreAnswers
<1>5. ASSUME s.dns.state = "PENDING", source = s.ipv4.dns, a.kind = "ADDRESS", NEW ttl,
             t = dns_cache_store(found, s.dns.name, a.address, ttl)
      PROVE  AnswersOK(t)
  <2>1. s.dns.name \in Names
    BY <1>5 DEF AnswersOK, QueryOK
  <2>2. a.address \in TrueAddress(source, s.dns.name)
    BY <1>5, <2>1, MessageIsTrue
  <2>3. AnswersOK(found) /\ Sound(found) /\ found.ipv4 = s.ipv4
    BY <1>5, <2>2, ResolvedAnswers, EndedFrame DEF Frame
  <2> HIDE DEF found, t, a
  <2> QED
    BY <1>5, <2>2, <2>3, StoreAnswers
<1> QED
  BY <1>1, <1>2, <1>3, <1>4, <1>5, Zenon

\* A question in progress stays one when it is asked (again).
LEMMA QueryAnswers ==
  ASSUME NEW s, Sound(s), AnswersOK(s) PROVE AnswersOK(dns_send_query(s))
<1> DEFINE u == net_ipv4_send(s, s.ipv4.dns, "dns", s.dns.id).stack
           t == dns_send_query(s)
           q == [u.dns EXCEPT !.attempts = @ + 1, !.wait = DNS_RETRY_INTERVAL]
<1>1. SameAnswers(u, s) /\ Sound(u)
  BY SendAnswers, SendFrame DEF Frame
<1>2. t = [u EXCEPT !.dns.attempts = @ + 1, !.dns.wait = DNS_RETRY_INTERVAL]
  BY DEF dns_send_query, net_udp_send
<1> HIDE DEF u, t
<1>3. AnswersOK(u)
  BY <1>1, SameAnswersKeep
<1>4. QueryOK(q)
  <2> DEFINE tries == u.dns.attempts + 1
  <2>1. q = [u.dns EXCEPT !.attempts = tries, !.wait = DNS_RETRY_INTERVAL]
    OBVIOUS
  <2> HIDE DEF q, tries
  <2> QED
    BY <1>3, <2>1, QueryWaits DEF AnswersOK
<1>5. t = [u EXCEPT !.dns = q]
  BY <1>1, <1>2, <1>3 DEF Sound, Whole, AnswersOK, QueryOK
<1> HIDE DEF q
<1>6. t.dns = q /\ t.dns_cache = u.dns_cache /\ t.ipv4 = u.ipv4
  BY <1>1, <1>5 DEF Sound, Whole
<1>7. AnswersOK(t)
  BY <1>3, <1>4, <1>6 DEF AnswersOK
<1> QED
  BY <1>7 DEF t

LEMMA TickDnsAnswers ==
  ASSUME NEW s, Sound(s), AnswersOK(s) PROVE AnswersOK(tick_dns(s))
<1>1. tick_dns(s) \in {s, Ended(s, "TIMED_OUT", NoIp), dns_send_query(s)}
  BY DEF tick_dns
<1>2. AnswersOK(Ended(s, "TIMED_OUT", NoIp))
  BY EndedAnswers
<1> QED
  BY <1>1, <1>2, QueryAnswers

LEMMA NoQueryOK ==
  /\ QueryOK(NoDns)
  /\ \A name \in Names : \A id : QueryOK([NoDns EXCEPT !.state = "PENDING", !.name = name, !.id = id])
BY DEF QueryOK, NoDns

\* A name is answered from the cache, which the present resolver filled, or asked for.
LEMMA AskAnswers ==
  ASSUME NEW s, Sound(s), AnswersOK(s), NEW name \in Names, NEW id
  PROVE  AnswersOK(net_dns_query(s, name, id))
<1> DEFINE t == net_dns_query(s, name, id)
           known == dns_cache_find(s, name)
           i == Min(known)
           cached == s.dns_cache[i].address
           state == IF cached = NoIp THEN "NOT_FOUND" ELSE "RESOLVED"
           told == [NoDns EXCEPT !.name = name, !.address = cached, !.state = state]
           new == [NoDns EXCEPT !.state = "PENDING", !.name = name, !.id = id]
           asking == [s EXCEPT !.dns = new]
<1>1. \/ t = s
      \/ known # {} /\ t = [s EXCEPT !.dns_cache[i].used = 0, !.dns = told]
      \/ t = dns_send_query(asking)
  BY Zenon DEF net_dns_query
<1>2. CASE t = s
  BY <1>2
<1>3. CASE known # {} /\ t = [s EXCEPT !.dns_cache[i].used = 0, !.dns = told]
  <2> DEFINE e == [s.dns_cache[i] EXCEPT !.used = 0]
             cache == [s.dns_cache EXCEPT ![i] = e]
  <2>1. known \subseteq DOMAIN s.dns_cache /\ \A j \in known : s.dns_cache[j] # Nothing /\ s.dns_cache[j].name = name
    BY DEF dns_cache_find, Valid
  <2>2. i \in known
    BY <1>3, <2>1, MinOf DEF AnswersOK, CacheOK
  <2>3. EntryOK(s.dns_cache[i], s.ipv4.dns) /\ s.dns_cache[i].name = name
    BY <2>1, <2>2 DEF AnswersOK, CacheOK
  <2> HIDE DEF i
  <2>4. EntryOK(e, s.ipv4.dns)
    BY <2>3 DEF EntryOK
  <2>5. CacheOK(cache, s.ipv4.dns)
    <3> HIDE DEF e
    <3> QED
      BY <2>4 DEF AnswersOK, CacheOK
  <2>6. QueryOK(told)
    <3>1. cached # NoIp => \E server \in DOMAIN Records : cached \in TrueAddress(server, name)
      BY <2>3 DEF EntryOK
    <3> HIDE DEF cached
    <3> QED
      BY <3>1 DEF QueryOK, NoDns
  <2>7. t = [s EXCEPT !.dns_cache = cache, !.dns = told]
    <3> HIDE DEF told, t
    <3> QED
      BY <1>3 DEF Sound, Whole
  <2> HIDE DEF cache, told, t
  <2>8. t.dns = told /\ t.dns_cache = cache /\ t.ipv4 = s.ipv4
    BY <2>7 DEF Sound, Whole
  <2>9. AnswersOK(t)
    BY <2>5, <2>6, <2>8 DEF AnswersOK
  <2> QED
    BY <2>9 DEF t
<1>4. CASE t = dns_send_query(asking)
  <2>1. QueryOK(new)
    BY NoQueryOK
  <2> HIDE DEF new
  <2>2. Sound(asking) /\ asking.dns = new /\ asking.dns_cache = s.dns_cache /\ asking.ipv4 = s.ipv4
    BY DEF Sound, Whole
  <2> HIDE DEF asking, t
  <2>3. AnswersOK(asking)
    BY <2>1, <2>2 DEF AnswersOK
  <2>4. AnswersOK(t)
    BY <1>4, <2>2, <2>3, QueryAnswers
  <2> QED
    BY <2>4 DEF t
<1> QED
  BY <1>1, <1>2, <1>3, <1>4

LEMMA CancelAnswers ==
  ASSUME NEW s, Sound(s), AnswersOK(s) PROVE AnswersOK(net_dns_cancel(s))
<1> DEFINE t == net_dns_cancel(s)
           none == NoDns
<1>1. PICK p : t = s \/ t = [s EXCEPT !.dns = none, !.pending_ipv4 = p]
  BY DEF net_dns_cancel
<1>2. QueryOK(none)
  BY NoQueryOK
<1> HIDE DEF t, none
<1>3. t = s \/ (t.dns = none /\ t.dns_cache = s.dns_cache /\ t.ipv4 = s.ipv4)
  BY <1>1 DEF Sound, Whole
<1>4. AnswersOK(t)
  BY <1>2, <1>3 DEF AnswersOK
<1> QED
  BY <1>4 DEF t

LEMMA ClearResultAnswers ==
  ASSUME NEW s, Sound(s), AnswersOK(s) PROVE AnswersOK(net_dns_clear_result(s))
<1> DEFINE t == net_dns_clear_result(s)
           none == NoDns
<1>1. t = [s EXCEPT !.dns = none]
  BY DEF net_dns_clear_result
<1>2. QueryOK(none)
  BY NoQueryOK
<1> HIDE DEF t, none
<1>3. t.dns = none /\ t.dns_cache = s.dns_cache /\ t.ipv4 = s.ipv4
  BY <1>1 DEF Sound, Whole
<1>4. AnswersOK(t)
  BY <1>2, <1>3 DEF AnswersOK
<1> QED
  BY <1>4 DEF t

(* The configuration and the DHCP client *)

\* An emptied cache holds for whichever resolver comes.
LEMMA EmptyCacheOK ==
  ASSUME NEW S \in SUBSET Nat, NEW server PROVE CacheOK([i \in S |-> Nothing], server)
BY DEF CacheOK

LEMMA ClearAnswers ==
  ASSUME NEW s, Sound(s), AnswersOK(s) PROVE AnswersOK(net_clear_ipv4(s))
<1> DEFINE none == NoConfig
           nothing == Nothing
           t == net_clear_ipv4(s)
           q == IF s.dns.state = "PENDING"
                THEN [s.dns EXCEPT !.state = "TIMED_OUT", !.attempts = 0, !.wait = 0] ELSE s.dns
           cache == [i \in DOMAIN s.dns_cache |-> Nothing]
           arp == [i \in DOMAIN s.arp |-> Nothing]
<1>1. t = [s EXCEPT !.ipv4 = none, !.dns = q, !.arp = arp, !.pending_ipv4 = nothing,
                    !.dns_cache = cache]
  BY DEF net_clear_ipv4, net_dns_cache_clear, ForgetNetwork, Sound, Whole
<1>2. QueryOK(q)
  <2> DEFINE o == s.dns
             p == [o EXCEPT !.state = "TIMED_OUT", !.attempts = 0, !.wait = 0]
  <2>1. QueryOK(o)
    BY DEF AnswersOK
  <2> HIDE DEF o
  <2>2. DOMAIN p = DOMAIN o /\ p.state = "TIMED_OUT"
    BY <2>1 DEF QueryOK
  <2> HIDE DEF p
  <2>3. QueryOK(p)
    BY <2>1, <2>2 DEF QueryOK
  <2> QED
    BY <2>1, <2>3 DEF o, p
<1>3. CacheOK(cache, none.dns)
  BY EmptyCacheOK DEF AnswersOK, CacheOK
<1> HIDE DEF t, none, q, cache, arp
<1>4. t.ipv4 = none /\ t.dns = q /\ t.dns_cache = cache
  BY <1>1 DEF Sound, Whole
<1>5. AnswersOK(t)
  BY <1>2, <1>3, <1>4 DEF AnswersOK
<1> QED
  BY <1>5 DEF t

LEMMA StartAnswers ==
  ASSUME NEW s, Sound(s), AnswersOK(s) PROVE AnswersOK(net_dhcp_start(s))
<1> DEFINE t == net_clear_ipv4(s)
           d == [NoDhcp EXCEPT !.state = "DISCOVERING"]
           u == [t EXCEPT !.dhcp = d]
<1>1. Sound(t) /\ AnswersOK(t)
  BY ClearForgets, ClearAnswers
<1> HIDE DEF t, d
<1>2. Sound(u) /\ SameAnswers(u, t)
  BY <1>1 DEF Sound, Whole, SameAnswers
<1> HIDE DEF u
<1>3. SameAnswers(dhcp_send_message(u), u) /\ AnswersOK(u)
  BY <1>1, <1>2, DhcpMessageAnswers, SameAnswersKeep
<1>4. AnswersOK(dhcp_send_message(u))
  BY <1>3, SameAnswersKeep
<1> QED
  BY <1>4 DEF net_dhcp_start, u, t, d

\* Another resolver, or another network, never sees the answers of the last one.
LEMMA ConfigureAnswers ==
  ASSUME NEW s, Sound(s), AnswersOK(s), NEW config
  PROVE  AnswersOK(net_configure_ipv4(s, config))
<1> DEFINE v == net_configure_ipv4(s, config)
           changed == network_changed(s.ipv4, config)
           t == [s EXCEPT !.ipv4 = config]
           w == ForgetNetwork(t)
           u == IF changed THEN w ELSE t
<1>1. v = IF changed \/ s.ipv4.dns # config.dns THEN net_dns_cache_clear(u) ELSE u
  BY DEF net_configure_ipv4
<1>2. /\ Whole(t) /\ t.ipv4 = config /\ t.dns = s.dns /\ t.dns_cache = s.dns_cache
  BY DEF Sound, Whole
<1>3. /\ Whole(w) /\ w.ipv4 = config /\ w.dns = s.dns /\ w.dns_cache = s.dns_cache
  <2> DEFINE nothing == Nothing
             a == [i \in DOMAIN t.arp |-> nothing]
  <2>1. w = [t EXCEPT !.arp = a, !.pending_ipv4 = nothing]
    BY Zenon DEF ForgetNetwork
  <2> HIDE DEF nothing, a, w, t
  <2> QED
    BY <1>2, <2>1 DEF Whole
<1> HIDE DEF t, w
<1>4. /\ Whole(u) /\ u.ipv4 = config /\ u.dns = s.dns /\ u.dns_cache = s.dns_cache
  BY <1>2, <1>3
<1> HIDE DEF u
<1>5. CASE changed \/ s.ipv4.dns # config.dns
  <2> DEFINE cache == [i \in DOMAIN u.dns_cache |-> Nothing]
  <2>1. v = [u EXCEPT !.dns_cache = cache]
    BY <1>1, <1>5, Zenon DEF net_dns_cache_clear
  <2>2. CacheOK(cache, config.dns)
    BY <1>4, EmptyCacheOK DEF AnswersOK, CacheOK
  <2> HIDE DEF v, cache
  <2>3. v.ipv4 = config /\ v.dns = s.dns /\ v.dns_cache = cache
    BY <1>4, <2>1 DEF Whole
  <2>4. AnswersOK(v)
    BY <2>2, <2>3 DEF AnswersOK
  <2> QED
    BY <2>4 DEF v
<1>6. CASE ~ (changed \/ s.ipv4.dns # config.dns)
  <2>1. v = u /\ s.ipv4.dns = config.dns
    BY <1>1, <1>6
  <2> HIDE DEF v
  <2>2. AnswersOK(v)
    BY <1>4, <2>1 DEF AnswersOK
  <2> QED
    BY <2>2 DEF v
<1> QED
  BY <1>5, <1>6

\* A change of the client alone.
LEMMA ClientAnswers ==
  ASSUME NEW s, Sound(s), AnswersOK(s), NEW d, NEW t, t = [s EXCEPT !.dhcp = d]
  PROVE  Sound(t) /\ AnswersOK(t)
<1>1. Sound(t) /\ SameAnswers(t, s)
  BY DEF Sound, Whole, SameAnswers
<1> QED
  BY <1>1, SameAnswersKeep

LEMMA SentAnswers ==
  ASSUME NEW s, Sound(s), AnswersOK(s) PROVE AnswersOK(dhcp_send_message(s))
BY DhcpMessageAnswers, SameAnswersKeep

LEMMA DhcpReceiveAnswers ==
  ASSUME NEW s, Sound(s), AnswersOK(s), NEW type, NEW m, NEW source
  PROVE  AnswersOK(dhcp_receive(s, type, m, source))
<1> DEFINE t == dhcp_receive(s, type, m, source)
<1>1. t \in {s, net_dhcp_start(s), Offered(s, m, source), Acknowledged(s, m, source)}
  BY Zenon DEF dhcp_receive, dhcp_restart
<1>2. AnswersOK(Offered(s, m, source))
  <2>1. PICK d, u : u = [s EXCEPT !.dhcp = d] /\ Offered(s, m, source) = dhcp_send_message(u)
    BY Zenon DEF Offered
  <2> QED
    BY <2>1, ClientAnswers, SentAnswers
<1>3. AnswersOK(Acknowledged(s, m, source))
  <2>1. PICK server, lease, config, v, g :
          /\ v = [s EXCEPT !.dhcp.server = server, !.dhcp.lease = lease]
          /\ \/ Acknowledged(s, m, source) = s
             \/ Acknowledged(s, m, source) = v
             \/ Acknowledged(s, m, source) = [net_configure_ipv4(v, config) EXCEPT !.dhcp = g]
    BY Zenon DEF Acknowledged
  <2>2. PICK d : v = [s EXCEPT !.dhcp = d]
    BY <2>1 DEF Sound, Whole
  <2>3. Sound(v) /\ AnswersOK(v)
    BY <2>2, ClientAnswers
  <2> DEFINE w == net_configure_ipv4(v, config)
  <2>4. Sound(w) /\ AnswersOK(w)
    BY <2>3, ConfigureKeeps, ConfigureAnswers
  <2> HIDE DEF w
  <2>5. AnswersOK([w EXCEPT !.dhcp = g])
    BY <2>4, ClientAnswers
  <2> QED
    BY <2>1, <2>3, <2>5 DEF w
<1> HIDE DEF t
<1>4. AnswersOK(t)
  BY <1>1, <1>2, <1>3, StartAnswers
<1> QED
  BY <1>4 DEF t

LEMMA TickDhcpAnswers ==
  ASSUME NEW s, Sound(s), Configured(s.ipv4, s.dhcp), AnswersOK(s)
  PROVE  AnswersOK(tick_dhcp(s))
<1> DEFINE t == tick_dhcp(s)
           Ask(state) == [s EXCEPT !.dhcp.state = state, !.dhcp.attempts = 0]
           d == s.dhcp
<1>1. \/ t = s \/ t = net_dhcp_start(s) \/ t = dhcp_send_message(s)
      \/ t = dhcp_send_message(Ask("RENEWING")) \/ t = dhcp_send_message(Ask("REBINDING"))
  <2>1. d.lease \in Nat /\ d.elapsed \in Nat
    BY DEF Configured, WholeClient
  <2>2. CASE d.state \in Bound /\ d.elapsed >= d.lease
    BY <2>1, <2>2 DEF tick_dhcp, dhcp_restart, Bound
  <2>3. CASE ~ (d.state \in Bound /\ d.elapsed >= d.lease)
    BY <2>1, <2>3, Zenon DEF tick_dhcp
  <2> QED
    BY <2>2, <2>3
<1>2. ASSUME NEW state PROVE AnswersOK(dhcp_send_message(Ask(state)))
  <2> DEFINE u == Ask(state)
  <2>1. PICK client : u = [s EXCEPT !.dhcp = client]
    BY DEF Sound, Whole
  <2> HIDE DEF u
  <2>2. AnswersOK(dhcp_send_message(u))
    BY <2>1, ClientAnswers, SentAnswers
  <2> QED
    BY <2>2 DEF u
<1> QED
  BY <1>1, <1>2, StartAnswers, SentAnswers

(* Time *)

LEMMA PassAnswers ==
  ASSUME NEW s, Sound(s), AnswersOK(s), NEW d PROVE AnswersOK(Pass(s, d))
<1> DEFINE t == Pass(s, d)
           left == Minus(s.dns.wait, d)
           q == [s.dns EXCEPT !.wait = left]
           Staler(e) == [e EXCEPT !.expires = Minus(@, d), !.used = @ + d]
           cache == [i \in DOMAIN s.dns_cache |->
                       IF s.dns_cache[i] = Nothing THEN Nothing ELSE Staler(s.dns_cache[i])]
<1>1. PICK a, b, c, g :
        t = [s EXCEPT !.arp = a, !.pending_ipv4 = b, !.dhcp = c, !.dns = q,
                      !.dns_cache = cache, !.echo_request = g]
  BY ZenonT(60) DEF Pass
<1>2. QueryOK(q)
  <2> DEFINE o == s.dns
             tries == o.attempts
  <2>1. QueryOK(o)
    BY DEF AnswersOK
  <2>2. q = [o EXCEPT !.attempts = tries, !.wait = left]
    <3> HIDE DEF left
    <3> QED
      BY <2>1 DEF QueryOK
  <2> HIDE DEF o, tries, q, left
  <2> QED
    BY <2>1, <2>2, QueryWaits
<1>3. ASSUME NEW e, EntryOK(e, s.ipv4.dns) PROVE EntryOK(Staler(e), s.ipv4.dns)
  <2> DEFINE f == Staler(e)
  <2>1. DOMAIN f = DOMAIN e /\ f.address = e.address /\ f.name = e.name
    BY <1>3 DEF EntryOK
  <2> HIDE DEF f
  <2>2. EntryOK(f, s.ipv4.dns)
    BY <1>3, <2>1 DEF EntryOK
  <2> QED
    BY <2>2 DEF f
<1>4. CacheOK(cache, s.ipv4.dns)
  <2> HIDE DEF Staler
  <2> QED
    BY <1>3 DEF CacheOK, AnswersOK
<1> HIDE DEF t, q, cache
<1>5. t.dns = q /\ t.dns_cache = cache /\ t.ipv4 = s.ipv4
  BY <1>1 DEF Sound, Whole
<1>6. AnswersOK(t)
  BY <1>2, <1>4, <1>5 DEF AnswersOK
<1> QED
  BY <1>6 DEF t

LEMMA ExpireAnswers ==
  ASSUME NEW s, Sound(s), AnswersOK(s) PROVE AnswersOK(Expire(s))
<1> DEFINE t == Expire(s)
           old == s.dns_cache
           cache == [i \in DOMAIN old |->
                       IF old[i] # Nothing /\ old[i].expires = 0 THEN Nothing ELSE old[i]]
<1>1. PICK a : t = [s EXCEPT !.dns_cache = cache, !.arp = a]
  BY DEF Expire
<1>2. CacheOK(cache, s.ipv4.dns)
  BY DEF CacheOK, AnswersOK
<1> HIDE DEF t, cache
<1>3. t.dns = s.dns /\ t.dns_cache = cache /\ t.ipv4 = s.ipv4
  BY <1>1 DEF Sound, Whole
<1>4. AnswersOK(t)
  BY <1>2, <1>3 DEF AnswersOK
<1> QED
  BY <1>4 DEF t

(* The steps of the stack *)

LEMMA AnswersInit ==
  ASSUME Init PROVE AnswersInv
<1> DEFINE cache == [i \in 1 .. NET_DNS_CACHE_SIZE |-> Nothing]
           none == NoDns
           config == NoConfig
<1>1. stack.dns_cache = cache /\ stack.dns = none
  BY DEF Init, net_init
<1>2. CacheOK(cache, stack.ipv4.dns)
  BY RecordsAssumption, EmptyCacheOK
<1>3. QueryOK(none)
  BY NoQueryOK
<1> QED
  BY <1>1, <1>2, <1>3 DEF AnswersInv, AnswersOK

LEMMA AnswersTick ==
  ASSUME IInv, AnswersInv, NEW d \in 0 .. MaxElapsed, net_tick(d) PROVE AnswersInv'
<1> DEFINE s == stack
           s0 == Pass(s, d)
           s1 == Expire(s0)
<1>1. PICK up \in LinkStates : stack' = tick_echo(tick_dns(tick_dhcp(tick_pending_arp(s1, up))))
  BY DEF net_tick
<1> DEFINE s2 == tick_pending_arp(s1, up)
           s3 == tick_dhcp(s2)
           s4 == tick_dns(s3)
<1>2. StackOK(s) /\ Sound(s) /\ AnswersOK(s)
  BY DEF IInv, StackOK, AnswersInv
<1> HIDE DEF s
<1>3. Sound(s0) /\ Configured(s0.ipv4, s0.dhcp) /\ AnswersOK(s0)
  BY <1>2, PassKeeps, PassAnswers
<1> HIDE DEF s0
<1>4. Frame(s1, s0) /\ Sound(s1) /\ AnswersOK(s1)
  BY <1>3, ExpireFrame, ExpireAnswers DEF Frame
<1> HIDE DEF s1
<1>5. Frame(s2, s1) /\ AnswersOK(s2)
  BY <1>4, PendingFrame, PendingAnswers, SameAnswersKeep
<1> HIDE DEF s2
<1>6. Sound(s2) /\ Configured(s2.ipv4, s2.dhcp)
  BY <1>3, <1>4, <1>5 DEF Frame
<1>7. Sound(s3) /\ AnswersOK(s3)
  BY <1>5, <1>6, TickDhcpKeeps, TickDhcpAnswers DEF StackOK
<1> HIDE DEF s3
<1>8. Sound(s4) /\ AnswersOK(s4)
  BY <1>7, TickDnsFrame, TickDnsAnswers DEF Frame
<1> HIDE DEF s4
<1>9. AnswersOK(tick_echo(s4))
  BY <1>8, TickEchoAnswers, SameAnswersKeep
<1>10. stack' = tick_echo(s4)
  BY <1>1 DEF s4, s3, s2
<1> QED
  BY <1>9, <1>10 DEF AnswersInv

LEMMA HeaderAnswers ==
  ASSUME IInv, NEW source, NEW up
  PROVE  Sound(AfterHeader(source, up)) /\ SameAnswers(AfterHeader(source, up), stack)
<1>1. Sound(stack)
  BY DEF IInv, StackOK
<1>2. SameAnswers(Learn(stack, source, up), stack) /\ SameAnswers(stack, stack)
  BY <1>1, LearnAnswers DEF SameAnswers
<1>3. Sound(AfterHeader(source, up))
  BY HeaderKeeps DEF StackOK
<1> QED
  BY <1>2, <1>3 DEF AfterHeader

LEMMA AnswersInput ==
  ASSUME IInv, AnswersInv, net_input PROVE AnswersInv'
<1>1. Sound(stack) /\ AnswersOK(stack)
  BY DEF IInv, StackOK, AnswersInv
<1>2. ASSUME NEW source, NEW up PROVE AnswersOK(AfterHeader(source, up))
  BY <1>1, HeaderAnswers, SameAnswersKeep
<1>3. ASSUME NEW sender \in Neighbours, receive_arp(sender) PROVE AnswersOK(stack')
  <2>1. PICK up \in LinkStates : stack' = Learn(stack, sender, up)
    BY <1>3 DEF receive_arp
  <2> QED
    BY <1>1, <2>1, LearnAnswers, SameAnswersKeep
<1>4. ASSUME NEW source \in Servers, NEW type \in {"OFFER", "ACK", "NAK"}, NEW o \in Options,
             ReceiveDhcp(source, type, o)
      PROVE  AnswersOK(stack')
  <2>1. PICK up \in LinkStates :
          stack' = dhcp_receive(AfterHeader(source, up), type, o, source)
    BY <1>4 DEF ReceiveDhcp
  <2> DEFINE t == AfterHeader(source, up)
  <2>2. Sound(t) /\ AnswersOK(t)
    BY <1>2, HeaderAnswers
  <2> HIDE DEF t
  <2>3. AnswersOK(dhcp_receive(t, type, o, source))
    BY <2>2, DhcpReceiveAnswers
  <2> QED
    BY <2>1, <2>3 DEF t
<1>5. ASSUME NEW source \in DOMAIN Records, NEW id \in Ids, ReceiveDns(source, id)
      PROVE  AnswersOK(stack')
  <2>1. PICK up, m : /\ m \in Messages[source][stack.dns.name]
                     /\ stack' = dns_receive(AfterHeader(source, up), source, id, m)
    BY <1>5, Zenon DEF ReceiveDns
  <2> DEFINE t == AfterHeader(source, up)
  <2>2. Sound(t) /\ AnswersOK(t) /\ t.dns = stack.dns
    BY <1>2, HeaderAnswers DEF SameAnswers
  <2> HIDE DEF t
  <2>3. AnswersOK(dns_receive(t, source, id, m))
    BY <2>1, <2>2, DnsReceiveAnswers
  <2> QED
    BY <2>1, <2>3 DEF t
<1>6. ASSUME NEW source \in Peers, NEW type \in {"REQUEST", "REPLY"}, NEW id \in Ids,
             ReceiveIcmp(source, type, id)
      PROVE  AnswersOK(stack')
  <2>1. PICK up \in LinkStates :
          stack' = receive_icmp(AfterHeader(source, up), source, type, id)
    BY <1>6 DEF ReceiveIcmp
  <2> DEFINE t == AfterHeader(source, up)
  <2>2. Sound(t) /\ AnswersOK(t)
    BY <1>2, HeaderAnswers
  <2> HIDE DEF t
  <2>3. AnswersOK(receive_icmp(t, source, type, id))
    BY <2>2, IcmpAnswers, SameAnswersKeep
  <2> QED
    BY <2>1, <2>3 DEF t
<1> QED
  BY <1>3, <1>4, <1>5, <1>6 DEF net_input, AnswersInv

LEMMA AnswersCall ==
  ASSUME IInv, AnswersInv,
         \/ \E name \in Names, id \in Ids : Query(name, id)
         \/ DhcpStart \/ Cancel \/ ClearResult \/ ClearReply
         \/ \E destination \in Peers, id \in Ids : Ping(destination, id)
         \/ \E destination \in Peers : SendSegment(destination)
  PROVE  AnswersInv'
<1> DEFINE s == stack
<1>1. Sound(s) /\ AnswersOK(s)
  BY DEF IInv, StackOK, AnswersInv
<1>2. ASSUME NEW name \in Names, NEW id \in Ids, Query(name, id) PROVE AnswersOK(stack')
  BY <1>1, <1>2, AskAnswers DEF Query
<1>3. ASSUME Cancel PROVE AnswersOK(stack')
  BY <1>1, <1>3, CancelAnswers DEF Cancel
<1>4. ASSUME ClearResult PROVE AnswersOK(stack')
  BY <1>1, <1>4, ClearResultAnswers DEF ClearResult
<1>5. ASSUME ClearReply PROVE AnswersOK(stack')
  <2> DEFINE nothing == Nothing
  <2>1. stack' = [s EXCEPT !.echo_reply = nothing]
    BY <1>5 DEF ClearReply
  <2> HIDE DEF nothing, s
  <2>2. SameAnswers(stack', s)
    BY <1>1, <2>1 DEF SameAnswers, Sound, Whole
  <2> QED
    BY <1>1, <2>2, SameAnswersKeep
<1>6. ASSUME NEW destination \in Peers, NEW id \in Ids, Ping(destination, id)
      PROVE  AnswersOK(stack')
  BY <1>1, <1>6, PingAnswers, SameAnswersKeep DEF Ping
<1>7. ASSUME NEW destination \in Peers, SendSegment(destination) PROVE AnswersOK(stack')
  BY <1>1, <1>7, SendAnswers, SameAnswersKeep DEF SendSegment
<1>8. ASSUME DhcpStart PROVE AnswersOK(stack')
  BY <1>1, <1>8, StartAnswers DEF DhcpStart
<1> QED
  BY <1>2, <1>3, <1>4, <1>5, <1>6, <1>7, <1>8 DEF AnswersInv

LEMMA AnswersStep ==
  ASSUME IInv, AnswersInv, [Next]_stack PROVE AnswersInv'
<1>1. CASE UNCHANGED stack
  BY <1>1 DEF AnswersInv
<1>2. CASE Next
  BY <1>2, AnswersTick, AnswersInput, AnswersCall, Zenon DEF Next
<1> QED
  BY <1>1, <1>2

----------------------------------------------------------------------------
(* The theorems *)

\* The stack of net.c has an address exactly while its DHCP client holds a lease that
\* has not run out, in whatever state of renewal, and the packet that waits for ARP
\* carries that address and goes by the present way to its destination, for every
\* length of a lease and every time between two polls (tick_dhcp, pending_ipv4).
THEOREM AddressIsAlwaysHeld == Spec => []AddressIsHeld
<1>1. IInv => LeaseIsHeld
  BY DEF IInv, StackOK, Configured, Unexpired, LeaseIsHeld
<1>2. IInv => PacketFitsTheNetwork
  BY DEF IInv, StackOK, Sound, PacketOK, PacketFitsTheNetwork
<1>3. IInv => AddressIsHeld
  BY <1>1, <1>2 DEF AddressIsHeld
<1> QED
  BY <1>3, InvHolds, PTL

\* What the resolver's cache of net.c holds is what the resolver of the present
\* configuration says of that name, and a query is answered with an address of its own
\* name, for every number of aliases, records and entries, whatever leases, late answers
\* and cancellations come between (dns_receive, net_configure_ipv4, net_clear_ipv4).
THEOREM AnswersAreAlwaysCurrent == Spec => []AnswersAreCurrent
<1>1. Init => IInv /\ AnswersInv
  BY InitHolds, AnswersInit
<1>2. IInv /\ AnswersInv /\ [Next]_stack => (IInv /\ AnswersInv)'
  BY NextHolds, AnswersStep
<1>3. AnswersInv => AnswersAreCurrent
  BY DEF AnswersInv, AnswersOK, CacheOK, EntryOK, QueryOK, Valid, AnswersAreCurrent
<1> QED
  BY <1>1, <1>2, <1>3, PTL DEF Spec
=============================================================================
