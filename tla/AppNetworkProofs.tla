-------------------------- MODULE AppNetworkProofs --------------------------
(***************************************************************************)
(* Proofs about HTTP requests: for every set of URLs and processes and for  *)
(* every limit, the busy flag has one owner, segments only reach a live     *)
(* buffer, no request of the backend is orphaned, and an application is     *)
(* told the truth about its request.                                        *)
(*                                                                         *)
(* RequestOK(r) is what holds of the request on its own, Shared(n) of what  *)
(* the request and the blocking operation share.  Both hold between any two *)
(* calls inside network.c, so there is one lemma per function; Asked(n)     *)
(* holds only between two polls.                                            *)
(***************************************************************************)
EXTENDS AppNetwork, TLAPS

----------------------------------------------------------------------------
(* The inductive invariant *)

States == {"WAITING", "CONFIGURING", "RESOLVING", "CONNECTING", "SENDING", "RECEIVING",
           "REDIRECTING"} \cup Ended

Connected == {"CONNECTING", "SENDING", "RECEIVING"}

\* What a request that failed may say; "OK" is not among them.
Failures == {"TIMEOUT", "NOT_READY", "LINK_DOWN", "IO_ERROR", "DNS_FAILED",
             "INVALID_ARGUMENT", "CONNECTION_FAILED", "RESPONSE_TOO_LARGE",
             "PROTOCOL_ERROR", "UNSUPPORTED"}

Request ==
  [allocated : BOOLEAN, follow_redirects : BOOLEAN, dns_started : BOOLEAN,
   tcp_initialized : BOOLEAN, handle : 0 .. HTTP_HANDLE_MAX, age : Nat, state : States,
   result : Failures \cup {"OK", "CANCELED"},
   receive_phase : {"WAITING_FOR_PEER", "CLOSING_CONNECTION"},
   response_bytes : Blocks \cup {0}, request_sent : Nat, remote_ip : Urls \cup {None},
   visited : Seq(Urls), received : Urls \cup {None}, body : Urls \cup {None}]

Operation == [kind : {"dhcp", "resolve", "ping", "get", None},
              step : {"configure", "resolve", "echo", "tcp", None},
              url : Urls \cup {None}, buffers : SUBSET Blocks]

Dns == [state : {"IDLE", "PENDING", "RESOLVED", "TIMED_OUT"} \cup DnsFailures,
        name : Urls \cup {None}]

Statics ==
  [g_stack_ready : BOOLEAN, link : {"up", "down", "gone"}, configured : BOOLEAN,
   dhcp : {"OFF", "ACTIVE"}, dns : Dns, g_operation_busy : BOOLEAN,
   g_active_tcp_client : {"request", "get", None}, request : Request,
   g_next_http_handle : 1 .. HTTP_HANDLE_MAX, heap : SUBSET Blocks, op : Operation]

\* The result says how the request ended, and a body is that of the last URL.
Outcome(r) ==
  /\ r.state \notin Ended => r.result = "OK"
  /\ r.state = "FAILED" => r.result \in Failures
  /\ r.state = "CANCELED" => r.result = "CANCELED"
  /\ r.state = "COMPLETE" => /\ r.result = "OK"
                             /\ r.body = Url(r) /\ r.remote_ip = Url(r)

RequestOK(r) ==
  /\ r \in Request
  /\ r.allocated <=> r.response_bytes # 0
  /\ r.allocated => /\ r.handle # 0
                    /\ Len(r.visited) \in 1 .. NETWORK_HTTP_REDIRECT_LIMIT + 1
                    /\ Outcome(r)
                    /\ r.state # "WAITING"
  /\ r.dns_started => r.allocated /\ r.state = "RESOLVING"
  /\ r.allocated /\ r.state \in Connected =>
       r.remote_ip = Url(r) /\ r.received \in {None, Url(r)}

\* A blocking operation that may still resolve is one that does, and only a GET on
\* its connection holds buffers.
OpOK(o) ==
  /\ o.step = "configure" => o.kind # None
  /\ o.step = "resolve" => o.kind \notin {None, "dhcp"}
  /\ o.step = "tcp" <=> o.buffers # {}

\* The flag, the resolver, the registered client and the heap have one owner each.
Shared(n) ==
  /\ n.g_operation_busy <=> (Active(n.request) \/ n.op # NoOp)
  /\ Active(n.request) => n.op = NoOp
  /\ n.dns.state = "PENDING" => n.request.dns_started \/ n.op.step = "resolve"
  /\ n.request.dns_started => n.dns.name = Url(n.request)
  /\ n.op.step = "resolve" => n.dns.name = n.op.url
  /\ n.g_active_tcp_client = "request" => n.request.allocated /\ n.request.state \in Connected
  /\ n.g_active_tcp_client = "get" => n.op.step = "tcp"
  /\ OpOK(n.op)
  /\ n.heap = ({n.request.response_bytes} \ {0}) \cup n.op.buffers
  /\ n.request.response_bytes \notin n.op.buffers

NetOK(n) == n \in Statics /\ RequestOK(n.request) /\ Shared(n)

\* A request that resolves has asked.
Asked(n) == n.request.allocated /\ n.request.state = "RESOLVING" => n.request.dns_started

Record == [in_use : BOOLEAN, cleanup_pending : BOOLEAN, process_id : Processes \cup {0},
           app_handle : 0 .. APP_HANDLE_MAX, network_handle : 0 .. HTTP_HANDLE_MAX]

IInv ==
  /\ NetOK(net) /\ Asked(net)
  /\ g_request \in Record
  /\ g_next_handle \in 1 .. APP_HANDLE_MAX
  /\ alive \subseteq Processes
  /\ BackendIsNeverOrphaned

----------------------------------------------------------------------------
(* The three kinds of writes that network.c makes *)

LEMMA NetFields ==
  ASSUME NEW n \in Statics
  PROVE  /\ n.request \in Request /\ n.op \in Operation /\ n.dns \in Dns
         /\ n.request.allocated \in BOOLEAN /\ n.request.dns_started \in BOOLEAN
         /\ n.request.state \in States /\ n.request.response_bytes \in Blocks \cup {0}
         /\ n.op.buffers \in SUBSET Blocks /\ n.heap \in SUBSET Blocks
         /\ n.configured \in BOOLEAN /\ n.dhcp \in {"OFF", "ACTIVE"}
         /\ n.link \in {"up", "down", "gone"} /\ n.g_stack_ready \in BOOLEAN
         /\ n.g_operation_busy \in BOOLEAN
         /\ n.g_active_tcp_client \in {"request", "get", None}
<1>1. n.request \in Request /\ n.op \in Operation
  BY DEF Statics
<1>2. QED
  BY <1>1 DEF Statics, Request, Operation

\* The active request moves on or ends.
Steps(u, n) ==
  /\ Active(n.request) /\ u \in Statics /\ RequestOK(u.request) /\ u.request.allocated
  /\ u.op = n.op /\ u.heap = n.heap /\ u.g_stack_ready = n.g_stack_ready
  /\ u.request.handle = n.request.handle
  /\ u.request.response_bytes = n.request.response_bytes
  /\ u.g_operation_busy <=> Active(u.request)
  /\ u.g_active_tcp_client # "get"
  /\ u.g_active_tcp_client = "request" => u.request.state \in Connected
  /\ u.dns.state = "PENDING" => u.request.dns_started
  /\ u.request.dns_started => u.dns.name = Url(u.request)

\* It is still the same request, with the same buffer.
Driven(u, n) ==
  /\ NetOK(u)
  /\ u.request.allocated = n.request.allocated /\ u.request.handle = n.request.handle
  /\ u.op = n.op /\ (Active(u.request) => Active(n.request))
  /\ u.g_stack_ready = n.g_stack_ready

LEMMA StepKeeps ==
  ASSUME NEW n, NetOK(n), NEW u, Steps(u, n)
  PROVE  Driven(u, n)
<1>1. n \in Statics /\ Shared(n) /\ RequestOK(n.request) /\ RequestOK(u.request)
  BY DEF NetOK, Steps
<1>2. n.op = NoOp /\ n.request.allocated = TRUE /\ u.request.allocated = TRUE
  BY <1>1 DEF Shared, Steps, Active, Request, RequestOK
<1>3. Shared(u)
  <2>1. u.op.step = None /\ u.op.buffers = {}
    BY <1>2 DEF NoOp, Steps
  <2>2. u.heap = ({u.request.response_bytes} \ {0}) \cup u.op.buffers
    BY <1>1, <2>1 DEF Shared, Steps
  <2>3. /\ u.g_operation_busy <=> (Active(u.request) \/ u.op # NoOp)
        /\ Active(u.request) => u.op = NoOp
    BY <1>2 DEF Steps
  <2>4. QED
    BY <1>1, <1>2, <2>1, <2>2, <2>3 DEF Shared, Steps, None
<1>4. QED
  BY <1>1, <1>2, <1>3 DEF Driven, NetOK, Steps

\* A blocking operation goes on or returns; the request is left alone.
Blocked(u) ==
  /\ u \in Statics /\ RequestOK(u.request) /\ ~Active(u.request) /\ OpOK(u.op)
  /\ u.g_operation_busy <=> u.op # NoOp
  /\ u.g_active_tcp_client # "request"
  /\ u.g_active_tcp_client = "get" => u.op.step = "tcp"
  /\ u.heap = ({u.request.response_bytes} \ {0}) \cup u.op.buffers
  /\ u.request.response_bytes \notin u.op.buffers
  /\ u.dns.state = "PENDING" => u.op.step = "resolve"
  /\ u.op.step = "resolve" => u.dns.name = u.op.url

Aside(u, n) == NetOK(u) /\ u.request = n.request

LEMMA BlockedIsOK ==
  ASSUME NEW u, Blocked(u)
  PROVE  NetOK(u)
<1>1. ~u.request.dns_started
  BY DEF Blocked, RequestOK, Active, Ended
<1>2. QED
  BY <1>1 DEF Blocked, Shared, NetOK

LEMMA OKIsBlocked ==
  ASSUME NEW n, NetOK(n), ~Active(n.request)
  PROVE  Blocked(n)
<1>1. n \in Statics /\ Shared(n) /\ RequestOK(n.request)
  BY DEF NetOK
<1>2. ~n.request.dns_started /\ n.g_active_tcp_client # "request"
  BY <1>1 DEF Shared, RequestOK, Active, Connected, Ended
<1>3. QED
  BY <1>1, <1>2 DEF Blocked, Shared

\* The stack below, or the world, moves.
StackWritten(n, cf, dh, l, d) ==
  [n EXCEPT !.configured = cf, !.dhcp = dh, !.link = l, !.dns = d]

MayWriteStack(n, cf, dh, l, d) ==
  /\ cf \in BOOLEAN /\ dh \in {"OFF", "ACTIVE"} /\ l \in {"up", "down", "gone"}
  /\ d \in Dns /\ d.name = n.dns.name /\ (d.state = "PENDING" => n.dns.state = "PENDING")

LEMMA StackWriteKeeps ==
  ASSUME NEW n, NetOK(n), NEW cf, NEW dh, NEW l, NEW d, MayWriteStack(n, cf, dh, l, d)
  PROVE  LET u == StackWritten(n, cf, dh, l, d)
         IN  /\ Driven(u, n) /\ Aside(u, n) /\ u.op = n.op /\ u.dns = d
             /\ u.g_active_tcp_client = n.g_active_tcp_client
             /\ u.configured = cf /\ u.dhcp = dh /\ u.link = l
             /\ u.g_stack_ready = n.g_stack_ready /\ u.heap = n.heap
             /\ u.g_operation_busy = n.g_operation_busy
<1> DEFINE u == StackWritten(n, cf, dh, l, d)
<1>1. n \in Statics /\ Shared(n) /\ RequestOK(n.request)
  BY DEF NetOK
<1>2. /\ u \in Statics /\ u.op = n.op /\ u.g_active_tcp_client = n.g_active_tcp_client
      /\ u.dns = d /\ u.configured = cf /\ u.dhcp = dh /\ u.link = l
      /\ u.g_operation_busy = n.g_operation_busy /\ u.request = n.request
      /\ u.heap = n.heap /\ u.g_stack_ready = n.g_stack_ready
  BY <1>1 DEF StackWritten, MayWriteStack, Statics
<1> HIDE DEF u
<1>3. Shared(u)
  BY <1>1, <1>2 DEF Shared, MayWriteStack
<1>4. QED
  BY <1>1, <1>2, <1>3 DEF Driven, Aside, NetOK, u

----------------------------------------------------------------------------
(* Ending a request *)

Good(u, n) == Driven(u, n) /\ Asked(u)

LEMMA GoodIsTransitive ==
  ASSUME NEW n, NEW m, NEW u, Driven(m, n), Good(u, m)
  PROVE  Good(u, n)
  BY DEF Good, Driven

MayEnd(r, state, result) ==
  /\ Active(r) /\ state \in Ended
  /\ state = "FAILED" => result \in Failures
  /\ state = "CANCELED" => result = "CANCELED"
  /\ state = "COMPLETE" => result = "OK" /\ r.body = Url(r) /\ r.remote_ip = Url(r)

LEMMA FinishKeeps ==
  ASSUME NEW n, NetOK(n), NEW state, NEW result, MayEnd(n.request, state, result)
  PROVE  LET u == network_http_request_finish(n, state, result)
         IN  Good(u, n) /\ ~Active(u.request)
<1> DEFINE u == network_http_request_finish(n, state, result)
           r == [n.request EXCEPT !.dns_started = FALSE, !.state = state,
                                  !.result = result, !.age = 0]
           d == IF n.request.dns_started THEN net_dns_cancel(n.dns) ELSE n.dns
           c == IF n.g_active_tcp_client = "request" THEN None ELSE n.g_active_tcp_client
<1>1. n \in Statics /\ Shared(n) /\ RequestOK(n.request) /\ n.request \in Request
  BY DEF NetOK, RequestOK
<1>2. /\ state \in States /\ result \in Failures \cup {"OK", "CANCELED"}
      /\ n.request.allocated = TRUE
  BY <1>1 DEF MayEnd, States, Ended, Active, Request
<1>3. /\ r \in Request /\ r.allocated = TRUE /\ r.dns_started = FALSE /\ r.state = state
      /\ r.result = result /\ r.handle = n.request.handle
      /\ r.response_bytes = n.request.response_bytes /\ r.visited = n.request.visited
      /\ r.body = n.request.body /\ r.remote_ip = n.request.remote_ip
  BY <1>1, <1>2, ZenonT(60) DEF Request
<1>4. n.dns \in Dns /\ n.g_active_tcp_client \in {"request", "get", None}
  BY <1>1, NetFields
<1>5. d \in Dns /\ d.state # "PENDING"
  <2>1. CASE n.request.dns_started
    BY <1>4, <2>1 DEF net_dns_cancel, Dns, None
  <2>2. CASE ~n.request.dns_started
    <3>1. n.op.step = None
      BY <1>1 DEF Shared, MayEnd, NoOp
    <3>2. QED
      BY <1>1, <1>4, <2>2, <3>1 DEF Shared, None
  <2>3. QED
    BY <2>1, <2>2
<1>6. c = None
  <2>1. n.op.step = None
    BY <1>1 DEF Shared, MayEnd, NoOp
  <2>2. QED
    BY <1>1, <1>4, <2>1 DEF Shared, None
<1>7. u = [n EXCEPT !.dns = d, !.g_active_tcp_client = c, !.request = r,
                    !.g_operation_busy = FALSE]
  BY <1>1 DEF network_http_request_finish, Statics
<1> HIDE DEF d, c, r
<1>8. /\ u \in Statics /\ u.request = r /\ u.g_active_tcp_client = None /\ u.dns = d
      /\ u.g_operation_busy = FALSE /\ u.op = n.op /\ u.heap = n.heap
      /\ u.g_stack_ready = n.g_stack_ready
  BY <1>1, <1>3, <1>5, <1>6, <1>7, ZenonT(60) DEF Statics, None
<1> HIDE DEF u
<1>9. RequestOK(r)
  <2>1. Outcome(r)
    BY <1>3 DEF Outcome, MayEnd, Ended, Url
  <2>2. state \notin Connected /\ state # "WAITING"
    BY DEF Connected, MayEnd, Ended
  <2>3. QED
    BY <1>1, <1>2, <1>3, <2>1, <2>2 DEF RequestOK
<1>10. ~Active(r)
  BY <1>3 DEF Active, MayEnd
<1>11. Steps(u, n)
  BY <1>3, <1>5, <1>8, <1>9, <1>10 DEF Steps, MayEnd, None
<1>12. Asked(u)
  BY <1>3, <1>8 DEF Asked, MayEnd, Ended
<1>13. QED
  BY <1>8, <1>10, <1>11, <1>12, StepKeeps DEF Good, u

LEMMA FailKeeps ==
  ASSUME NEW n, NetOK(n), Active(n.request), NEW result \in Failures
  PROVE  Good(Fail(n, result), n)
<1>1. MayEnd(n.request, "FAILED", result)
  BY DEF MayEnd, Ended
<1> DEFINE failed == "FAILED"
<1>2. MayEnd(n.request, failed, result)
  BY <1>1
<1> HIDE DEF failed
<1>3. Good(network_http_request_finish(n, failed, result), n)
  BY <1>2, FinishKeeps
<1>4. QED
  BY <1>3 DEF Fail, failed

\* Every error that the layers below can report is a failure for the request.
LEMMA ErrorsAreFailures ==
  /\ TcpResults \subseteq Failures /\ BuildResults \subseteq Failures
  /\ ParseResults \subseteq Failures /\ LocationResults \subseteq Failures
  BY DEF TcpResults, BuildResults, ParseResults, LocationResults, network_map_tcp_error,
         network_map_http_error, TcpErrors, BuildErrors, ParseErrors, LocationErrors, Failures

LEMMA TcpFailsKeep ==
  ASSUME NEW n, NetOK(n), Active(n.request), NEW u \in TcpFails(n)
  PROVE  Good(u, n)
  BY FailKeeps, ErrorsAreFailures DEF TcpFails

LEMMA HttpFailsKeep ==
  ASSUME NEW n, NetOK(n), Active(n.request), NEW results, results \subseteq Failures,
         NEW u \in HttpFails(n, results)
  PROVE  Good(u, n)
  BY FailKeeps DEF HttpFails

----------------------------------------------------------------------------
(* The phases *)

\* What an active request has to itself.
LEMMA ActiveFacts ==
  ASSUME NEW n, NetOK(n), Active(n.request)
  PROVE  /\ n \in Statics /\ n.request \in Request /\ n.request.allocated = TRUE
         /\ n.op = NoOp /\ n.op.step = None /\ n.op.buffers = {}
         /\ n.g_operation_busy = TRUE /\ n.g_active_tcp_client \in {"request", None}
         /\ n.request.response_bytes # 0 /\ n.request.handle # 0
         /\ n.dns \in Dns /\ (n.dns.state = "PENDING" => n.request.dns_started)
         /\ n.request.result = "OK"
<1>1. n \in Statics /\ Shared(n) /\ RequestOK(n.request) /\ n.request \in Request
  BY DEF NetOK, RequestOK
<1>2. n.op = NoOp /\ n.g_operation_busy = TRUE
  BY <1>1 DEF Shared, Statics
<1>3. n.op.step = None /\ n.op.buffers = {}
  BY <1>2 DEF NoOp
<1>4. n.request.allocated = TRUE
  BY <1>1 DEF Active, Request
<1>5. n.g_active_tcp_client \in {"request", None} /\ n.dns \in Dns
  BY <1>1, <1>3, NetFields DEF Shared, None
<1>6. n.dns.state = "PENDING" => n.request.dns_started
  BY <1>1, <1>3 DEF Shared, None
<1>7. QED
  BY <1>1, <1>2, <1>3, <1>4, <1>5, <1>6 DEF RequestOK, Outcome, Active

\* The connection goes to the host of the last URL.
MayConnect(n) ==
  NetOK(n) /\ Active(n.request) /\ ~n.request.dns_started /\ n.request.remote_ip = Url(n.request)

LEMMA ConnectKeeps ==
  ASSUME NEW n, MayConnect(n), NEW u \in network_http_begin_connect(n)
  PROVE  Good(u, n)
<1> DEFINE r == [n.request EXCEPT !.tcp_initialized = TRUE, !.request_sent = 0,
                                  !.received = None, !.state = "CONNECTING"]
           m == [n EXCEPT !.request = r, !.g_active_tcp_client = "request"]
<1>1. /\ NetOK(n) /\ Active(n.request) /\ n.request.dns_started = FALSE
      /\ n.request.remote_ip = Url(n.request) /\ n \in Statics /\ n.request \in Request
  BY ActiveFacts DEF MayConnect, Request
<1>2. /\ r \in Request /\ r.allocated = n.request.allocated /\ r.dns_started = FALSE
      /\ r.state = "CONNECTING" /\ r.received = None /\ r.visited = n.request.visited
      /\ r.remote_ip = n.request.remote_ip /\ r.result = n.request.result
      /\ r.handle = n.request.handle /\ r.response_bytes = n.request.response_bytes
  BY <1>1 DEF Request, States
<1> HIDE DEF r
<1>3. /\ m \in Statics /\ m.request = r /\ m.g_active_tcp_client = "request"
      /\ m.dns = n.dns /\ m.op = n.op /\ m.heap = n.heap
      /\ m.g_stack_ready = n.g_stack_ready /\ m.g_operation_busy = n.g_operation_busy
  BY <1>1, <1>2 DEF Statics
<1>4. u = m \/ u \in TcpFails(m)
  BY <1>1 DEF network_http_begin_connect, r, Statics
<1> HIDE DEF m
<1>5. RequestOK(r)
  <2>1. Outcome(r) /\ "CONNECTING" # "WAITING"
    BY <1>1, <1>2, ActiveFacts DEF Outcome, Ended
  <2>2. Url(r) = Url(n.request)
    BY <1>2 DEF Url
  <2>3. RequestOK(n.request)
    BY <1>1 DEF NetOK
  <2>4. QED
    BY <1>1, <1>2, <2>1, <2>2, <2>3, ActiveFacts DEF RequestOK
<1>6. Active(r)
  BY <1>1, <1>2 DEF Active, Ended
<1>7. Steps(m, n)
  BY <1>1, <1>2, <1>3, <1>5, <1>6, ActiveFacts DEF Steps, Connected
<1>8. Driven(m, n) /\ NetOK(m) /\ Active(m.request)
  BY <1>1, <1>3, <1>6, <1>7, StepKeeps DEF Driven
<1>9. CASE u = m
  BY <1>2, <1>3, <1>8, <1>9 DEF Good, Asked
<1>10. CASE u \in TcpFails(m)
  BY <1>8, <1>10, TcpFailsKeep, GoodIsTransitive
<1>11. QED
  BY <1>4, <1>9, <1>10

\* The start of a resolution, with what is known of the address.
Resolving(n, ip) ==
  [n EXCEPT !.request = [@ EXCEPT !.remote_ip = ip, !.dns_started = FALSE,
                                  !.tcp_initialized = FALSE, !.state = "RESOLVING"]]

\* Nothing is registered and nothing was asked.
MayResolve(n) ==
  NetOK(n) /\ Active(n.request) /\ n.request.state \notin Connected \cup {"RESOLVING"}

LEMMA UrlIsOne ==
  ASSUME NEW r \in Request, Len(r.visited) # 0
  PROVE  Url(r) \in Urls
<1>1. r.visited \in Seq(Urls) /\ Len(r.visited) \in Nat
  BY DEF Request
<1>2. QED
  BY <1>1 DEF Url, Last

Begun(m, n, ip) ==
  /\ Driven(m, n) /\ Active(m.request) /\ m.request.dns_started = FALSE
  /\ m.request.remote_ip = ip /\ m.request.visited = n.request.visited
  /\ m.request.state = "RESOLVING"

LEMMA ResolvingKeeps ==
  ASSUME NEW n, MayResolve(n), NEW ip \in Urls \cup {None}
  PROVE  Begun(Resolving(n, ip), n, ip)
<1> DEFINE r == [n.request EXCEPT !.remote_ip = ip, !.dns_started = FALSE,
                                  !.tcp_initialized = FALSE, !.state = "RESOLVING"]
           m == Resolving(n, ip)
<1>1. /\ NetOK(n) /\ Active(n.request) /\ n \in Statics /\ n.request \in Request
      /\ RequestOK(n.request) /\ Shared(n)
  BY ActiveFacts DEF MayResolve, NetOK
<1>2. /\ r \in Request /\ r.allocated = n.request.allocated /\ r.dns_started = FALSE
      /\ r.state = "RESOLVING" /\ r.visited = n.request.visited
      /\ r.remote_ip = ip /\ r.result = n.request.result
      /\ r.handle = n.request.handle /\ r.response_bytes = n.request.response_bytes
  BY <1>1, ZenonT(60) DEF Request, States
<1> HIDE DEF r
<1>3. m = [n EXCEPT !.request = r]
  BY <1>1 DEF Resolving, r, Statics
<1>4. /\ m \in Statics /\ m.request = r /\ m.g_active_tcp_client = n.g_active_tcp_client
      /\ m.dns = n.dns /\ m.op = n.op /\ m.heap = n.heap
      /\ m.g_stack_ready = n.g_stack_ready /\ m.g_operation_busy = n.g_operation_busy
      /\ m.configured = n.configured
  BY <1>1, <1>2, <1>3 DEF Statics
<1> HIDE DEF m
<1>5. RequestOK(r)
  <2>1. Outcome(r) /\ "RESOLVING" # "WAITING" /\ "RESOLVING" \notin Connected
    BY <1>1, <1>2, ActiveFacts DEF Outcome, Ended, Connected
  <2>2. QED
    BY <1>1, <1>2, <2>1, ActiveFacts DEF RequestOK
<1>6. Active(r)
  BY <1>1, <1>2 DEF Active, Ended
<1>7. m.g_active_tcp_client = None /\ n.dns.state # "PENDING"
  BY <1>1, <1>4, ActiveFacts DEF MayResolve, Shared, RequestOK
<1>8. Steps(m, n)
  BY <1>1, <1>2, <1>4, <1>5, <1>6, <1>7, ActiveFacts DEF Steps, None
<1>9. Driven(m, n) /\ Active(m.request)
  BY <1>1, <1>4, <1>6, <1>8, StepKeeps
<1>10. QED
  BY <1>2, <1>4, <1>9 DEF m, Begun

\* The resolver is cleared, or asked for the host.
LEMMA ClearedKeeps ==
  ASSUME NEW n, NetOK(n), Active(n.request), ~n.request.dns_started
  PROVE  LET m == [n EXCEPT !.dns = net_dns_clear_result]
         IN  Driven(m, n) /\ Active(m.request)
<1> DEFINE d == net_dns_clear_result
           m == [n EXCEPT !.dns = d]
<1>1. n \in Statics /\ Shared(n) /\ RequestOK(n.request)
  BY DEF NetOK
<1>2. d \in Dns /\ d.state # "PENDING"
  BY DEF net_dns_clear_result, Dns
<1> HIDE DEF d
<1>3. /\ m \in Statics /\ m.dns = d /\ m.request = n.request /\ m.op = n.op
      /\ m.heap = n.heap /\ m.g_stack_ready = n.g_stack_ready
      /\ m.g_operation_busy = n.g_operation_busy
      /\ m.g_active_tcp_client = n.g_active_tcp_client
  BY <1>1, <1>2 DEF Statics
<1> HIDE DEF m
<1>4. Steps(m, n)
  BY <1>1, <1>2, <1>3, ActiveFacts DEF Steps, Shared, None
<1>5. QED
  BY <1>3, <1>4, StepKeeps DEF m, d

LEMMA AskingKeeps ==
  ASSUME NEW n, NetOK(n), Active(n.request), n.request.state = "RESOLVING",
         NEW d \in net_dns_query(n, Url(n.request))
  PROVE  Good([n EXCEPT !.dns = d, !.request.dns_started = TRUE], n)
<1> DEFINE r == [n.request EXCEPT !.dns_started = TRUE]
           m == [n EXCEPT !.dns = d, !.request = r]
<1>1. /\ n \in Statics /\ Shared(n) /\ RequestOK(n.request) /\ n.request \in Request
      /\ n.request.allocated = TRUE
  BY ActiveFacts DEF NetOK
<1>2. Url(n.request) \in Urls
  BY <1>1, UrlIsOne, NetworkAssumption DEF RequestOK
<1>3. d \in Dns /\ d.name = Url(n.request)
  BY <1>2 DEF net_dns_query, Dns, DnsFailures
<1>4. /\ r \in Request /\ r.allocated = TRUE /\ r.dns_started = TRUE
      /\ r.state = "RESOLVING" /\ r.visited = n.request.visited
      /\ r.remote_ip = n.request.remote_ip /\ r.result = n.request.result
      /\ r.handle = n.request.handle /\ r.response_bytes = n.request.response_bytes
  BY <1>1 DEF Request
<1>5. Url(r) = Url(n.request)
  BY <1>4 DEF Url
<1>6. [n EXCEPT !.dns = d, !.request.dns_started = TRUE] = m
  BY <1>1 DEF Statics
<1> HIDE DEF r
<1>7. /\ m \in Statics /\ m.dns = d /\ m.request = r /\ m.op = n.op
      /\ m.heap = n.heap /\ m.g_stack_ready = n.g_stack_ready
      /\ m.g_operation_busy = n.g_operation_busy
      /\ m.g_active_tcp_client = n.g_active_tcp_client
  BY <1>1, <1>3, <1>4 DEF Statics
<1> HIDE DEF m
<1>8. Outcome(r) /\ Active(r) /\ "RESOLVING" \notin Connected /\ "RESOLVING" # "WAITING"
  BY <1>4, ActiveFacts DEF Outcome, Active, Ended, Connected
<1>9. RequestOK(r)
  BY <1>1, <1>4, <1>8, ActiveFacts DEF RequestOK
<1>10. n.g_active_tcp_client = None
  BY <1>1, ActiveFacts DEF Shared, Connected
<1>11. Steps(m, n)
  BY <1>3, <1>4, <1>5, <1>7, <1>8, <1>9, <1>10, ActiveFacts DEF Steps, None
<1>12. Asked(m)
  BY <1>4, <1>7 DEF Asked
<1>13. QED
  BY <1>6, <1>11, <1>12, StepKeeps DEF Good

LEMMA ResolutionKeeps ==
  ASSUME NEW n, MayResolve(n), NEW u \in network_http_begin_resolution(n)
  PROVE  Good(u, n)
<1> DEFINE url == Url(n.request)
           m == Resolving(n, None)
           k == Resolving(n, url)
<1>1. /\ NetOK(n) /\ Active(n.request) /\ n \in Statics /\ n.request \in Request
      /\ RequestOK(n.request)
  BY ActiveFacts DEF MayResolve, NetOK
<1>2. url \in Urls
  BY <1>1, UrlIsOne, NetworkAssumption DEF RequestOK, Active
<1>3. [m EXCEPT !.request.remote_ip = url] = k
  BY <1>1 DEF Resolving, Statics, Request
<1>4. m = [n EXCEPT !.request = [@ EXCEPT !.remote_ip = None, !.dns_started = FALSE,
                                 !.tcp_initialized = FALSE, !.state = "RESOLVING"]]
  BY DEF Resolving
<1>5. \/ u \in network_http_begin_connect(k)
      \/ u = Fail([m EXCEPT !.dns = net_dns_clear_result], "DNS_FAILED")
      \/ \E d \in net_dns_query(m, url) : u = [m EXCEPT !.dns = d, !.request.dns_started = TRUE]
  BY <1>3, <1>4, ZenonT(30) DEF network_http_begin_resolution
<1> HIDE DEF url
<1>6. /\ Driven(m, n) /\ Active(m.request) /\ m.request.dns_started = FALSE
      /\ m.request.visited = n.request.visited /\ m.request.state = "RESOLVING"
  <2>1. Begun(m, n, None)
    BY ResolvingKeeps
  <2>2. QED
    BY <2>1 DEF Begun
<1>7. /\ Driven(k, n) /\ Active(k.request) /\ k.request.dns_started = FALSE
      /\ k.request.visited = n.request.visited /\ k.request.remote_ip = url
  <2>1. Begun(k, n, url)
    BY <1>2, ResolvingKeeps
  <2>2. QED
    BY <2>1 DEF Begun
<1> HIDE DEF m, k
<1>8. NetOK(m) /\ NetOK(k) /\ Url(m.request) = url /\ Url(k.request) = url
  BY <1>6, <1>7 DEF Driven, Url, url
<1>9. CASE u \in network_http_begin_connect(k)
  <2>1. MayConnect(k)
    BY <1>7, <1>8 DEF MayConnect
  <2>2. QED
    BY <1>7, <1>9, <2>1, ConnectKeeps, GoodIsTransitive
<1>10. CASE u = Fail([m EXCEPT !.dns = net_dns_clear_result], "DNS_FAILED")
  <2> DEFINE c == [m EXCEPT !.dns = net_dns_clear_result]
             e == "DNS_FAILED"
  <2>1. Driven(c, m) /\ Active(c.request)
    BY <1>6, <1>8, ClearedKeeps
  <2>2. e \in Failures /\ u = Fail(c, e)
    BY <1>10 DEF Failures
  <2> HIDE DEF c, e
  <2>3. Good(u, c)
    BY <2>1, <2>2, FailKeeps DEF Driven
  <2>4. Good(u, m)
    BY <2>1, <2>3, GoodIsTransitive
  <2>5. QED
    BY <1>6, <2>4, GoodIsTransitive
<1>11. ASSUME NEW d \in net_dns_query(m, url), u = [m EXCEPT !.dns = d, !.request.dns_started = TRUE]
       PROVE  Good(u, n)
  <2>1. Good(u, m)
    BY <1>6, <1>8, <1>11, AskingKeeps
  <2>2. QED
    BY <1>6, <2>1, GoodIsTransitive
<1>12. QED
  BY <1>5, <1>9, <1>10, <1>11

LEMMA ConfiguringKeeps ==
  ASSUME NEW n, NetOK(n), Active(n.request), n.request.state \in {"WAITING", "CONFIGURING"},
         NEW u \in DriveConfiguring(n)
  PROVE  Good(u, n)
<1> DEFINE r == [n.request EXCEPT !.state = "CONFIGURING"]
           m == [n EXCEPT !.dhcp = "ACTIVE", !.request = r]
           e == "IO_ERROR"
<1>1. /\ n \in Statics /\ Shared(n) /\ RequestOK(n.request) /\ n.request \in Request
      /\ n.request.allocated = TRUE
  BY ActiveFacts DEF NetOK
<1>2. m = [n EXCEPT !.dhcp = "ACTIVE", !.request.state = "CONFIGURING"] /\ e \in Failures
  BY <1>1 DEF Statics, Failures
<1>3. u \in network_http_begin_resolution(n) \/ u = m \/ u = Fail(n, e)
  BY <1>2 DEF DriveConfiguring
<1>4. /\ r \in Request /\ r.allocated = TRUE /\ r.dns_started = n.request.dns_started
      /\ r.state = "CONFIGURING" /\ r.visited = n.request.visited
      /\ r.result = n.request.result
      /\ r.handle = n.request.handle /\ r.response_bytes = n.request.response_bytes
  BY <1>1 DEF Request, States
<1> HIDE DEF r
<1>5. /\ m \in Statics /\ m.dns = n.dns /\ m.request = r /\ m.op = n.op
      /\ m.heap = n.heap /\ m.g_stack_ready = n.g_stack_ready
      /\ m.g_operation_busy = n.g_operation_busy
      /\ m.g_active_tcp_client = n.g_active_tcp_client
  BY <1>1, <1>4 DEF Statics
<1> HIDE DEF m, e
<1>6. ~n.request.dns_started /\ n.g_active_tcp_client = None
  BY <1>1, ActiveFacts DEF RequestOK, Shared, Connected
<1>7. Outcome(r) /\ Active(r) /\ "CONFIGURING" \notin Connected /\ "CONFIGURING" # "WAITING"
  BY <1>4, ActiveFacts DEF Outcome, Active, Ended, Connected
<1>8. RequestOK(r)
  BY <1>1, <1>4, <1>6, <1>7, ActiveFacts DEF RequestOK
<1>9. Steps(m, n)
  BY <1>4, <1>5, <1>6, <1>7, <1>8, ActiveFacts DEF Steps, None
<1>10. Asked(m)
  BY <1>4, <1>5 DEF Asked
<1>11. MayResolve(n)
  BY DEF MayResolve, Connected
<1>12. QED
  BY <1>2, <1>3, <1>9, <1>10, <1>11, StepKeeps, FailKeeps, ResolutionKeeps DEF Good

\* The answer is taken: address ip, when there is one.
LEMMA AnswerTaken ==
  ASSUME NEW n, NetOK(n), Active(n.request), n.request.state = "RESOLVING",
         NEW ip \in Urls \cup {None}
  PROVE  LET m == [n EXCEPT !.dns = net_dns_clear_result,
                            !.request = [@ EXCEPT !.dns_started = FALSE, !.remote_ip = ip]]
         IN  Begun(m, n, ip)
<1> DEFINE r == [n.request EXCEPT !.dns_started = FALSE, !.remote_ip = ip]
           d == net_dns_clear_result
           m == [n EXCEPT !.dns = d, !.request = r]
<1>1. /\ n \in Statics /\ Shared(n) /\ RequestOK(n.request) /\ n.request \in Request
      /\ n.request.allocated = TRUE
  BY ActiveFacts DEF NetOK
<1>2. d \in Dns /\ d.state # "PENDING"
  BY DEF net_dns_clear_result, Dns
<1>3. /\ r \in Request /\ r.allocated = TRUE /\ r.dns_started = FALSE
      /\ r.state = "RESOLVING" /\ r.visited = n.request.visited /\ r.remote_ip = ip
      /\ r.result = n.request.result
      /\ r.handle = n.request.handle /\ r.response_bytes = n.request.response_bytes
  BY <1>1 DEF Request
<1>4. m = [n EXCEPT !.dns = net_dns_clear_result,
                    !.request = [@ EXCEPT !.dns_started = FALSE, !.remote_ip = ip]]
  BY <1>1 DEF Statics
<1> HIDE DEF r, d
<1>5. /\ m \in Statics /\ m.dns = d /\ m.request = r /\ m.op = n.op
      /\ m.heap = n.heap /\ m.g_stack_ready = n.g_stack_ready
      /\ m.g_operation_busy = n.g_operation_busy
      /\ m.g_active_tcp_client = n.g_active_tcp_client
  BY <1>1, <1>2, <1>3 DEF Statics
<1> HIDE DEF m
<1>6. n.g_active_tcp_client = None
  BY <1>1, ActiveFacts DEF Shared, Connected
<1>7. Outcome(r) /\ Active(r) /\ "RESOLVING" \notin Connected /\ "RESOLVING" # "WAITING"
  BY <1>3, ActiveFacts DEF Outcome, Active, Ended, Connected
<1>8. RequestOK(r)
  BY <1>1, <1>3, <1>7, ActiveFacts DEF RequestOK
<1>9. Steps(m, n)
  BY <1>2, <1>3, <1>5, <1>6, <1>7, <1>8, ActiveFacts DEF Steps, None
<1>10. Begun(m, n, ip)
  BY <1>3, <1>5, <1>7, <1>9, StepKeeps DEF Begun
<1>11. QED
  BY <1>4, <1>10

LEMMA DriveResolvingKeeps ==
  ASSUME NEW n, NetOK(n), Asked(n), Active(n.request), n.request.state = "RESOLVING",
         NEW u \in DriveResolving(n)
  PROVE  Good(u, n)
<1> DEFINE m == [n EXCEPT !.dns = net_dns_clear_result, !.request.dns_started = FALSE]
           old == n.request.remote_ip
           name == n.dns.name
           a == [n EXCEPT !.dns = net_dns_clear_result,
                          !.request = [@ EXCEPT !.dns_started = FALSE, !.remote_ip = old]]
           b == [n EXCEPT !.dns = net_dns_clear_result,
                          !.request = [@ EXCEPT !.dns_started = FALSE, !.remote_ip = name]]
           e == "DNS_FAILED"
           t == "TIMEOUT"
<1>1. /\ n \in Statics /\ Shared(n) /\ RequestOK(n.request) /\ n.request \in Request
      /\ n.request.allocated = TRUE /\ n.dns \in Dns
  BY ActiveFacts DEF NetOK
<1>2. old \in Urls \cup {None} /\ name \in Urls \cup {None}
  BY <1>1 DEF Request, Dns
<1>3. name = Url(n.request)
  BY <1>1 DEF Shared, Asked
<1>4. m = a /\ [m EXCEPT !.request.remote_ip = name] = b
  BY <1>1 DEF Statics, Request
<1>5. u \in network_http_begin_connect(b) \/ u = Fail(a, e) \/ u = Fail(a, t) \/ u = n
  BY <1>4 DEF DriveResolving
<1> HIDE DEF m, old, name
<1>6. Begun(a, n, old) /\ Begun(b, n, name)
  BY <1>2, AnswerTaken
<1>7. e \in Failures /\ t \in Failures
  BY DEF Failures
<1> HIDE DEF a, b, e, t
<1>8. Driven(a, n) /\ NetOK(a) /\ Active(a.request) /\ Driven(b, n)
  BY <1>6 DEF Begun, Driven
<1>9. MayConnect(b)
  BY <1>3, <1>6 DEF Begun, Driven, MayConnect, Url
<1>10. Good(n, n)
  BY DEF Good, Driven
<1>11. CASE u \in network_http_begin_connect(b)
  BY <1>8, <1>9, <1>11, ConnectKeeps, GoodIsTransitive
<1>12. CASE u = Fail(a, e) \/ u = Fail(a, t)
  <2>1. Good(u, a)
    BY <1>7, <1>8, <1>12, FailKeeps
  <2>2. QED
    BY <1>8, <2>1, GoodIsTransitive
<1>13. QED
  BY <1>5, <1>10, <1>11, <1>12

\* A request on its connection: it sends, receives and parses.
OnConnection(n) == NetOK(n) /\ Active(n.request) /\ n.request.state \in Connected

SameConnection(r, q) ==
  /\ r \in Request /\ r.state \in Connected
  /\ r.allocated = q.allocated /\ r.dns_started = q.dns_started /\ r.visited = q.visited
  /\ r.remote_ip = q.remote_ip /\ r.result = q.result /\ r.handle = q.handle
  /\ r.response_bytes = q.response_bytes /\ r.received \in {None, q.remote_ip}

LEMMA ConnectionFacts ==
  ASSUME NEW n, OnConnection(n)
  PROVE  /\ n \in Statics /\ n.request \in Request
         /\ n.request.dns_started = FALSE /\ n.request.remote_ip = Url(n.request)
         /\ n.request.received \in {None, n.request.remote_ip}
         /\ SameConnection(n.request, n.request)
<1>1. /\ NetOK(n) /\ Active(n.request) /\ n.request.state \in Connected
      /\ RequestOK(n.request) /\ n.request \in Request /\ n.request.allocated = TRUE
  BY ActiveFacts DEF OnConnection, NetOK
<1>2. n.request.dns_started = FALSE
  BY <1>1 DEF RequestOK, Connected, Request
<1>3. n.request.remote_ip = Url(n.request) /\ n.request.received \in {None, n.request.remote_ip}
  BY <1>1 DEF RequestOK
<1>4. QED
  BY <1>1, <1>2, <1>3, ActiveFacts DEF SameConnection

LEMMA ConnectionKeeps ==
  ASSUME NEW n, OnConnection(n), NEW r, SameConnection(r, n.request)
  PROVE  LET m == [n EXCEPT !.request = r]
         IN  Good(m, n) /\ OnConnection(m)
<1> DEFINE m == [n EXCEPT !.request = r]
<1>1. /\ n \in Statics /\ Shared(n) /\ RequestOK(n.request) /\ n.request \in Request
      /\ n.request.allocated = TRUE /\ r \in Request /\ NetOK(n) /\ Active(n.request)
  BY ActiveFacts DEF NetOK, SameConnection, OnConnection
<1>2. /\ m \in Statics /\ m.dns = n.dns /\ m.request = r /\ m.op = n.op
      /\ m.heap = n.heap /\ m.g_stack_ready = n.g_stack_ready
      /\ m.g_operation_busy = n.g_operation_busy
      /\ m.g_active_tcp_client = n.g_active_tcp_client
  BY <1>1 DEF Statics
<1> HIDE DEF m
<1>3. Outcome(r) /\ Active(r) /\ r.state \notin {"WAITING", "RESOLVING"}
  BY <1>1, ActiveFacts DEF Outcome, Active, Ended, Connected, SameConnection
<1>4. Url(r) = Url(n.request) /\ r.allocated = TRUE /\ r.dns_started = FALSE
  BY <1>1, ConnectionFacts DEF SameConnection, Url
<1>5. RequestOK(r)
  BY <1>1, <1>3, <1>4, ActiveFacts, ConnectionFacts DEF RequestOK, SameConnection
<1>6. n.dns.state # "PENDING" /\ n.g_active_tcp_client # "get"
  BY <1>1, ActiveFacts, ConnectionFacts DEF None
<1>7. Steps(m, n)
  BY <1>1, <1>2, <1>3, <1>4, <1>5, <1>6, ActiveFacts DEF Steps, SameConnection
<1>8. Asked(m)
  BY <1>2, <1>3 DEF Asked
<1>9. Driven(m, n)
  BY <1>1, <1>7, StepKeeps
<1>10. QED
  BY <1>2, <1>3, <1>8, <1>9 DEF Good, OnConnection, Driven, SameConnection, m

LEMMA SendKeeps ==
  ASSUME NEW n, OnConnection(n), NEW u \in network_http_begin_send(n)
  PROVE  Good(u, n)
<1> DEFINE q == n.request
           r1 == [q EXCEPT !.state = "RECEIVING", !.receive_phase = "WAITING_FOR_PEER"]
           r2 == [q EXCEPT !.state = "SENDING"]
           m1 == [n EXCEPT !.request = r1]
           m2 == [n EXCEPT !.request = r2]
<1>1. NetOK(n) /\ Active(n.request) /\ n \in Statics /\ q \in Request /\ SameConnection(q, q)
  BY ConnectionFacts DEF OnConnection
<1>2. SameConnection(r1, q) /\ SameConnection(r2, q)
  BY <1>1, ZenonT(60) DEF SameConnection, Request, States, Connected
<1>3. /\ m1 = [n EXCEPT !.request = [@ EXCEPT !.state = "RECEIVING",
                                              !.receive_phase = "WAITING_FOR_PEER"]]
      /\ m2 = [n EXCEPT !.request.state = "SENDING"]
  BY <1>1 DEF Statics
<1>4. u \in {m1, m2} \/ u \in TcpFails(m1) \/ u \in TcpFails(m2) \/ u \in HttpFails(n, BuildResults)
  BY <1>3 DEF network_http_begin_send
<1> HIDE DEF r1, r2
<1>5. Good(m1, n) /\ OnConnection(m1) /\ Good(m2, n) /\ OnConnection(m2)
  BY <1>2, ConnectionKeeps
<1> HIDE DEF m1, m2
<1>6. CASE u \in HttpFails(n, BuildResults)
  BY <1>1, <1>6, HttpFailsKeep, ErrorsAreFailures
<1>7. CASE u \in TcpFails(m1)
  BY <1>5, <1>7, TcpFailsKeep, GoodIsTransitive DEF OnConnection, Good
<1>8. CASE u \in TcpFails(m2)
  BY <1>5, <1>8, TcpFailsKeep, GoodIsTransitive DEF OnConnection, Good
<1>9. QED
  BY <1>4, <1>5, <1>6, <1>7, <1>8

LEMMA RedirectKeeps ==
  ASSUME NEW n, OnConnection(n), NEW l \in Urls \cup {"UNSUPPORTED", "PROTOCOL_ERROR"}
  PROVE  Good(Redirect(n, l), n)
<1> DEFINE q == n.request
           r == [q EXCEPT !.visited = Append(q.visited, l), !.state = "REDIRECTING",
                          !.result = "OK", !.dns_started = FALSE, !.tcp_initialized = FALSE]
           m == [n EXCEPT !.request = r, !.g_active_tcp_client = None]
           e == "PROTOCOL_ERROR"
           u == Redirect(n, l)
<1>1. /\ n \in Statics /\ RequestOK(q) /\ q \in Request /\ Shared(n)
      /\ q.allocated = TRUE /\ NetOK(n) /\ Active(n.request)
  BY ActiveFacts DEF NetOK, OnConnection
<1>2. e \in Failures
  BY DEF Failures
<1>3. m = [n EXCEPT !.request = [@ EXCEPT !.visited = Append(n.request.visited, l),
                                          !.state = "REDIRECTING", !.result = "OK",
                                          !.dns_started = FALSE, !.tcp_initialized = FALSE],
                    !.g_active_tcp_client = None]
  OBVIOUS
<1>4. \/ u = Fail(n, e)
      \/ u = Fail(n, l) /\ l \notin Urls
      \/ u = m /\ l \in Urls /\ ~(Len(q.visited) > NETWORK_HTTP_REDIRECT_LIMIT)
  BY <1>3 DEF Redirect
<1> HIDE DEF u, e
<1>5. CASE u = Fail(n, e)
  BY <1>1, <1>2, <1>5, FailKeeps DEF u
<1>6. CASE u = Fail(n, l) /\ l \notin Urls
  <2>1. l \in Failures
    BY <1>6 DEF Failures
  <2>2. QED
    BY <1>1, <1>6, <2>1, FailKeeps DEF u
<1>7. CASE u = m /\ l \in Urls /\ ~(Len(q.visited) > NETWORK_HTTP_REDIRECT_LIMIT)
  <2>1. /\ q.visited \in Seq(Urls) /\ Append(q.visited, l) \in Seq(Urls)
        /\ Len(Append(q.visited, l)) = Len(q.visited) + 1 /\ Len(q.visited) \in Nat
    BY <1>1, <1>7 DEF Request
  <2>2. Len(Append(q.visited, l)) \in 1 .. NETWORK_HTTP_REDIRECT_LIMIT + 1
    BY <1>7, <2>1, NetworkAssumption
  <2>3. /\ r \in Request /\ r.allocated = TRUE /\ r.dns_started = FALSE
        /\ r.state = "REDIRECTING" /\ r.visited = Append(q.visited, l) /\ r.result = "OK"
        /\ r.handle = q.handle /\ r.response_bytes = q.response_bytes
    BY <1>1, <2>1, ZenonT(60) DEF Request, States
  <2> HIDE DEF r
  <2>4. /\ m \in Statics /\ m.dns = n.dns /\ m.request = r /\ m.op = n.op
        /\ m.heap = n.heap /\ m.g_stack_ready = n.g_stack_ready
        /\ m.g_operation_busy = n.g_operation_busy /\ m.g_active_tcp_client = None
    BY <1>1, <2>3 DEF Statics
  <2> HIDE DEF m
  <2>5. Outcome(r) /\ Active(r) /\ "REDIRECTING" \notin Connected
        /\ "REDIRECTING" \notin {"WAITING", "RESOLVING"}
    BY <2>3 DEF Outcome, Active, Ended, Connected
  <2>6. RequestOK(r)
    BY <1>1, <2>2, <2>3, <2>5, ActiveFacts DEF RequestOK
  <2>7. n.dns.state # "PENDING"
    BY <1>1, ActiveFacts, ConnectionFacts
  <2>8. Steps(m, n)
    BY <1>1, <2>3, <2>4, <2>5, <2>6, <2>7, ActiveFacts DEF Steps, None
  <2>9. Asked(m)
    BY <2>3, <2>4, <2>5 DEF Asked
  <2>10. QED
    BY <1>1, <1>7, <2>8, <2>9, StepKeeps DEF Good, u
<1>8. QED
  BY <1>4, <1>5, <1>6, <1>7 DEF u

LEMMA ParseKeeps ==
  ASSUME NEW n, OnConnection(n), NEW u \in network_http_parse_completed_response(n)
  PROVE  Good(u, n)
<1> DEFINE q == n.request
           r == [q EXCEPT !.body = q.received]
           m == [n EXCEPT !.request = r]
           e == "RESPONSE_TOO_LARGE"
           done == "COMPLETE"
           ok == "OK"
<1>1. NetOK(n) /\ Active(n.request) /\ n \in Statics /\ q \in Request /\ SameConnection(q, q)
  BY ConnectionFacts DEF OnConnection
<1>2. m = [n EXCEPT !.request.body = n.request.received]
  BY <1>1 DEF Statics
<1>3. \/ u \in HttpFails(n, ParseResults) \/ u = Fail(n, e)
      \/ q.received # None /\ u = network_http_request_finish(m, done, ok)
      \/ u \in HttpFails(n, LocationResults)
      \/ \E l \in Urls \cup {"UNSUPPORTED", "PROTOCOL_ERROR"} : u = Redirect(n, l)
  BY <1>2 DEF network_http_parse_completed_response
<1>4. e \in Failures
  BY DEF Failures
<1>5. SameConnection(r, q) /\ r.body = q.received
  BY <1>1 DEF SameConnection, Request
<1> HIDE DEF r
<1>6. Good(m, n) /\ OnConnection(m)
  BY <1>5, ConnectionKeeps
<1>7. m.request = r
  BY <1>1 DEF Statics
<1> HIDE DEF m, e
<1>8. CASE q.received # None /\ u = network_http_request_finish(m, done, ok)
  <2>1. Url(r) = Url(q) /\ q.received = Url(q) /\ r.remote_ip = Url(q)
    BY <1>5, <1>8, ConnectionFacts DEF SameConnection, Url
  <2>2. MayEnd(m.request, done, ok)
    BY <1>5, <1>6, <1>7, <2>1 DEF MayEnd, Ended, OnConnection
  <2> HIDE DEF done, ok
  <2>3. Good(u, m)
    BY <1>6, <1>8, <2>2, FinishKeeps DEF OnConnection
  <2>4. QED
    BY <1>6, <2>3, GoodIsTransitive DEF Good
<1>9. CASE u \in HttpFails(n, ParseResults) \/ u \in HttpFails(n, LocationResults)
  BY <1>1, <1>9, HttpFailsKeep, ErrorsAreFailures
<1>10. CASE u = Fail(n, e)
  BY <1>1, <1>4, <1>10, FailKeeps
<1>11. QED
  BY <1>3, <1>8, <1>9, <1>10, RedirectKeeps

LEMMA ReflexiveGood ==
  ASSUME NEW n, NetOK(n), Asked(n)
  PROVE  Good(n, n)
  BY DEF Good, Driven

LEMMA ConnectedKeeps ==
  ASSUME NEW n, OnConnection(n), NEW u,
         \/ u \in DriveConnecting(n) \/ u \in DriveSending(n)
         \/ u \in network_http_drive_receiving(n)
  PROVE  Good(u, n)
<1> DEFINE q == n.request
           r1 == [q EXCEPT !.request_sent = q.request_sent + 1]
           r2 == [q EXCEPT !.receive_phase = "CLOSING_CONNECTION"]
           m1 == [n EXCEPT !.request = r1]
           m2 == [n EXCEPT !.request = r2]
<1>1. NetOK(n) /\ Active(n.request) /\ n \in Statics /\ q \in Request /\ SameConnection(q, q)
  BY ConnectionFacts DEF OnConnection
<1>2. SameConnection(r1, q) /\ SameConnection(r2, q)
  BY <1>1, SMTT(30) DEF SameConnection, Request
<1>3. /\ m1 = [n EXCEPT !.request.request_sent = @ + 1]
      /\ m2 = [n EXCEPT !.request.receive_phase = "CLOSING_CONNECTION"]
  BY <1>1 DEF Statics
<1>4. \/ u = n \/ u \in TcpFails(n) \/ u \in network_http_begin_send(n)
      \/ u \in network_http_begin_send(m1) \/ u = m2
      \/ u \in network_http_parse_completed_response(n)
  BY <1>3 DEF DriveConnecting, DriveSending, network_http_drive_receiving
<1> HIDE DEF r1, r2
<1>5. Good(m1, n) /\ OnConnection(m1) /\ Good(m2, n)
  BY <1>2, ConnectionKeeps
<1> HIDE DEF m1, m2
<1>6. Asked(n)
  BY DEF Asked, OnConnection, Connected
<1>7. CASE u \in network_http_begin_send(m1)
  BY <1>5, <1>7, SendKeeps, GoodIsTransitive DEF Good
<1>8. QED
  BY <1>1, <1>4, <1>5, <1>6, <1>7, ReflexiveGood, TcpFailsKeep, SendKeeps, ParseKeeps

LEMMA PhaseKeeps ==
  ASSUME NEW n, NetOK(n), Asked(n), Active(n.request), NEW u \in DrivePhase(n)
  PROVE  Good(u, n)
<1>1. n.request.state \in States \ Ended
  BY ActiveFacts DEF Active, Request
<1>2. CASE n.request.state \in {"WAITING", "CONFIGURING"}
  BY <1>2, ConfiguringKeeps DEF DrivePhase
<1>3. CASE n.request.state = "RESOLVING"
  BY <1>3, DriveResolvingKeeps DEF DrivePhase
<1>4. CASE n.request.state = "REDIRECTING"
  <2>1. u \in network_http_begin_resolution(n) /\ MayResolve(n)
    BY <1>4 DEF DrivePhase, MayResolve, Connected
  <2>2. QED
    BY <2>1, ResolutionKeeps
<1>5. CASE n.request.state \in Connected
  <2>1. OnConnection(n)
    BY <1>5 DEF OnConnection
  <2>2. \/ u \in DriveConnecting(n) \/ u \in DriveSending(n)
        \/ u \in network_http_drive_receiving(n)
    BY <1>5 DEF DrivePhase, Connected
  <2>3. QED
    BY <2>1, <2>2, ConnectedKeeps
<1>6. QED
  BY <1>1, <1>2, <1>3, <1>4, <1>5 DEF States, Connected

LEMMA DriveKeeps ==
  ASSUME NEW n, NetOK(n), Asked(n), NEW u \in network_http_request_drive(n)
  PROVE  Good(u, n)
<1> DEFINE e1 == "TIMEOUT"
           e2 == "NOT_READY"
           e3 == "LINK_DOWN"
<1>1. \/ u = n
      \/ Active(n.request) /\ u \in {Fail(n, e1), Fail(n, e2), Fail(n, e3)}
      \/ Active(n.request) /\ u \in DrivePhase(n)
  BY DEF network_http_request_drive
<1>2. e1 \in Failures /\ e2 \in Failures /\ e3 \in Failures
  BY DEF Failures
<1> HIDE DEF e1, e2, e3
<1>3. QED
  BY <1>1, <1>2, ReflexiveGood, FailKeeps, PhaseKeeps

----------------------------------------------------------------------------
(* Input from the stack *)

LEMMA LeaseKeeps ==
  ASSUME NEW n, NetOK(n), Asked(n),
         NEW u \in {n, [n EXCEPT !.configured = TRUE], net_clear_ipv4(n)}
  PROVE  Good(u, n)
<1> DEFINE d == [n.dns EXCEPT !.state = IF n.dns.state = "PENDING" THEN "TIMED_OUT"
                                        ELSE n.dns.state]
<1>1. n \in Statics /\ n.dns \in Dns
  BY NetFields DEF NetOK
<1>2. d \in Dns /\ d.name = n.dns.name /\ d.state # "PENDING"
  BY <1>1 DEF Dns
<1>3. net_clear_ipv4(n) = [n EXCEPT !.configured = FALSE, !.dns = d]
  BY <1>1 DEF net_clear_ipv4, Statics, Dns
<1> HIDE DEF d
<1>4. PICK cf \in BOOLEAN, x \in {n.dns, d} : u = StackWritten(n, cf, n.dhcp, n.link, x)
  <2>1. n = StackWritten(n, n.configured, n.dhcp, n.link, n.dns) /\ n.configured \in BOOLEAN
    BY <1>1 DEF StackWritten, Statics
  <2>2. [n EXCEPT !.configured = TRUE] = StackWritten(n, TRUE, n.dhcp, n.link, n.dns)
    BY <1>1 DEF StackWritten, Statics
  <2>3. net_clear_ipv4(n) = StackWritten(n, FALSE, n.dhcp, n.link, d)
    BY <1>1, <1>2, <1>3 DEF StackWritten, Statics
  <2>4. QED
    BY <2>1, <2>2, <2>3
<1>5. MayWriteStack(n, cf, n.dhcp, n.link, x)
  BY <1>1, <1>2, NetFields DEF MayWriteStack
<1>6. Driven(u, n) /\ Aside(u, n)
  BY <1>4, <1>5, StackWriteKeeps
<1>7. QED
  BY <1>6 DEF Good, Asked, Aside

LEMMA AnswerKeeps ==
  ASSUME NEW n, NetOK(n), Asked(n), NEW s \in DnsFailures \cup {"RESOLVED", "TIMED_OUT"}
  PROVE  Good([n EXCEPT !.dns.state = s], n)
<1> DEFINE d == [n.dns EXCEPT !.state = s]
           u == [n EXCEPT !.dns.state = s]
<1>1. n \in Statics /\ n.dns \in Dns
  BY NetFields DEF NetOK
<1>2. d \in Dns /\ d.name = n.dns.name /\ d.state # "PENDING"
  BY <1>1 DEF Dns, DnsFailures
<1>3. u = [n EXCEPT !.dns = d]
  BY <1>1 DEF Statics
<1> HIDE DEF d
<1>4. u = StackWritten(n, n.configured, n.dhcp, n.link, d)
  BY <1>1, <1>2, <1>3 DEF StackWritten, Statics
<1>5. MayWriteStack(n, n.configured, n.dhcp, n.link, d)
  BY <1>1, <1>2, NetFields DEF MayWriteStack
<1> HIDE DEF u
<1>6. Driven(u, n) /\ Aside(u, n)
  BY <1>4, <1>5, StackWriteKeeps
<1>7. QED
  BY <1>6 DEF Good, Asked, Aside, u

LEMMA DeliveryKeeps ==
  ASSUME NEW n, NetOK(n), n.g_active_tcp_client = "request"
  PROVE  Good([n EXCEPT !.request.received = n.request.remote_ip], n)
<1> DEFINE q == n.request
           r == [q EXCEPT !.received = q.remote_ip]
           u == [n EXCEPT !.request.received = n.request.remote_ip]
<1>1. n \in Statics /\ q \in Request
  BY NetFields DEF NetOK
<1>2. OnConnection(n)
  BY DEF OnConnection, NetOK, Shared, Active, Connected, Ended
<1>3. SameConnection(r, q)
  BY <1>1, <1>2, ConnectionFacts DEF SameConnection, Request
<1>4. u = [n EXCEPT !.request = r]
  BY <1>1 DEF Statics
<1> HIDE DEF r
<1>5. QED
  BY <1>2, <1>3, <1>4, ConnectionKeeps

LEMMA InputKeeps ==
  ASSUME NEW n, NetOK(n), Asked(n), NEW u \in StackAfterInput(n)
  PROVE  Good(u, n)
<1> DEFINE leases == {n} \cup (IF n.dhcp = "ACTIVE" THEN {[n EXCEPT !.configured = TRUE],
                                                        net_clear_ipv4(n)} ELSE {})
           Answered(m) == {m} \cup
             (IF m.dns.state # "PENDING" THEN {}
              ELSE {[m EXCEPT !.dns.state = s] : s \in DnsFailures \cup {"RESOLVED", "TIMED_OUT"}})
           Delivered(m) == {m} \cup
             (IF m.g_active_tcp_client # "request" THEN {}
              ELSE {[m EXCEPT !.request.received = m.request.remote_ip]})
<1>1. u \in UNION {UNION {Delivered(m2) : m2 \in Answered(m1)} : m1 \in leases}
  BY Zenon DEF StackAfterInput
<1> HIDE DEF leases, Answered, Delivered
<1>2. PICK m1 \in leases : u \in UNION {Delivered(m2) : m2 \in Answered(m1)}
  BY <1>1, Zenon
<1>3. PICK m2 \in Answered(m1) : u \in Delivered(m2)
  BY <1>2, Zenon
<1>4. Good(m1, n)
  BY LeaseKeeps DEF leases
<1>5. NetOK(m1) /\ Asked(m1)
  BY <1>4 DEF Good, Driven
<1>6. Good(m2, m1)
  BY <1>5, ReflexiveGood, AnswerKeeps DEF Answered
<1>7. NetOK(m2) /\ Asked(m2)
  BY <1>6 DEF Good, Driven
<1>8. Good(u, m2)
  BY <1>7, <1>3, ReflexiveGood, DeliveryKeeps DEF Delivered
<1>9. Good(u, m1)
  BY <1>6, <1>8, GoodIsTransitive DEF Good
<1>10. QED
  BY <1>4, <1>9, GoodIsTransitive DEF Good

LEMMA PollKeeps ==
  ASSUME NEW n, NetOK(n), Asked(n), NEW u \in network_poll(n)
  PROVE  Good(u, n)
<1>1. CASE u = n
  BY <1>1, ReflexiveGood
<1>2. ASSUME NEW m \in StackAfterInput(n), u \in network_http_request_drive(m)
      PROVE  Good(u, n)
  <2>1. Good(m, n)
    BY InputKeeps
  <2>2. Good(u, m)
    BY <1>2, <2>1, DriveKeeps DEF Good, Driven
  <2>3. QED
    BY <2>1, <2>2, GoodIsTransitive DEF Good
<1>3. QED
  BY <1>1, <1>2 DEF network_poll

LEMMA LinkKeeps ==
  ASSUME NEW n, NetOK(n), Asked(n), NEW l \in {"up", "down", "gone"}
  PROVE  Good([n EXCEPT !.link = l], n)
<1> DEFINE u == [n EXCEPT !.link = l]
<1>1. n \in Statics /\ n.dns \in Dns
  BY NetFields DEF NetOK
<1>2. u = StackWritten(n, n.configured, n.dhcp, l, n.dns)
  BY <1>1 DEF StackWritten, Statics
<1>3. MayWriteStack(n, n.configured, n.dhcp, l, n.dns)
  BY <1>1, NetFields DEF MayWriteStack
<1> HIDE DEF u
<1>4. Driven(u, n) /\ Aside(u, n)
  BY <1>2, <1>3, StackWriteKeeps
<1>5. QED
  BY <1>4 DEF Good, Asked, Aside, u

LEMMA ClockKeeps ==
  ASSUME NEW n, NetOK(n), Asked(n), Active(n.request)
  PROVE  Good([n EXCEPT !.request.age = @ + 1], n)
<1> DEFINE q == n.request
           r == [q EXCEPT !.age = q.age + 1]
           u == [n EXCEPT !.request.age = @ + 1]
<1>1. n \in Statics /\ q \in Request /\ RequestOK(q) /\ Shared(n)
  BY NetFields DEF NetOK
<1>2. /\ r \in Request /\ r.allocated = q.allocated /\ r.dns_started = q.dns_started
      /\ r.state = q.state /\ r.visited = q.visited /\ r.remote_ip = q.remote_ip
      /\ r.result = q.result /\ r.handle = q.handle /\ r.received = q.received
      /\ r.response_bytes = q.response_bytes /\ r.body = q.body
  BY <1>1 DEF Request
<1>3. u = [n EXCEPT !.request = r]
  BY <1>1 DEF Statics
<1> HIDE DEF r, u
<1>4. /\ u \in Statics /\ u.dns = n.dns /\ u.request = r /\ u.op = n.op
      /\ u.heap = n.heap /\ u.g_stack_ready = n.g_stack_ready
      /\ u.g_operation_busy = n.g_operation_busy
      /\ u.g_active_tcp_client = n.g_active_tcp_client
  BY <1>1, <1>2, <1>3 DEF Statics
<1>5. Url(r) = Url(q) /\ Active(r)
  BY <1>2 DEF Url, Active
<1>6. RequestOK(r)
  BY <1>1, <1>2, <1>5 DEF RequestOK, Outcome
<1>7. Steps(u, n)
  <2>1. n.g_active_tcp_client = "request" => q.state \in Connected
    BY <1>1 DEF Shared
  <2>2. q.dns_started => n.dns.name = Url(q)
    BY <1>1 DEF Shared
  <2>3. QED
    BY <1>2, <1>4, <1>5, <1>6, <2>1, <2>2, ActiveFacts DEF Steps, None
<1>8. Asked(u)
  BY <1>2, <1>4 DEF Asked
<1>9. QED
  BY <1>7, <1>8, StepKeeps DEF Good, u

----------------------------------------------------------------------------
(* The calls of an owner *)

LEMMA CancelKeeps ==
  ASSUME NEW n, NetOK(n), Asked(n), NEW handle
  PROVE  LET u == network_http_request_cancel(n, handle)
         IN  Good(u, n) /\ (IsRequest(n, handle) => ~Active(u.request))
<1> DEFINE u == network_http_request_cancel(n, handle)
           s == "CANCELED"
<1>1. CASE IsRequest(n, handle) /\ Active(n.request)
  <2>1. u = network_http_request_finish(n, s, s) /\ MayEnd(n.request, s, s)
    BY <1>1 DEF network_http_request_cancel, MayEnd, Ended
  <2> HIDE DEF s
  <2>2. QED
    BY <2>1, FinishKeeps
<1>2. CASE ~(IsRequest(n, handle) /\ Active(n.request))
  BY <1>2, ReflexiveGood DEF network_http_request_cancel
<1>3. QED
  BY <1>1, <1>2

LEMMA NoRequestFacts ==
  /\ RequestOK(NoRequest) /\ NoRequest.allocated = FALSE /\ NoRequest.response_bytes = 0
  /\ NoRequest.dns_started = FALSE /\ ~Active(NoRequest)
<1>1. NoRequest \in Request
  BY NetworkAssumption DEF NoRequest, Request, States
<1>2. QED
  BY <1>1 DEF NoRequest, RequestOK, Active

\* The request is gone, and its buffer with it.
Gone(u, n) == NetOK(u) /\ Asked(u) /\ ~u.request.allocated /\ u.op = n.op

LEMMA CloseKeeps ==
  ASSUME NEW n, NetOK(n), Asked(n), NEW handle, IsRequest(n, handle)
  PROVE  Gone(Closed(n, handle), n)
<1> DEFINE c == network_http_request_cancel(n, handle)
           b == n.request.response_bytes
           u == Closed(n, handle)
<1>1. Good(c, n) /\ ~Active(c.request)
  BY CancelKeeps
<1>2. c.request.response_bytes = b
  <2>1. n \in Statics /\ n.request \in Request
    BY NetFields DEF NetOK
  <2>2. QED
    BY <2>1 DEF network_http_request_cancel, network_http_request_finish, Statics, Request
<1>3. u = [c EXCEPT !.request = NoRequest, !.heap = c.heap \ {b}]
  BY DEF Closed
<1> HIDE DEF c, b, u
<1>4. c \in Statics /\ Shared(c) /\ RequestOK(c.request) /\ c.op = n.op
  BY <1>1 DEF Good, Driven, NetOK
<1>5. /\ u \in Statics /\ u.dns = c.dns /\ u.request = NoRequest /\ u.op = c.op
      /\ u.heap = c.heap \ {b} /\ u.g_operation_busy = c.g_operation_busy
      /\ u.g_active_tcp_client = c.g_active_tcp_client
  BY <1>3, <1>4, NoRequestFacts DEF Statics, RequestOK
<1>6. ~c.request.dns_started /\ c.g_active_tcp_client # "request"
  BY <1>1, <1>4 DEF Shared, RequestOK, Active, Connected, Ended
<1>7. c.heap \ {b} = c.op.buffers /\ 0 \notin c.op.buffers
  BY <1>2, <1>4, NetFields DEF Shared, Blocks
<1>8. Shared(u)
  BY <1>1, <1>4, <1>5, <1>6, <1>7, NoRequestFacts DEF Shared
<1>9. QED
  BY <1>4, <1>5, <1>8, NoRequestFacts DEF Gone, NetOK, Asked, u

\* A start is refused and changes nothing, or there is a new request under its handle.
Started(b, n) ==
  /\ NetOK(b.net) /\ Asked(b.net) /\ b.net.op = n.op
  /\ \/ b.handle = 0 /\ b.net = n
     \/ /\ b.handle \in 1 .. HTTP_HANDLE_MAX /\ b.net.request.allocated
        /\ b.net.request.handle = b.handle

\* The request that is written into the free slot.
Fresh(n, url, follow, b) ==
  [NoRequest EXCEPT !.allocated = TRUE, !.follow_redirects = follow,
                    !.handle = n.g_next_http_handle, !.state = "CONFIGURING",
                    !.response_bytes = b, !.visited = <<url>>]

LEMMA FreshFacts ==
  ASSUME NEW n \in Statics, NEW url \in Urls, NEW follow \in BOOLEAN, NEW b \in Blocks
  PROVE  LET r == Fresh(n, url, follow, b)
         IN  /\ RequestOK(r) /\ Active(r) /\ r.response_bytes = b
             /\ r.handle = n.g_next_http_handle /\ r.state = "CONFIGURING"
             /\ r.dns_started = FALSE
<1> DEFINE r == Fresh(n, url, follow, b)
           v == <<url>>
           z == NoRequest
           h == n.g_next_http_handle
<1>1. h \in 0 .. HTTP_HANDLE_MAX /\ h # 0
  BY NetworkAssumption DEF Statics
<1>2. v \in Seq(Urls) /\ Len(v) = 1
  OBVIOUS
<1>3. z \in Request /\ z.result = "OK" /\ z.dns_started = FALSE
  BY NoRequestFacts DEF RequestOK, NoRequest
<1>4. r = [z EXCEPT !.allocated = TRUE, !.follow_redirects = follow,
                     !.handle = h, !.state = "CONFIGURING",
                     !.response_bytes = b, !.visited = v]
  BY DEF Fresh
<1> HIDE DEF r, v, z, h
<1>5. /\ r \in Request /\ r.allocated = TRUE /\ r.dns_started = FALSE
      /\ r.state = "CONFIGURING" /\ r.visited = v /\ r.result = "OK"
      /\ r.handle = h /\ r.response_bytes = b
  BY <1>1, <1>2, <1>3, <1>4, ZenonT(60) DEF Request, States
<1>6. Outcome(r) /\ Active(r) /\ "CONFIGURING" \notin Connected /\ "CONFIGURING" # "WAITING"
  BY <1>5 DEF Outcome, Active, Ended, Connected
<1>7. b # 0 /\ r.handle # 0
  BY <1>1, <1>5 DEF Blocks
<1>8. Len(r.visited) \in 1 .. NETWORK_HTTP_REDIRECT_LIMIT + 1
  <2>1. NETWORK_HTTP_REDIRECT_LIMIT \in Nat /\ Len(r.visited) = 1
    BY <1>2, <1>5, NetworkAssumption
  <2>2. QED
    BY <2>1
<1>9. RequestOK(r)
  BY <1>5, <1>6, <1>7, <1>8 DEF RequestOK
<1>10. QED
  BY <1>5, <1>6, <1>9 DEF r, h

LEMMA StartKeeps ==
  ASSUME NEW n, NetOK(n), Asked(n), NEW url \in Urls, NEW follow \in BOOLEAN,
         NEW s \in network_http_request_start(n, url, follow)
  PROVE  Started(s, n)
<1>1. n \in Statics /\ Shared(n) /\ RequestOK(n.request)
  BY DEF NetOK
<1>2. CASE s = [net |-> n, handle |-> 0]
  BY <1>2 DEF Started
<1>3. ASSUME ~n.g_operation_busy, ~n.request.allocated, NEW b \in kmalloc(n.heap), b # 0,
             s = [net |-> [n EXCEPT !.heap = @ \cup {b}, !.g_operation_busy = TRUE,
                             !.g_next_http_handle = HandleAfter(@),
                             !.request = Fresh(n, url, follow, b)],
                  handle |-> n.g_next_http_handle]
      PROVE  Started(s, n)
  <2> DEFINE r == Fresh(n, url, follow, b)
             h == HandleAfter(n.g_next_http_handle)
             u == [n EXCEPT !.heap = n.heap \cup {b}, !.g_operation_busy = TRUE,
                            !.g_next_http_handle = h, !.request = r]
  <2>1. b \in Blocks
    BY <1>3 DEF kmalloc
  <2>2. /\ RequestOK(r) /\ Active(r) /\ r.response_bytes = b
        /\ r.handle = n.g_next_http_handle /\ r.state = "CONFIGURING" /\ r.dns_started = FALSE
    BY <1>1, <2>1, FreshFacts
  <2>3. /\ n.g_next_http_handle \in 1 .. HTTP_HANDLE_MAX
        /\ h \in 1 .. HTTP_HANDLE_MAX
    BY <1>1, NetworkAssumption DEF HandleAfter, Statics
  <2>4. s.net = u /\ s.handle = n.g_next_http_handle
    BY <1>1, <1>3 DEF Statics
  <2> HIDE DEF r, h
  <2>5. /\ u \in Statics /\ u.dns = n.dns /\ u.request = r /\ u.op = n.op
        /\ u.heap = n.heap \cup {b} /\ u.g_operation_busy = TRUE
        /\ u.g_active_tcp_client = n.g_active_tcp_client
    BY <1>1, <2>1, <2>2, <2>3 DEF Statics, RequestOK
  <2> HIDE DEF u
  <2>6. n.op = NoOp /\ ~n.request.dns_started
    BY <1>1, <1>3 DEF Shared, RequestOK
  <2>7. n.op.step = None /\ n.op.buffers = {}
    BY <2>6 DEF NoOp
  <2>8. n.heap = {} /\ b # 0
    BY <1>1, <1>3, <2>7 DEF Shared, RequestOK
  <2>9. n.dns.state # "PENDING" /\ n.g_active_tcp_client = None
    BY <1>1, <1>3, <2>6, <2>7, NetFields DEF Shared, None
  <2>10. Shared(u)
    BY <1>1, <2>2, <2>5, <2>6, <2>7, <2>8, <2>9 DEF Shared, None
  <2>11. NetOK(u) /\ Asked(u)
    BY <2>2, <2>5, <2>10 DEF NetOK, Asked
  <2>12. u.request.allocated
    BY <2>2, <2>5 DEF Active
  <2>13. QED
    BY <2>2, <2>3, <2>4, <2>5, <2>11, <2>12 DEF Started
<1>4. QED
  BY <1>2, <1>3 DEF network_http_request_start, Fresh

----------------------------------------------------------------------------
(* Blocking operations *)

\* Nothing is left to undo; and a call that goes on from there.
Tidy(n) ==
  /\ n \in Statics /\ RequestOK(n.request) /\ ~Active(n.request)
  /\ n.g_active_tcp_client = None /\ n.dns.state # "PENDING"
  /\ n.heap = {n.request.response_bytes} \ {0}

Ready(n) == Tidy(n) /\ n.g_operation_busy = TRUE /\ n.op.buffers = {}

LEMMA NoOpFacts ==
  NoOp \in Operation /\ OpOK(NoOp) /\ NoOp.step = None /\ NoOp.buffers = {}
  BY DEF NoOp, Operation, OpOK, None

LEMMA ReturnKeeps ==
  ASSUME NEW n, Tidy(n)
  PROVE  Aside(Return(n), n)
<1> DEFINE u == Return(n)
<1>1. n \in Statics /\ RequestOK(n.request)
  BY DEF Tidy
<1>2. /\ u \in Statics /\ u.dns = n.dns /\ u.request = n.request /\ u.op = NoOp
      /\ u.heap = n.heap /\ u.g_operation_busy = FALSE
      /\ u.g_active_tcp_client = n.g_active_tcp_client
  BY <1>1, NoOpFacts DEF Return, Statics
<1> HIDE DEF u
<1>3. Blocked(u)
  BY <1>1, <1>2, NoOpFacts DEF Blocked, Tidy, None
<1>4. QED
  BY <1>2, <1>3, BlockedIsOK DEF Aside, u

\* The operation goes on with o, asking d; it holds no buffers.
LEMMA OperationKeeps ==
  ASSUME NEW n, Ready(n), NEW o \in Operation, OpOK(o), o # NoOp, o.buffers = {},
         NEW d \in Dns, d.state = "PENDING" => o.step = "resolve",
         o.step = "resolve" => d.name = o.url, NEW dh \in {"OFF", "ACTIVE"}
  PROVE  Aside([n EXCEPT !.op = o, !.dns = d, !.dhcp = dh], n)
<1> DEFINE u == [n EXCEPT !.op = o, !.dns = d, !.dhcp = dh]
<1>1. n \in Statics /\ RequestOK(n.request)
  BY DEF Ready, Tidy
<1>2. /\ u \in Statics /\ u.dns = d /\ u.request = n.request /\ u.op = o
      /\ u.heap = n.heap /\ u.g_operation_busy = TRUE
      /\ u.g_active_tcp_client = n.g_active_tcp_client
  BY <1>1 DEF Statics, Ready
<1> HIDE DEF u
<1>3. Blocked(u)
  BY <1>1, <1>2 DEF Blocked, Tidy, Ready, None
<1>4. QED
  BY <1>2, <1>3, BlockedIsOK DEF Aside, u

LEMMA TwoBlocksAreFree ==
  ASSUME NEW heap, NEW B \in TwoBlocks(heap)
  PROVE  B \in SUBSET Blocks /\ B # {} /\ B \cap heap = {}
  BY DEF TwoBlocks, kmalloc

LEMMA AfterResolvedKeeps ==
  ASSUME NEW n, Ready(n), n.op.kind \in {"ping", "get", "resolve"}, NEW u \in AfterResolved(n)
  PROVE  Aside(u, n)
<1>1. /\ n \in Statics /\ RequestOK(n.request) /\ n.op \in Operation /\ n.dns \in Dns
      /\ Tidy(n) /\ n.dhcp \in {"OFF", "ACTIVE"}
  BY NetFields DEF Ready, Tidy
<1>2. CASE u = Return(n)
  BY <1>1, <1>2, ReturnKeeps
<1>3. CASE n.op.kind = "ping" /\ u = [n EXCEPT !.op.step = "echo"]
  <2> DEFINE o == [n.op EXCEPT !.step = "echo"]
  <2>1. o \in Operation /\ o.step = "echo" /\ o.buffers = {}
    BY <1>1 DEF Operation, Ready
  <2>2. u = [n EXCEPT !.op = o, !.dns = n.dns, !.dhcp = n.dhcp]
    BY <1>1, <1>3 DEF Statics
  <2> HIDE DEF o
  <2>3. OpOK(o) /\ o # NoOp
    BY <2>1 DEF OpOK, NoOp, None
  <2>4. QED
    BY <1>1, <2>1, <2>2, <2>3, OperationKeeps DEF Tidy
<1>4. ASSUME NEW B \in TwoBlocks(n.heap), n.op.kind = "get",
             u = [n EXCEPT !.op = [@ EXCEPT !.step = "tcp", !.buffers = B],
                           !.g_active_tcp_client = "get", !.heap = @ \cup B]
      PROVE  Aside(u, n)
  <2> DEFINE o == [n.op EXCEPT !.step = "tcp", !.buffers = B]
             H == n.heap \cup B
  <2>1. B \in SUBSET Blocks /\ B # {} /\ B \cap n.heap = {}
    BY TwoBlocksAreFree
  <2>2. o \in Operation /\ o.step = "tcp" /\ o.buffers = B
    BY <1>1, <2>1 DEF Operation
  <2>3. u = [n EXCEPT !.op = o, !.g_active_tcp_client = "get", !.heap = H]
    BY <1>1, <1>4 DEF Statics
  <2>4. H \in SUBSET Blocks
    BY <1>1, <2>1, NetFields
  <2> HIDE DEF o, H
  <2>5. /\ u \in Statics /\ u.dns = n.dns /\ u.request = n.request /\ u.op = o
        /\ u.heap = H /\ u.g_operation_busy = TRUE /\ u.g_active_tcp_client = "get"
    BY <1>1, <2>2, <2>3, <2>4 DEF Statics, Ready
  <2>6. OpOK(o) /\ o # NoOp
    BY <2>1, <2>2 DEF OpOK, NoOp, None
  <2>7. n.request.response_bytes \notin B
    BY <1>1, <2>1 DEF Tidy, Blocks
  <2>8. Blocked(u)
    BY <1>1, <2>2, <2>5, <2>6, <2>7 DEF Blocked, Tidy, H
  <2>9. QED
    BY <2>5, <2>8, BlockedIsOK DEF Aside
<1>5. QED
  BY <1>2, <1>3, <1>4 DEF AfterResolved

LEMMA EnterResolveKeeps ==
  ASSUME NEW n, Ready(n), n.op.kind \in {"ping", "get", "resolve"}, NEW u \in EnterResolve(n)
  PROVE  Aside(u, n)
<1>1. /\ n \in Statics /\ RequestOK(n.request) /\ n.op \in Operation /\ n.dns \in Dns
      /\ Tidy(n) /\ n.dhcp \in {"OFF", "ACTIVE"}
  BY NetFields DEF Ready, Tidy
<1>2. CASE u = Return([n EXCEPT !.dns = net_dns_clear_result])
  <2> DEFINE d == net_dns_clear_result
             m == [n EXCEPT !.dns = d]
  <2>1. d \in Dns /\ d.state # "PENDING"
    BY DEF net_dns_clear_result, Dns
  <2> HIDE DEF d
  <2>2. /\ m \in Statics /\ m.dns = d /\ m.request = n.request /\ m.heap = n.heap
        /\ m.g_active_tcp_client = n.g_active_tcp_client
    BY <1>1, <2>1 DEF Statics
  <2>3. u = Return(m)
    BY <1>2 DEF d
  <2> HIDE DEF m
  <2>4. Tidy(m)
    BY <1>1, <2>1, <2>2 DEF Tidy
  <2>5. QED
    BY <2>2, <2>3, <2>4, ReturnKeeps DEF Aside
<1>3. ASSUME NEW d \in net_dns_query(n, n.op.url), u = [n EXCEPT !.op.step = "resolve", !.dns = d]
      PROVE  Aside(u, n)
  <2> DEFINE o == [n.op EXCEPT !.step = "resolve"]
  <2>1. /\ o \in Operation /\ o.step = "resolve" /\ o.buffers = {}
        /\ o.kind = n.op.kind /\ o.url = n.op.url
    BY <1>1 DEF Operation, Ready
  <2>2. u = [n EXCEPT !.op = o, !.dns = d, !.dhcp = n.dhcp]
    BY <1>1, <1>3 DEF Statics
  <2>3. d \in Dns /\ d.name = n.op.url
    BY <1>1 DEF net_dns_query, Dns, Operation, DnsFailures
  <2> HIDE DEF o
  <2>4. OpOK(o) /\ o # NoOp
    BY <2>1 DEF OpOK, NoOp, None
  <2>5. QED
    BY <1>1, <2>1, <2>2, <2>3, <2>4, OperationKeeps
<1>4. QED
  BY <1>2, <1>3 DEF EnterResolve

LEMMA AfterConfiguredKeeps ==
  ASSUME NEW n, Ready(n), n.op.kind \in {"dhcp", "ping", "get", "resolve"},
         NEW u \in AfterConfigured(n)
  PROVE  Aside(u, n)
<1>1. CASE n.op.kind = "dhcp"
  BY <1>1, ReturnKeeps DEF AfterConfigured, Ready
<1>2. CASE n.op.kind # "dhcp"
  <2>1. n.op.kind \in {"ping", "get", "resolve"}
    BY <1>2
  <2>2. u \in AfterResolved(n) \/ u \in EnterResolve(n)
    BY <1>2 DEF AfterConfigured
  <2>3. QED
    BY <2>1, <2>2, AfterResolvedKeeps, EnterResolveKeeps
<1>3. QED
  BY <1>1, <1>2

\* A call is entered: operation o takes the place of the one before.
LEMMA EnteredIsReady ==
  ASSUME NEW n, Ready(n), NEW o \in Operation, o.buffers = {}
  PROVE  LET m == [n EXCEPT !.op = o]
         IN  Ready(m) /\ m.op = o /\ m.request = n.request
<1> DEFINE m == [n EXCEPT !.op = o]
<1>1. n \in Statics
  BY DEF Ready, Tidy
<1>2. /\ m \in Statics /\ m.dns = n.dns /\ m.request = n.request /\ m.op = o
      /\ m.heap = n.heap /\ m.g_operation_busy = n.g_operation_busy
      /\ m.g_active_tcp_client = n.g_active_tcp_client
  BY <1>1 DEF Statics
<1> HIDE DEF m
<1>3. Ready(m)
  BY <1>2 DEF Ready, Tidy
<1>4. QED
  BY <1>2, <1>3 DEF m

LEMMA EnterConfigureKeeps ==
  ASSUME NEW n, Ready(n), NEW kind \in {"dhcp", "ping", "get", "resolve"},
         NEW url \in Urls \cup {None}, NEW u \in EnterConfigure(n, kind, url)
  PROVE  Aside(u, n)
<1> DEFINE o == [NoOp EXCEPT !.kind = kind, !.url = url, !.step = "configure"]
           m == [n EXCEPT !.op = o]
<1>1. o \in Operation /\ o.kind = kind /\ o.buffers = {} /\ o.step = "configure"
  BY DEF NoOp, Operation
<1>2. n \in Statics
  BY DEF Ready, Tidy
<1>3. \/ u = Return(m) \/ u \in AfterConfigured(m) \/ u = [m EXCEPT !.dhcp = "ACTIVE"]
  BY DEF EnterConfigure
<1> HIDE DEF o
<1>4. Ready(m) /\ m.op = o /\ m.request = n.request
  BY <1>1, EnteredIsReady
<1>5. [m EXCEPT !.dhcp = "ACTIVE"] = [n EXCEPT !.op = o, !.dns = n.dns, !.dhcp = "ACTIVE"]
  BY <1>2 DEF Statics
<1> HIDE DEF m
<1>6. CASE u = Return(m)
  BY <1>4, <1>6, ReturnKeeps DEF Aside, Ready
<1>7. CASE u \in AfterConfigured(m)
  BY <1>1, <1>4, <1>7, AfterConfiguredKeeps DEF Aside
<1>8. CASE u = [m EXCEPT !.dhcp = "ACTIVE"]
  <2> DEFINE dh == "ACTIVE"
  <2>1. OpOK(o) /\ o # NoOp
    BY <1>1 DEF OpOK, NoOp, None
  <2>2. u = [n EXCEPT !.op = o, !.dns = n.dns, !.dhcp = dh] /\ dh \in {"OFF", "ACTIVE"}
    BY <1>5, <1>8
  <2>3. n.dns \in Dns /\ n.dns.state # "PENDING"
    BY <1>2, NetFields DEF Ready, Tidy
  <2> HIDE DEF dh
  <2>4. o.step # "resolve"
    BY <1>1
  <2>5. QED
    BY <1>1, <2>1, <2>2, <2>3, <2>4, OperationKeeps
<1>9. QED
  BY <1>3, <1>6, <1>7, <1>8

\* The flag is taken by a call while nothing holds it.
MayBlock(n) == NetOK(n) /\ n.op = NoOp /\ ~n.g_operation_busy

LEMMA BusyIsReady ==
  ASSUME NEW n, MayBlock(n), NEW b, NEW dh \in {"OFF", "ACTIVE"},
         \/ b = [n EXCEPT !.g_operation_busy = TRUE]
         \/ b = net_clear_ipv4([[n EXCEPT !.g_operation_busy = TRUE] EXCEPT !.dhcp = dh])
  PROVE  Ready(b) /\ b.request = n.request
<1>1. n \in Statics /\ Shared(n) /\ RequestOK(n.request) /\ ~Active(n.request)
  BY DEF MayBlock, NetOK, Shared
<1>2. Blocked(n)
  BY <1>1, OKIsBlocked DEF MayBlock
<1>3. Tidy(n)
  BY <1>1, <1>2, NoOpFacts, NetFields DEF Blocked, Tidy, MayBlock, None
<1> DEFINE d == [n.dns EXCEPT !.state = IF n.dns.state = "PENDING" THEN "TIMED_OUT"
                                        ELSE n.dns.state]
<1>4. n.dns \in Dns
  BY <1>1, NetFields
<1>5. d \in Dns /\ d.state # "PENDING"
  BY <1>4 DEF Dns
<1>6. net_clear_ipv4([[n EXCEPT !.g_operation_busy = TRUE] EXCEPT !.dhcp = dh])
        = [n EXCEPT !.g_operation_busy = TRUE, !.dhcp = dh, !.configured = FALSE, !.dns = d]
  BY <1>1, <1>4 DEF net_clear_ipv4, Statics, Dns
<1> HIDE DEF d
<1>7. /\ b \in Statics /\ b.dns \in {n.dns, d} /\ b.request = n.request /\ b.op = n.op
      /\ b.heap = n.heap /\ b.g_operation_busy = TRUE
      /\ b.g_active_tcp_client = n.g_active_tcp_client
  <2>1. CASE b = [n EXCEPT !.g_operation_busy = TRUE]
    BY <1>1, <2>1 DEF Statics
  <2>2. CASE b = net_clear_ipv4([[n EXCEPT !.g_operation_busy = TRUE] EXCEPT !.dhcp = dh])
    <3>1. b = [n EXCEPT !.g_operation_busy = TRUE, !.dhcp = dh, !.configured = FALSE, !.dns = d]
      BY <1>6, <2>2, Zenon
    <3>2. QED
      BY <1>1, <1>5, <3>1 DEF Statics
  <2>3. QED
    BY <2>1, <2>2
<1>8. QED
  BY <1>3, <1>5, <1>7, NoOpFacts DEF Ready, Tidy, MayBlock

LEMMA CallKeeps ==
  ASSUME NEW n, MayBlock(n), NEW kind \in {"dhcp", "resolve", "ping", "get"},
         NEW url \in Urls, NEW u \in BlockingCall(n, kind, url)
  PROVE  Aside(u, n)
<1> DEFINE b == [n EXCEPT !.g_operation_busy = TRUE]
           on == "ACTIVE"
           off == "OFF"
           c1 == net_clear_ipv4([b EXCEPT !.dhcp = on])
           c0 == net_clear_ipv4([b EXCEPT !.dhcp = off])
           none == None
           dhcp == "dhcp"
<1>1. Ready(b) /\ b.request = n.request
  BY BusyIsReady
<1>2. Ready(c1) /\ c1.request = n.request /\ Ready(c0) /\ c0.request = n.request
  BY BusyIsReady
<1>3. CASE kind = "dhcp"
  <2>1. u = n \/ u = Return(c0) \/ u \in EnterConfigure(c1, dhcp, none)
    BY <1>3 DEF BlockingCall, network_renew_dhcp
  <2>2. dhcp \in {"dhcp", "ping", "get", "resolve"} /\ none \in Urls \cup {None}
    OBVIOUS
  <2> HIDE DEF c1, c0, dhcp, none
  <2>3. CASE u = n
    BY <2>3 DEF Aside, MayBlock
  <2>4. CASE u = Return(c0)
    BY <1>2, <2>4, ReturnKeeps DEF Aside, Ready
  <2>5. CASE u \in EnterConfigure(c1, dhcp, none)
    BY <1>2, <2>2, <2>5, EnterConfigureKeeps DEF Aside
  <2>6. QED
    BY <2>1, <2>3, <2>4, <2>5
<1>4. CASE kind # "dhcp"
  <2> DEFINE o == [NoOp EXCEPT !.kind = kind, !.url = url]
             m == [b EXCEPT !.op = o]
  <2>1. kind \in {"ping", "get", "resolve"}
    BY <1>4
  <2>2. u \in EnterConfigure(b, kind, url) \/ u \in AfterResolved(m)
    BY <1>4 DEF BlockingCall, Lookup, network_http_get
  <2>3. o \in Operation /\ o.kind = kind /\ o.buffers = {}
    BY DEF NoOp, Operation
  <2> HIDE DEF o, b
  <2>4. Ready(m) /\ m.op = o /\ m.request = b.request
    BY <1>1, <2>3, EnteredIsReady
  <2> HIDE DEF m
  <2>5. CASE u \in EnterConfigure(b, kind, url)
    BY <1>1, <2>1, <2>5, EnterConfigureKeeps DEF Aside
  <2>6. CASE u \in AfterResolved(m)
    BY <1>1, <2>1, <2>3, <2>4, <2>6, AfterResolvedKeeps DEF Aside
  <2>7. QED
    BY <2>2, <2>5, <2>6
<1>5. QED
  BY <1>3, <1>4

LEMMA GiveUpKeeps ==
  ASSUME NEW n, Blocked(n)
  PROVE  Aside(GiveUp(n), n)
<1> DEFINE d == IF n.op.step = "resolve" THEN net_dns_clear_result ELSE n.dns
           c == IF n.op.step = "tcp" THEN None ELSE n.g_active_tcp_client
           H == n.heap \ n.op.buffers
           m == [n EXCEPT !.dns = d, !.g_active_tcp_client = c, !.heap = H]
<1>1. n \in Statics /\ RequestOK(n.request) /\ n.dns \in Dns
  BY NetFields DEF Blocked
<1>2. d \in Dns /\ d.state # "PENDING"
  BY <1>1 DEF Blocked, net_dns_clear_result, Dns
<1>3. c = None
  BY <1>1, NetFields DEF Blocked, None
<1>4. H = {n.request.response_bytes} \ {0} /\ H \in SUBSET Blocks
  BY <1>1, NetFields DEF Blocked
<1>5. GiveUp(n) = Return(m)
  BY DEF GiveUp
<1> HIDE DEF d, c, H
<1>6. /\ m \in Statics /\ m.dns = d /\ m.request = n.request /\ m.heap = H
      /\ m.g_active_tcp_client = None
  BY <1>1, <1>2, <1>3, <1>4 DEF Statics
<1> HIDE DEF m
<1>7. Tidy(m)
  BY <1>1, <1>2, <1>4, <1>6 DEF Tidy, Blocked
<1>8. Aside(Return(m), m)
  BY <1>7, ReturnKeeps
<1>9. QED
  BY <1>5, <1>6, <1>8 DEF Aside

LEMMA BlockingKeeps ==
  ASSUME NEW n, NetOK(n), n.op # NoOp, NEW u \in BlockingStep(n)
  PROVE  Aside(u, n)
<1>1. n \in Statics /\ ~Active(n.request) /\ n.op \in Operation /\ RequestOK(n.request)
  BY NetFields DEF NetOK, Shared
<1>2. Blocked(n)
  BY <1>1, OKIsBlocked
<1>3. \/ n.op.step = "configure" /\ u \in AfterConfigured(n)
      \/ n.op.step = "resolve" /\ u \in AfterResolved([n EXCEPT !.dns = net_dns_clear_result])
      \/ u = n \/ u = GiveUp(n)
  BY DEF BlockingStep, http_client_get
<1>4. CASE u = n
  BY <1>4 DEF Aside
<1>5. CASE u = GiveUp(n)
  BY <1>2, <1>5, GiveUpKeeps
<1>6. ASSUME n.op.step \in {"configure", "resolve"}
      PROVE  /\ n.g_operation_busy = TRUE /\ n.g_active_tcp_client = None /\ n.op.buffers = {}
             /\ n.heap = {n.request.response_bytes} \ {0}
  BY <1>1, <1>2, <1>6, NetFields DEF Blocked, OpOK, None
<1>7. CASE n.op.step = "configure" /\ u \in AfterConfigured(n)
  <2>1. Ready(n)
    BY <1>1, <1>2, <1>6, <1>7 DEF Ready, Tidy, Blocked
  <2>2. n.op.kind \in {"dhcp", "ping", "get", "resolve"}
    BY <1>1, <1>2, <1>7 DEF Blocked, OpOK, Operation
  <2>3. QED
    BY <1>7, <2>1, <2>2, AfterConfiguredKeeps
<1>8. CASE n.op.step = "resolve" /\ u \in AfterResolved([n EXCEPT !.dns = net_dns_clear_result])
  <2> DEFINE d == net_dns_clear_result
             m == [n EXCEPT !.dns = d]
  <2>1. d \in Dns /\ d.state # "PENDING"
    BY DEF net_dns_clear_result, Dns
  <2>2. u \in AfterResolved(m)
    BY <1>8
  <2> HIDE DEF d
  <2>3. /\ m \in Statics /\ m.dns = d /\ m.request = n.request /\ m.op = n.op
        /\ m.heap = n.heap /\ m.g_operation_busy = n.g_operation_busy
        /\ m.g_active_tcp_client = n.g_active_tcp_client
    BY <1>1, <2>1 DEF Statics
  <2> HIDE DEF m
  <2>4. Ready(m)
    BY <1>1, <1>6, <1>8, <2>1, <2>3 DEF Ready, Tidy
  <2>5. m.op.kind \in {"ping", "get", "resolve"}
    BY <1>1, <1>2, <1>8, <2>3 DEF Blocked, OpOK, Operation
  <2>6. Aside(u, m)
    BY <2>2, <2>4, <2>5, AfterResolvedKeeps
  <2>7. QED
    BY <2>3, <2>6 DEF Aside
<1>9. QED
  BY <1>3, <1>4, <1>5, <1>7, <1>8

----------------------------------------------------------------------------
(* app_network_services.c *)

\* The record and the backend name each other, whoever lives.
Linked(n, rec, living) ==
  /\ n.request.allocated <=> rec.in_use \/ rec.cleanup_pending
  /\ n.request.allocated => rec.network_handle = n.request.handle
  /\ rec.in_use => rec.process_id \in living /\ ~rec.cleanup_pending
  /\ rec.cleanup_pending => ~Active(n.request)

\* Everything that IInv says, of one state of the network and the record.
Whole(n, rec, living) ==
  NetOK(n) /\ Asked(n) /\ rec \in Record /\ Linked(n, rec, living)

LEMMA WholeIsIInv ==
  IInv <=> /\ Whole(net, g_request, alive)
           /\ g_next_handle \in 1 .. APP_HANDLE_MAX /\ alive \subseteq Processes
  BY DEF IInv, Whole, Linked, BackendIsNeverOrphaned

LEMMA WholeAfterwards ==
  ASSUME Whole(net', g_request', alive'), g_next_handle' \in 1 .. APP_HANDLE_MAX,
         alive' \subseteq Processes
  PROVE  IInv'
  BY DEF IInv, Whole, Linked, BackendIsNeverOrphaned

LEMMA NoRecordFacts ==
  /\ NoRecord \in Record /\ NoRecord.in_use = FALSE /\ NoRecord.cleanup_pending = FALSE
  BY NetworkAssumption, AppNetworkAssumption DEF NoRecord, Record

\* The network moves under a record that stays.
LEMMA GoodKeepsWhole ==
  ASSUME NEW n, NEW rec, NEW living, Whole(n, rec, living), NEW u, Good(u, n)
  PROVE  Whole(u, rec, living)
  BY DEF Whole, Linked, Good, Driven

LEMMA AsideKeepsWhole ==
  ASSUME NEW n, NEW rec, NEW living, Whole(n, rec, living), NEW u, Aside(u, n)
  PROVE  Whole(u, rec, living)
  BY DEF Whole, Linked, Aside, Asked

\* What a close leaves behind.
Settled(c, n, handle) ==
  \/ c.ok = TRUE /\ Gone(c.net, n)
  \/ c.ok = FALSE /\ c.net = n

LEMMA OutcomesSettle ==
  ASSUME NEW n, NetOK(n), Asked(n), NEW handle, NEW c \in CloseOutcomes(n, handle)
  PROVE  Settled(c, n, handle)
  BY CloseKeeps DEF CloseOutcomes, Settled

\* The record that remains when a request is retired names no process.
LEMMA RetiredIsWhole ==
  ASSUME NEW n, NEW rec, NEW living, Whole(n, rec, living),
         rec.in_use \/ rec.cleanup_pending,
         NEW r \in Retired(n, rec.network_handle), NEW living2
  PROVE  Whole(r.net, r.record, living2) /\ r.record.in_use = FALSE
<1> DEFINE h == rec.network_handle
           m == network_http_request_cancel(n, h)
           owed == [NoRecord EXCEPT !.cleanup_pending = TRUE, !.network_handle = h]
<1>1. NetOK(n) /\ Asked(n) /\ rec \in Record /\ n.request.allocated /\ h = n.request.handle
  BY DEF Whole, Linked
<1>2. h \in 0 .. HTTP_HANDLE_MAX /\ h # 0
  BY <1>1 DEF Record, NetOK, RequestOK
<1>3. /\ owed \in Record /\ owed.in_use = FALSE /\ owed.cleanup_pending = TRUE
      /\ owed.network_handle = h
  <2> HIDE DEF h
  <2>1. QED
    BY <1>2, NoRecordFacts DEF Record
<1>4. IsRequest(n, h)
  BY <1>1, <1>2 DEF IsRequest
<1>5. PICK c \in CloseOutcomes(m, h) :
        r = [net |-> c.net, record |-> IF c.ok THEN NoRecord ELSE owed]
  BY DEF Retired
<1> HIDE DEF h, owed
<1>6. Good(m, n) /\ ~Active(m.request)
  BY <1>1, <1>4, CancelKeeps
<1> HIDE DEF m
<1>7. NetOK(m) /\ Asked(m) /\ m.request.allocated /\ m.request.handle = h
  BY <1>1, <1>6 DEF Good, Driven
<1>8. Settled(c, m, h)
  BY <1>7, OutcomesSettle
<1>9. CASE c.ok = TRUE /\ Gone(c.net, m)
  <2>1. r.net = c.net /\ r.record = NoRecord
    BY <1>5, <1>9
  <2>2. QED
    BY <1>9, <2>1, NoRecordFacts DEF Whole, Linked, Gone
<1>10. CASE c.ok = FALSE /\ c.net = m
  <2>1. r.net = m /\ r.record = owed
    BY <1>5, <1>10
  <2>2. QED
    BY <1>3, <1>6, <1>7, <2>1 DEF Whole, Linked
<1>11. QED
  BY <1>8, <1>9, <1>10 DEF Settled

\* A pending cleanup is tried again: it is done, or it stays owed.
LEMMA RetryIsWhole ==
  ASSUME NEW n, NEW rec, NEW living, Whole(n, rec, living),
         NEW r \in retry_pending_cleanup(n, rec)
  PROVE  Whole(r.net, r.record, living)
<1>1. CASE rec.cleanup_pending
  <2>1. r \in Retired(n, rec.network_handle)
    BY <1>1 DEF retry_pending_cleanup
  <2>2. QED
    BY <1>1, <2>1, RetiredIsWhole
<1>2. CASE ~rec.cleanup_pending
  <2>1. r.net = n /\ r.record = rec
    BY <1>2 DEF retry_pending_cleanup
  <2>2. QED
    BY <2>1
<1>3. QED
  BY <1>1, <1>2

LEMMA NextHandleIsOne ==
  ASSUME g_next_handle \in 1 .. APP_HANDLE_MAX
  PROVE  NextAppHandle \in 1 .. APP_HANDLE_MAX
  BY AppNetworkAssumption DEF NextAppHandle

LEMMA StartIsWhole ==
  ASSUME IInv, NEW p \in Processes, NEW url \in Urls, NEW follow \in BOOLEAN,
         NEW valid \in BOOLEAN, dispatch_start(p, url, follow, valid)
  PROVE  IInv'
<1>1. /\ Whole(net, g_request, alive) /\ g_next_handle \in 1 .. APP_HANDLE_MAX
      /\ alive \subseteq Processes /\ alive' = alive /\ p \in alive
  BY WholeIsIInv DEF dispatch_start
<1>2. PICK r \in retry_pending_cleanup(net, g_request) :
        \/ net' = r.net /\ g_request' = r.record /\ UNCHANGED g_next_handle
        \/ /\ ~(r.record.cleanup_pending \/ r.record.in_use \/ ~valid)
           /\ \E b \in network_http_request_start(r.net, url, follow) :
                /\ net' = b.net
                /\ IF b.handle = 0
                   THEN g_request' = NoRecord /\ UNCHANGED g_next_handle
                   ELSE /\ g_request' = [in_use |-> TRUE, cleanup_pending |-> FALSE,
                                         process_id |-> p, app_handle |-> g_next_handle,
                                         network_handle |-> b.handle]
                        /\ g_next_handle' = NextAppHandle
  BY DEF dispatch_start
<1>3. Whole(r.net, r.record, alive)
  BY <1>1, RetryIsWhole
<1>4. CASE net' = r.net /\ g_request' = r.record /\ UNCHANGED g_next_handle
  <2>1. Whole(net', g_request', alive')
    BY <1>1, <1>3, <1>4
  <2>2. QED
    BY <1>1, <1>4, <2>1, WholeAfterwards
<1>5. ASSUME ~r.record.cleanup_pending, ~r.record.in_use,
             NEW b \in network_http_request_start(r.net, url, follow), net' = b.net,
             IF b.handle = 0
             THEN g_request' = NoRecord /\ UNCHANGED g_next_handle
             ELSE /\ g_request' = [in_use |-> TRUE, cleanup_pending |-> FALSE,
                                   process_id |-> p, app_handle |-> g_next_handle,
                                   network_handle |-> b.handle]
                  /\ g_next_handle' = NextAppHandle
      PROVE  IInv'
  <2> DEFINE n == r.net
  <2>1. NetOK(n) /\ Asked(n) /\ ~n.request.allocated
    BY <1>3, <1>5 DEF Whole, Linked
  <2> HIDE DEF n
  <2>2. Started(b, n)
    BY <1>5, <2>1, StartKeeps DEF n
  <2>3. CASE b.handle = 0
    <3>1. net' = n /\ g_request' = NoRecord /\ g_next_handle' = g_next_handle
      BY <1>5, <2>2, <2>3 DEF Started
    <3>2. Whole(n, NoRecord, alive)
      BY <2>1, NoRecordFacts DEF Whole, Linked
    <3>3. Whole(net', g_request', alive')
      BY <1>1, <3>1, <3>2
    <3>4. QED
      BY <1>1, <3>1, <3>3, WholeAfterwards
  <2>4. CASE b.handle # 0
    <3> DEFINE rec == [in_use |-> TRUE, cleanup_pending |-> FALSE, process_id |-> p,
                       app_handle |-> g_next_handle, network_handle |-> b.handle]
    <3>1. /\ NetOK(b.net) /\ Asked(b.net) /\ b.handle \in 1 .. HTTP_HANDLE_MAX
          /\ b.net.request.allocated /\ b.net.request.handle = b.handle
      BY <2>2, <2>4 DEF Started
    <3>2. g_next_handle \in 0 .. APP_HANDLE_MAX /\ b.handle \in 0 .. HTTP_HANDLE_MAX
      BY <1>1, <3>1, AppNetworkAssumption, NetworkAssumption
    <3>3. /\ rec \in Record /\ rec.in_use = TRUE /\ rec.cleanup_pending = FALSE
          /\ rec.process_id = p /\ rec.network_handle = b.handle
      BY <3>2 DEF Record
    <3>4. g_request' = rec /\ g_next_handle' = NextAppHandle
      BY <1>5, <2>4
    <3> HIDE DEF rec
    <3>5. Whole(b.net, rec, alive)
      BY <1>1, <3>1, <3>3 DEF Whole, Linked
    <3>6. Whole(net', g_request', alive')
      BY <1>1, <1>5, <3>4, <3>5
    <3>7. QED
      BY <1>1, <3>4, <3>6, WholeAfterwards, NextHandleIsOne
  <2>5. QED
    BY <2>3, <2>4
<1>6. QED
  BY <1>2, <1>4, <1>5

LEMMA CancelIsWhole ==
  ASSUME IInv, NEW p \in Processes, NEW h, dispatch_cancel(p, h)
  PROVE  IInv'
<1> DEFINE k == g_request.network_handle
<1>1. /\ Whole(net, g_request, alive) /\ g_next_handle \in 1 .. APP_HANDLE_MAX
      /\ alive \subseteq Processes /\ NetOK(net) /\ Asked(net)
  BY WholeIsIInv DEF Whole
<1>2. /\ net' = network_http_request_cancel(net, k)
      /\ UNCHANGED <<g_request, g_next_handle, alive>>
  BY DEF dispatch_cancel
<1>3. Good(network_http_request_cancel(net, k), net)
  BY <1>1, CancelKeeps
<1>4. Whole(network_http_request_cancel(net, k), g_request, alive)
  BY <1>1, <1>3, GoodKeepsWhole
<1>5. Whole(net', g_request', alive')
  BY <1>2, <1>4
<1>6. QED
  BY <1>1, <1>2, <1>5, WholeAfterwards

LEMMA CloseIsWhole ==
  ASSUME IInv, NEW p \in Processes, NEW h, dispatch_close(p, h)
  PROVE  IInv'
<1> DEFINE k == g_request.network_handle
<1>1. /\ Whole(net, g_request, alive) /\ g_next_handle \in 1 .. APP_HANDLE_MAX
      /\ alive \subseteq Processes /\ NetOK(net) /\ Asked(net)
  BY WholeIsIInv DEF Whole
<1>2. PICK c \in CloseOutcomes(net, k) :
        net' = c.net /\ g_request' = IF c.ok THEN NoRecord ELSE g_request
  BY DEF dispatch_close
<1>3. UNCHANGED <<g_next_handle, alive>>
  BY DEF dispatch_close
<1>4. Settled(c, net, k)
  BY <1>1, OutcomesSettle
<1>5. CASE c.ok = TRUE /\ Gone(c.net, net)
  <2>1. Whole(c.net, NoRecord, alive)
    BY <1>5, NoRecordFacts DEF Whole, Linked, Gone
  <2>2. Whole(net', g_request', alive')
    BY <1>2, <1>3, <1>5, <2>1
  <2>3. QED
    BY <1>1, <1>3, <2>2, WholeAfterwards
<1>6. CASE c.ok = FALSE /\ c.net = net
  <2>1. Whole(net', g_request', alive')
    BY <1>1, <1>2, <1>3, <1>6
  <2>2. QED
    BY <1>1, <1>3, <2>1, WholeAfterwards
<1>7. QED
  BY <1>4, <1>5, <1>6 DEF Settled

LEMMA ReleaseIsWhole ==
  ASSUME IInv, NEW p \in Processes, app_network_services_release_process(p)
  PROVE  IInv'
<1> DEFINE k == g_request.network_handle
<1>1. /\ Whole(net, g_request, alive) /\ g_next_handle \in 1 .. APP_HANDLE_MAX
      /\ alive \subseteq Processes
  BY WholeIsIInv
<1>2. alive' = alive \ {p} /\ UNCHANGED g_next_handle
  BY DEF app_network_services_release_process
<1>3. CASE g_request.in_use /\ g_request.process_id = p
  <2>1. PICK r \in Retired(net, k) : net' = r.net /\ g_request' = r.record
    BY <1>3 DEF app_network_services_release_process
  <2>2. Whole(r.net, r.record, alive \ {p})
    BY <1>1, <1>3, RetiredIsWhole
  <2>3. Whole(net', g_request', alive')
    BY <1>2, <2>1, <2>2
  <2>4. QED
    BY <1>1, <1>2, <2>3, WholeAfterwards
<1>4. CASE ~(g_request.in_use /\ g_request.process_id = p)
  <2>1. UNCHANGED <<net, g_request>>
    BY <1>4 DEF app_network_services_release_process
  <2>2. Whole(net, g_request, alive \ {p})
    BY <1>1, <1>4 DEF Whole, Linked
  <2>3. Whole(net', g_request', alive')
    BY <1>2, <2>1, <2>2
  <2>4. QED
    BY <1>1, <1>2, <2>3, WholeAfterwards
<1>5. QED
  BY <1>3, <1>4

LEMMA PollIsWhole ==
  ASSUME IInv, Poll
  PROVE  IInv'
<1>1. /\ Whole(net, g_request, alive) /\ g_next_handle \in 1 .. APP_HANDLE_MAX
      /\ alive \subseteq Processes /\ NetOK(net) /\ Asked(net)
  BY WholeIsIInv DEF Whole
<1>2. UNCHANGED <<g_request, g_next_handle, alive>>
  BY DEF Poll
<1>3. PICK m \in network_poll(net) : IF Idle THEN net' = m ELSE net' \in BlockingStep(m)
  BY DEF Poll
<1>4. Good(m, net)
  BY <1>1, PollKeeps
<1>5. Whole(m, g_request, alive)
  BY <1>1, <1>4, GoodKeepsWhole
<1>6. Whole(net', g_request, alive)
  <2>1. CASE Idle
    BY <1>3, <1>5, <2>1
  <2>2. CASE ~Idle
    <3>1. net' \in BlockingStep(m) /\ m.op # NoOp /\ NetOK(m)
      BY <1>3, <1>4, <2>2 DEF Idle, Good, Driven
    <3>2. Aside(net', m)
      BY <3>1, BlockingKeeps
    <3>3. QED
      BY <1>5, <3>2, AsideKeepsWhole
  <2>3. QED
    BY <2>1, <2>2
<1>7. QED
  BY <1>1, <1>2, <1>6, WholeAfterwards

LEMMA BlockIsWhole ==
  ASSUME IInv, NEW kind \in {"dhcp", "resolve", "ping", "get"}, NEW url \in Urls,
         Block(kind, url)
  PROVE  IInv'
<1>1. /\ Whole(net, g_request, alive) /\ g_next_handle \in 1 .. APP_HANDLE_MAX
      /\ alive \subseteq Processes /\ NetOK(net)
  BY WholeIsIInv DEF Whole
<1>2. /\ UNCHANGED <<g_request, g_next_handle, alive>>
      /\ net' \in BlockingCall(net, kind, url) /\ MayBlock(net)
  BY <1>1 DEF Block, Idle, MayBlock
<1>3. Aside(net', net)
  BY <1>2, CallKeeps
<1>4. Whole(net', g_request, alive)
  BY <1>1, <1>3, AsideKeepsWhole
<1>5. QED
  BY <1>1, <1>2, <1>4, WholeAfterwards

\* The link, the clock and the launch of a process.
LEMMA WorldIsWhole ==
  ASSUME IInv,
         \/ \E l \in {"up", "down", "gone"} : LinkChanges(l)
         \/ ClockTicks
         \/ \E p \in Processes : Launch(p)
  PROVE  IInv'
<1>1. /\ Whole(net, g_request, alive) /\ g_next_handle \in 1 .. APP_HANDLE_MAX
      /\ alive \subseteq Processes /\ NetOK(net) /\ Asked(net)
  BY WholeIsIInv DEF Whole
<1>2. ASSUME NEW l \in {"up", "down", "gone"}, LinkChanges(l)
      PROVE  IInv'
  <2>1. UNCHANGED <<g_request, g_next_handle, alive>> /\ net' = [net EXCEPT !.link = l]
    BY <1>2 DEF LinkChanges
  <2>2. Good(net', net)
    BY <1>1, <2>1, LinkKeeps
  <2>3. Whole(net', g_request, alive)
    BY <1>1, <2>2, GoodKeepsWhole
  <2>4. QED
    BY <1>1, <2>1, <2>3, WholeAfterwards
<1>3. ASSUME ClockTicks
      PROVE  IInv'
  <2>1. /\ UNCHANGED <<g_request, g_next_handle, alive>> /\ Active(net.request)
        /\ net' = [net EXCEPT !.request.age = @ + 1]
    BY <1>3 DEF ClockTicks
  <2>2. Good(net', net)
    BY <1>1, <2>1, ClockKeeps
  <2>3. Whole(net', g_request, alive)
    BY <1>1, <2>2, GoodKeepsWhole
  <2>4. QED
    BY <1>1, <2>1, <2>3, WholeAfterwards
<1>4. ASSUME NEW p \in Processes, Launch(p)
      PROVE  IInv'
  <2>1. UNCHANGED <<net, g_request, g_next_handle>> /\ alive' = alive \cup {p}
    BY <1>4 DEF Launch
  <2>2. Whole(net, g_request, alive')
    BY <1>1, <2>1 DEF Whole, Linked
  <2>3. QED
    BY <1>1, <2>1, <2>2, WholeAfterwards
<1>5. QED
  BY <1>2, <1>3, <1>4

LEMMA Initially ==
  Init => IInv
<1> SUFFICES ASSUME Init PROVE IInv
  OBVIOUS
<1>1. net \in network_init /\ g_request = NoRecord /\ g_next_handle = 1 /\ alive = {}
  BY DEF Init
<1> DEFINE idle == [state |-> "IDLE", name |-> None]
<1>2. PICK ready \in BOOLEAN, l \in {"up", "down", "gone"}, d \in {"OFF", "ACTIVE"} :
        net = Network(ready, l, d)
  BY <1>1, Zenon DEF network_init
<1>3. NoRequest \in Request /\ NoOp \in Operation /\ net.request = NoRequest /\ net.op = NoOp
  BY <1>2, NoRequestFacts, NoOpFacts DEF RequestOK, Network
<1>4. /\ net \in Statics /\ net.g_operation_busy = FALSE /\ net.g_active_tcp_client = None
      /\ net.dns.state = "IDLE" /\ net.heap = {}
  <2> DEFINE q == NoRequest
             o == NoOp
             c == idle
  <2>1. c \in Dns /\ q \in Request /\ o \in Operation /\ c.state = "IDLE"
    BY <1>3 DEF Dns
  <2>2. 1 \in 1 .. HTTP_HANDLE_MAX
    BY NetworkAssumption
  <2>3. net = [g_stack_ready |-> ready, link |-> l, configured |-> FALSE, dhcp |-> d, dns |-> c,
               g_operation_busy |-> FALSE, g_active_tcp_client |-> None, request |-> q,
               g_next_http_handle |-> 1, heap |-> {}, op |-> o]
    BY <1>2 DEF Network
  <2> HIDE DEF q, o, c
  <2>4. QED
    BY <2>1, <2>2, <2>3 DEF Statics
<1>5. Blocked(net)
  BY <1>3, <1>4, NoRequestFacts, NoOpFacts DEF Blocked, None
<1>6. NetOK(net) /\ Asked(net)
  BY <1>3, <1>5, BlockedIsOK, NoRequestFacts DEF Asked
<1>7. Whole(net, g_request, alive)
  BY <1>1, <1>3, <1>6, NoRequestFacts, NoRecordFacts DEF Whole, Linked
<1>8. g_next_handle \in 1 .. APP_HANDLE_MAX
  BY <1>1, AppNetworkAssumption
<1>9. QED
  BY <1>1, <1>7, <1>8, WholeIsIInv

LEMMA Inductive ==
  IInv /\ [Next]_vars => IInv'
<1> SUFFICES ASSUME IInv, [Next]_vars PROVE IInv'
  OBVIOUS
<1>1. CASE UNCHANGED vars
  BY <1>1 DEF vars, IInv, BackendIsNeverOrphaned
<1>2. ASSUME NEW p \in Processes, app_network_services_dispatch(p)
      PROVE  IInv'
  BY <1>2, StartIsWhole, CancelIsWhole, CloseIsWhole DEF app_network_services_dispatch
<1>3. ASSUME NEW p \in Processes, app_network_services_release_process(p)
      PROVE  IInv'
  BY <1>3, ReleaseIsWhole
<1>4. CASE Poll
  BY <1>4, PollIsWhole
<1>5. ASSUME NEW kind \in {"dhcp", "resolve", "ping", "get"}, NEW url \in Urls, Block(kind, url)
      PROVE  IInv'
  BY <1>5, BlockIsWhole
<1>6. CASE \/ \E l \in {"up", "down", "gone"} : LinkChanges(l)
           \/ ClockTicks
           \/ \E p \in Processes : Launch(p)
  BY <1>6, WorldIsWhole
<1>7. QED
  BY <1>1, <1>2, <1>3, <1>4, <1>5, <1>6 DEF Next

LEMMA Invariant == Spec => []IInv
  BY Initially, Inductive, PTL DEF Spec

----------------------------------------------------------------------------
(* The theorems *)

\* The busy flag of network.c has exactly one owner, and the resolver asks only for
\* it, however calls, polls, deaths, timeouts and changes of the link interleave.
THEOREM OneOwner == Spec => []BusyHasOneOwner
<1>1. IInv => BusyHasOneOwner
  BY DEF IInv, NetOK, Shared, RequestOK, BusyHasOneOwner, Idle
<1>2. QED
  BY <1>1, Invariant, PTL

\* Segments only ever reach a buffer that is allocated to a running operation, and no
\* buffer is leaked.
THEOREM BuffersAreLive == Spec => []InputHasALiveBuffer
<1>1. IInv => InputHasALiveBuffer
  <2> SUFFICES ASSUME NetOK(net) PROVE InputHasALiveBuffer
    BY DEF IInv
  <2>1. Shared(net) /\ RequestOK(net.request)
    BY DEF NetOK
  <2>2. net.g_active_tcp_client = "request" =>
          /\ net.request.response_bytes \in net.heap
          /\ net.request.state \in {"CONNECTING", "SENDING", "RECEIVING"}
    BY <2>1 DEF Shared, RequestOK, Connected
  <2>3. net.g_active_tcp_client = "get" =>
          net.op.step = "tcp" /\ net.op.buffers \subseteq net.heap /\ net.op.buffers # {}
    BY <2>1 DEF Shared, OpOK
  <2>4. QED
    BY <2>1, <2>2, <2>3 DEF InputHasALiveBuffer, Shared
<1>2. QED
  BY <1>1, Invariant, PTL

\* A request of the backend can always be named by a living process, or its cleanup is
\* owed: the network is never blocked for good by a process that died.
THEOREM NoOrphan == Spec => []BackendIsNeverOrphaned
<1>1. IInv => BackendIsNeverOrphaned
  BY DEF IInv
<1>2. QED
  BY <1>1, Invariant, PTL

\* What dispatch_status and dispatch_read tell an application of its request is true.
THEOREM OwnerIsToldTheTruth == Spec => []OwnerSeesItsRequest
<1>1. IInv => OwnerSeesItsRequest
  <2> SUFFICES ASSUME IInv, NEW p \in alive, NEW h \in 1 .. APP_HANDLE_MAX, find_record(p, h)
               PROVE  LET status == dispatch_status(p, h)
                          read == dispatch_read(p, h)
                      IN  /\ status.error # "IO_ERROR"
                          /\ status.error = "NONE" <=> status.state \notin {"FAILED", "CANCELED"}
                          /\ "body" \in DOMAIN read <=> status.state = "COMPLETE"
                          /\ "body" \in DOMAIN read =>
                               /\ read.body = Url(net.request)
                               /\ net.request.remote_ip = Url(net.request)
                          /\ read = [error |-> "WOULD_BLOCK"] <=> Active(net.request)
    BY DEF OwnerSeesItsRequest
  <2> DEFINE status == dispatch_status(p, h)
             read == dispatch_read(p, h)
             q == net.request
             k == g_request.network_handle
             s == network_http_request_get_status(net)
             r == network_http_request_read(net, k)
  <2>1. NetOK(net) /\ RequestOK(q) /\ q \in Request /\ q.allocated /\ k = q.handle
    BY DEF IInv, NetOK, RequestOK, BackendIsNeverOrphaned, find_record
  <2>2. q.handle # 0 /\ Len(q.visited) \in 1 .. NETWORK_HTTP_REDIRECT_LIMIT + 1 /\ Outcome(q)
        /\ q.state # "WAITING" /\ q.state \in States
    BY <2>1 DEF RequestOK, Request
  <2>3. IsRequest(net, k)
    BY <2>1, <2>2 DEF IsRequest
  <2>4. /\ s.state = q.state /\ s.result = q.result
        /\ ~(s.redirect_count > NETWORK_HTTP_REDIRECT_LIMIT)
    <3>1. NETWORK_HTTP_REDIRECT_LIMIT \in Nat
      BY NetworkAssumption
    <3>2. ~(Len(q.visited) - 1 > NETWORK_HTTP_REDIRECT_LIMIT)
      BY <2>2, <3>1
    <3>3. QED
      BY <3>2 DEF network_http_request_get_status
  <2>5. /\ status.state = q.state
        /\ status.error = IF q.state = "CANCELED" THEN "CANCELED" ELSE app_request_error(q.result)
    BY <2>3, <2>4 DEF dispatch_status
  <2>6. CASE q.state = "COMPLETE"
    <3>1. q.result = "OK" /\ q.body = Url(q) /\ q.remote_ip = Url(q)
      BY <2>2, <2>6 DEF Outcome
    <3>2. r.result = "OK" /\ r.body = q.body
      BY <2>3, <2>6 DEF network_http_request_read
    <3>3. read = [body |-> q.body]
      BY <3>2 DEF dispatch_read
    <3>4. status.error = "NONE" /\ ~Active(q)
      BY <2>5, <2>6, <3>1 DEF app_request_error, Active, Ended
    <3>5. QED
      BY <2>5, <2>6, <3>1, <3>3, <3>4
  <2>7. CASE q.state \in {"FAILED", "CANCELED"}
    <3>1. q.result \in Failures \cup {"CANCELED"} /\ ~Active(q)
      BY <2>2, <2>7 DEF Outcome, Active, Ended
    <3>2. r.result \in Failures \cup {"CANCELED"}
      BY <2>3, <2>7, <3>1 DEF network_http_request_read
    <3>3. read = [error |-> "INVALID_ARGUMENT"] \/ read = [error |-> "IO_ERROR"]
      BY <3>2 DEF dispatch_read, Failures
    <3>4. status.error \notin {"NONE", "IO_ERROR"}
      BY <2>2, <2>5, <2>7 DEF Outcome, app_request_error, Failures
    <3>5. QED
      BY <2>5, <2>7, <3>1, <3>3, <3>4
  <2>8. CASE q.state \notin Ended
    <3>1. q.result = "OK" /\ Active(q)
      BY <2>1, <2>2, <2>8 DEF Outcome, Active
    <3>2. r.result = "BUSY"
      BY <2>3, <2>8 DEF network_http_request_read, Ended
    <3>3. read = [error |-> "WOULD_BLOCK"]
      BY <3>2 DEF dispatch_read
    <3>4. status.error = "NONE"
      BY <2>5, <2>8, <3>1 DEF app_request_error, Ended
    <3>5. QED
      BY <2>5, <2>8, <3>1, <3>3, <3>4 DEF Ended
  <2>9. QED
    BY <2>6, <2>7, <2>8 DEF Ended
<1>2. QED
  BY <1>1, Invariant, PTL
=============================================================================
