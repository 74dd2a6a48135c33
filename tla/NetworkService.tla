--------------------------- MODULE NetworkService ---------------------------
(***************************************************************************)
(* The network service layer, kernel/network.c: the one HTTP request that   *)
(* network_poll drives through its phases, the blocking operations of the   *)
(* shell, and what the two share: the busy flag, the resolver, the active   *)
(* TCP client and the heap.                                                 *)
(*                                                                         *)
(* Every function is a function of net, the statics of the file together    *)
(* with what it sees of the stack below; one whose result depends on the    *)
(* network or on the heap yields the set of its possible results.           *)
(***************************************************************************)
EXTENDS Naturals, Sequences, SequencesExt

CONSTANTS
  Urls,                         \* normalised URLs, each standing for its host too
  LiteralUrls,                  \* those whose host is an IPv4 address
  NETWORK_HTTP_REDIRECT_LIMIT,
  TIMEOUT,                      \* of a request, in steps of the clock
  CHUNKS,                       \* segments that a GET takes
  HTTP_HANDLE_MAX               \* UINT64_MAX in the code

ASSUME NetworkAssumption ==
  /\ LiteralUrls \subseteq Urls
  /\ {NETWORK_HTTP_REDIRECT_LIMIT, TIMEOUT, CHUNKS, HTTP_HANDLE_MAX} \subseteq Nat \ {0}

None == "none"
Ended == {"COMPLETE", "FAILED", "CANCELED"}
DnsFailures == {"NOT_FOUND", "MALFORMED_RESPONSE", "SERVER_ERROR"}
Blocks == 1 .. 3                \* the heap: a response and the two buffers of a GET

\* struct network_http_request, zeroed.  received is the URL whose connection
\* filled the response buffer; age is the time since started_at_ms, cut at TIMEOUT,
\* while the request is active.
NoRequest ==
  [allocated |-> FALSE, follow_redirects |-> FALSE, dns_started |-> FALSE,
   tcp_initialized |-> FALSE, handle |-> 0, age |-> 0, state |-> "WAITING",
   result |-> "OK", receive_phase |-> "WAITING_FOR_PEER", response_bytes |-> 0,
   request_sent |-> 0, remote_ip |-> None, visited |-> <<>>, received |-> None,
   body |-> None]

NoOp == [kind |-> None, step |-> None, url |-> None, buffers |-> {}]

\* The statics of network.c.  op is the blocking operation the shell is in.
Network(ready, link, dhcp) ==
  [g_stack_ready |-> ready, link |-> link, configured |-> FALSE,
   dhcp |-> dhcp, dns |-> [state |-> "IDLE", name |-> None],
   g_operation_busy |-> FALSE, g_active_tcp_client |-> None, request |-> NoRequest,
   g_next_http_handle |-> 1, heap |-> {},
   op |-> NoOp]

\* network_init: the driver or the stack may not come up; DHCP may not start.
network_init ==
  {Network(FALSE, "gone", "OFF")}
    \cup {Network(TRUE, "up", d) : d \in {"OFF", "ACTIVE"}}
    \cup {Network(TRUE, "down", d) : d \in {"OFF", "ACTIVE"}}

Url(r) == Last(r.visited)

----------------------------------------------------------------------------
(* The stack below, as network.c sees it *)

net_dns_cancel(dns) ==
  IF dns.state = "PENDING" THEN [state |-> "IDLE", name |-> None] ELSE dns

net_dns_clear_result == [state |-> "IDLE", name |-> None]

\* net_dns_query: answered from the cache, asked, or refused; refused for sure
\* without an address of our own unless the cache answers.
net_dns_query(n, name) ==
  {[state |-> s, name |-> name] :
      s \in {"RESOLVED", "NOT_FOUND"} \cup (IF n.configured THEN {"PENDING"} ELSE {})}

\* net_clear_ipv4 gives up a query that waits.
net_clear_ipv4(n) ==
  [n EXCEPT !.configured = FALSE,
            !.dns.state = IF @ = "PENDING" THEN "TIMED_OUT" ELSE @]

\* What net_tick and net_poll may do: a lease is acquired, kept or lost, a query
\* is answered or given up, and segments reach the client that
\* g_active_tcp_client names (network_tcp_input).
StackAfterInput(n) ==
  LET leases == {n} \cup (IF n.dhcp = "ACTIVE" THEN {[n EXCEPT !.configured = TRUE],
                                                     net_clear_ipv4(n)} ELSE {})
      Answered(m) == {m} \cup
        (IF m.dns.state # "PENDING" THEN {}
         ELSE {[m EXCEPT !.dns.state = s] : s \in DnsFailures \cup {"RESOLVED", "TIMED_OUT"}})
      Delivered(m) == {m} \cup
        (IF m.g_active_tcp_client # "request" THEN {}
         ELSE {[m EXCEPT !.request.received = m.request.remote_ip]})
  IN  UNION {UNION {Delivered(m2) : m2 \in Answered(m1)} : m1 \in leases}

\* kmalloc: the first free block, or none.
kmalloc(heap) == {0} \cup {b \in Blocks \ heap : \A c \in Blocks \ heap : b <= c}

\* Two blocks, taken one after the other.
TwoBlocks(heap) ==
  {B \in SUBSET Blocks : \E a \in kmalloc(heap) \ {0} :
                           \E b \in kmalloc(heap \cup {a}) \ {0} : B = {a, b}}

----------------------------------------------------------------------------
(* Ending a request *)

Active(r) == r.allocated /\ r.state \notin Ended

\* Mutant: the connection stays registered for input.
FinishKeepsClient(n, state, result) ==
  [n EXCEPT !.dns = IF n.request.dns_started THEN net_dns_cancel(@) ELSE @,
            !.request = [@ EXCEPT !.dns_started = FALSE, !.state = state,
                                     !.result = result, !.age = 0],
            !.g_operation_busy = FALSE]

network_http_request_finish(n, state, result) ==
  [n EXCEPT !.dns = IF n.request.dns_started THEN net_dns_cancel(@) ELSE @,
            !.g_active_tcp_client = IF @ = "request" THEN None ELSE @,
            !.request = [@ EXCEPT !.dns_started = FALSE, !.state = state,
                                     !.result = result, !.age = 0],
            !.g_operation_busy = FALSE]

Fail(n, result) == network_http_request_finish(n, "FAILED", result)

\* What a client that failed may give as its error; it always gives one.
TcpErrors == {"INVALID_ARGUMENT", "BUSY", "NOT_CONNECTED", "SEND_FAILED", "TIMEOUT",
              "RETRIES_EXHAUSTED", "RESET", "PROTOCOL", "RESPONSE_TOO_LARGE",
              "CLOCK_STALLED", "CLOCK_MOVED_BACKWARD"}

network_map_tcp_error(error) ==
  CASE error \in {"TIMEOUT", "RETRIES_EXHAUSTED", "CLOCK_STALLED"} -> "TIMEOUT"
    [] error = "RESPONSE_TOO_LARGE" -> "RESPONSE_TOO_LARGE"
    [] error \in {"PROTOCOL", "CLOCK_MOVED_BACKWARD"} -> "PROTOCOL_ERROR"
    [] error = "NONE" -> "OK"
    [] OTHER -> "CONNECTION_FAILED"

TcpResults == {network_map_tcp_error(error) : error \in TcpErrors}
TcpFails(n) == {Fail(n, result) : result \in TcpResults}

\* What http_client_build_get, http_client_parse_response and the copy of a redirect's
\* location may complain of; MALFORMED stands for every error that has no other name
\* in network_map_http_error.
BuildErrors == {"INVALID_ARGUMENT", "INVALID_HOST", "INVALID_PATH", "REQUEST_TOO_LARGE"}
ParseErrors == {"HEADER_TOO_LARGE", "CHUNK_METADATA_TOO_LARGE",
                "UNSUPPORTED_TRANSFER_ENCODING", "MALFORMED"}
LocationErrors == {"REDIRECT_LOCATION_TOO_LARGE", "MALFORMED"}

\* network_map_http_error, for a client that has not failed.
network_map_http_error(error) ==
  CASE error = "NONE" -> "OK"
    [] error \in BuildErrors -> "INVALID_ARGUMENT"
    [] error \in {"HEADER_TOO_LARGE", "CHUNK_METADATA_TOO_LARGE",
                  "REDIRECT_LOCATION_TOO_LARGE"} -> "RESPONSE_TOO_LARGE"
    [] error = "UNSUPPORTED_TRANSFER_ENCODING" -> "UNSUPPORTED"
    [] OTHER -> "PROTOCOL_ERROR"

BuildResults == {network_map_http_error(error) : error \in BuildErrors}
ParseResults == {network_map_http_error(error) : error \in ParseErrors}
LocationResults == {network_map_http_error(error) : error \in LocationErrors}
HttpFails(n, results) == {Fail(n, result) : result \in results}

----------------------------------------------------------------------------
(* The phases *)

\* network_http_begin_connect: a fresh client on the same buffer.
network_http_begin_connect(n) ==
  LET m == [n EXCEPT !.request = [@ EXCEPT !.tcp_initialized = TRUE, !.request_sent = 0,
                                           !.received = None, !.state = "CONNECTING"],
                     !.g_active_tcp_client = "request"]
  IN  {m} \cup TcpFails(m)

\* Mutant: the address that is there already is used again.
ResolutionReusesAddress(n) ==
  LET m == [n EXCEPT !.request = [@ EXCEPT !.dns_started = FALSE, !.tcp_initialized = FALSE,
                                           !.state = "RESOLVING"]]
  IN  IF Url(n.request) \in LiteralUrls
      THEN network_http_begin_connect([m EXCEPT !.request.remote_ip = Url(n.request)])
      ELSE IF n.request.remote_ip # None THEN network_http_begin_connect(m)
      ELSE {Fail([m EXCEPT !.dns = net_dns_clear_result], "DNS_FAILED")}
             \cup {[m EXCEPT !.dns = d, !.request.dns_started = TRUE] :
                     d \in net_dns_query(m, Url(n.request))}

network_http_begin_resolution(n) ==
  LET m == [n EXCEPT !.request = [@ EXCEPT !.remote_ip = None, !.dns_started = FALSE,
                                           !.tcp_initialized = FALSE, !.state = "RESOLVING"]]
  IN  IF Url(n.request) \in LiteralUrls
      THEN network_http_begin_connect([m EXCEPT !.request.remote_ip = Url(n.request)])
      ELSE {Fail([m EXCEPT !.dns = net_dns_clear_result], "DNS_FAILED")}
             \cup {[m EXCEPT !.dns = d, !.request.dns_started = TRUE] :
                     d \in net_dns_query(m, Url(n.request))}

DriveConfiguring(n) ==
  IF n.configured THEN network_http_begin_resolution(n)
  ELSE {[n EXCEPT !.dhcp = "ACTIVE", !.request.state = "CONFIGURING"]}
         \cup (IF n.dhcp = "OFF" THEN {Fail(n, "IO_ERROR")} ELSE {})

DriveResolving(n) ==
  LET m == [n EXCEPT !.dns = net_dns_clear_result, !.request.dns_started = FALSE]
  IN  CASE n.dns.state = "RESOLVED" ->
             network_http_begin_connect([m EXCEPT !.request.remote_ip = n.dns.name])
        [] n.dns.state \in DnsFailures -> {Fail(m, "DNS_FAILED")}
        [] n.dns.state = "TIMED_OUT" -> {Fail(m, "TIMEOUT")}
        [] OTHER -> {n}

\* network_http_begin_send: the next segment, or on to the response.
network_http_begin_send(n) ==
  LET next == IF n.request.request_sent >= CHUNKS
              THEN [n EXCEPT !.request = [@ EXCEPT !.state = "RECEIVING",
                                                   !.receive_phase = "WAITING_FOR_PEER"]]
              ELSE [n EXCEPT !.request.state = "SENDING"]
  IN  {next} \cup TcpFails(next) \cup HttpFails(n, BuildResults)

\* The redirect part of network_http_parse_completed_response.  redirect_count is
\* one less than the number of URLs visited.
Redirect(n, location) ==
  IF Len(n.request.visited) > NETWORK_HTTP_REDIRECT_LIMIT THEN Fail(n, "PROTOCOL_ERROR")
  ELSE IF location \notin Urls THEN Fail(n, location)
  ELSE IF location \in ToSet(n.request.visited) THEN Fail(n, "PROTOCOL_ERROR")
  ELSE [n EXCEPT !.request = [@ EXCEPT !.visited = Append(n.request.visited, location),
                                       !.state = "REDIRECTING", !.result = "OK",
                                       !.dns_started = FALSE, !.tcp_initialized = FALSE],
                 !.g_active_tcp_client = None]

\* A complete response is malformed, too long for the application, final, or, when
\* redirects are followed, a redirect to a URL, to one that is refused (https) or
\* to nowhere.  An empty one is malformed.
network_http_parse_completed_response(n) ==
  HttpFails(n, ParseResults)
    \cup {Fail(n, "RESPONSE_TOO_LARGE")}
    \cup (IF n.request.received = None THEN {}
          ELSE {network_http_request_finish([n EXCEPT !.request.body = n.request.received],
                                            "COMPLETE", "OK")}
               \cup (IF ~n.request.follow_redirects THEN {}
                     ELSE HttpFails(n, LocationResults)
                          \cup {Redirect(n, l) : l \in Urls \cup {"UNSUPPORTED", "PROTOCOL_ERROR"}}))

\* What tcp_client_service reports: nothing yet, an error, or the end of the step.
DriveConnecting(n) ==
  {n} \cup TcpFails(n) \cup network_http_begin_send(n)

DriveSending(n) ==
  {n} \cup TcpFails(n)
    \cup network_http_begin_send([n EXCEPT !.request.request_sent = @ + 1])

\* The peer closed: close as well, now or at a later poll, and then parse.
network_http_drive_receiving(n) ==
  {n} \cup TcpFails(n)
    \cup network_http_parse_completed_response(n)
    \cup (IF n.request.receive_phase = "CLOSING_CONNECTION" THEN {}
          ELSE {[n EXCEPT !.request.receive_phase = "CLOSING_CONNECTION"]})

DrivePhase(n) ==
  CASE n.request.state \in {"WAITING", "CONFIGURING"} -> DriveConfiguring(n)
    [] n.request.state = "RESOLVING" -> DriveResolving(n)
    [] n.request.state = "CONNECTING" -> DriveConnecting(n)
    [] n.request.state = "SENDING" -> DriveSending(n)
    [] n.request.state = "RECEIVING" -> network_http_drive_receiving(n)
    [] n.request.state = "REDIRECTING" -> network_http_begin_resolution(n)

\* Mutant: the time a request has taken is not looked at.
DriveUntimed(n) ==
  CASE ~Active(n.request) -> {n}
    [] Active(n.request) /\ n.link = "gone" -> {Fail(n, "NOT_READY")}
    [] Active(n.request) /\ n.link = "down" -> {Fail(n, "LINK_DOWN")}
    [] OTHER -> DrivePhase(n)

network_http_request_drive(n) ==
  LET late == n.request.age = TIMEOUT
  IN  CASE ~Active(n.request) -> {n}
        [] Active(n.request) /\ late -> {Fail(n, "TIMEOUT")}
        [] Active(n.request) /\ ~late /\ n.link = "gone" -> {Fail(n, "NOT_READY")}
        [] Active(n.request) /\ ~late /\ n.link = "down" -> {Fail(n, "LINK_DOWN")}
        [] OTHER -> DrivePhase(n)

\* network_poll
network_poll(n) ==
  IF ~n.g_stack_ready THEN {n}
  ELSE UNION {network_http_request_drive(m) : m \in StackAfterInput(n)}

----------------------------------------------------------------------------
(* The calls of an owner; each yields the state and what it returns *)

HandleAfter(h) == IF h = HTTP_HANDLE_MAX THEN 1 ELSE h + 1

\* network_http_request_start on a URL that parses: [net, handle], 0 when refused.
network_http_request_start(n, url, follow) ==
  IF ~n.g_stack_ready \/ n.link # "up" \/ n.g_operation_busy \/ n.request.allocated
  THEN {[net |-> n, handle |-> 0]}
  ELSE {IF b = 0 THEN [net |-> n, handle |-> 0]
        ELSE [net |-> [n EXCEPT
                !.heap = @ \cup {b},
                !.g_operation_busy = TRUE,
                !.g_next_http_handle = HandleAfter(@),
                !.request = [NoRequest EXCEPT !.allocated = TRUE, !.follow_redirects = follow,
                               !.handle = n.g_next_http_handle, !.state = "CONFIGURING",
                               !.response_bytes = b, !.visited = <<url>>]],
              handle |-> n.g_next_http_handle] : b \in kmalloc(n.heap)}

IsRequest(n, handle) == handle # 0 /\ n.request.allocated /\ n.request.handle = handle

\* network_http_request_get_status, of the handle that names the request; how much of
\* the body has arrived is HttpMessage's.
network_http_request_get_status(n) ==
  [state |-> n.request.state, result |-> n.request.result,
   redirect_count |-> Len(n.request.visited) - 1,
   total_known |-> n.request.state = "COMPLETE"]

\* network_http_request_read: the result and, when it is OK, the body.
network_http_request_read(n, handle) ==
  CASE ~IsRequest(n, handle) -> [result |-> "INVALID_ARGUMENT", body |-> None]
    [] IsRequest(n, handle) /\ n.request.state = "COMPLETE" ->
         [result |-> "OK", body |-> n.request.body]
    [] IsRequest(n, handle) /\ n.request.state = "FAILED" ->
         [result |-> n.request.result, body |-> None]
    [] IsRequest(n, handle) /\ n.request.state = "CANCELED" ->
         [result |-> "CANCELED", body |-> None]
    [] OTHER -> [result |-> "BUSY", body |-> None]

network_http_request_cancel(n, handle) ==
  IF IsRequest(n, handle) /\ Active(n.request)
  THEN network_http_request_finish(n, "CANCELED", "CANCELED") ELSE n

\* Mutant: a request that is still active is closed without being canceled.
CloseWithoutCancel(n, handle) ==
  [n EXCEPT !.request = NoRequest, !.heap = @ \ {n.request.response_bytes}]

\* network_http_request_close, of the handle that names the request.
Closed(n, handle) ==
  [network_http_request_cancel(n, handle) EXCEPT
     !.request = NoRequest, !.heap = @ \ {n.request.response_bytes}]

----------------------------------------------------------------------------
(* Blocking operations.  They poll the network themselves; no other task runs  *)
(* until they return.                                                          *)

\* An operation returns; each return path gives the flag back.
Return(n) == [n EXCEPT !.op = NoOp, !.g_operation_busy = FALSE]

\* network_ping sends its echo request; network_http_get takes two buffers and
\* registers a client on its own stack; a lookup is done.
AfterResolved(n) ==
  {Return(n)} \cup
  CASE n.op.kind = "ping" -> {[n EXCEPT !.op.step = "echo"]}
    [] n.op.kind = "get" ->
         {[n EXCEPT !.op = [@ EXCEPT !.step = "tcp", !.buffers = B],
                    !.g_active_tcp_client = "get", !.heap = @ \cup B] :
            B \in TwoBlocks(n.heap)}
    [] n.op.kind = "resolve" -> {}

\* network_resolve_internal for a name.
EnterResolve(n) ==
  {Return([n EXCEPT !.dns = net_dns_clear_result])}
    \cup {[n EXCEPT !.op.step = "resolve", !.dns = d] : d \in net_dns_query(n, n.op.url)}

AfterConfigured(n) ==
  CASE n.op.kind = "dhcp" -> {Return(n)}
    [] n.op.kind # "dhcp" /\ n.op.url \in LiteralUrls -> AfterResolved(n)
    [] OTHER -> EnterResolve(n)

\* network_require_configuration: done at once, refused, or by polling.
EnterConfigure(n, kind, url) ==
  LET m == [n EXCEPT !.op = [NoOp EXCEPT !.kind = kind, !.url = url, !.step = "configure"]]
  IN  CASE ~n.g_stack_ready -> {Return(m)}
        [] n.g_stack_ready /\ n.configured -> AfterConfigured(m)
        [] OTHER -> {[m EXCEPT !.dhcp = "ACTIVE"]}
                      \cup (IF n.dhcp = "OFF" THEN {Return(m)} ELSE {})

\* The start of each operation, when nothing holds the flag: the shell's dhcp command
\* starts afresh; a lookup, alone or for a ping, needs no configuration for a literal
\* address; a GET always does.
network_renew_dhcp(n) ==
  LET b == [n EXCEPT !.g_operation_busy = TRUE]
  IN  IF ~n.g_stack_ready THEN {n}
      ELSE {Return(net_clear_ipv4([b EXCEPT !.dhcp = "OFF"]))}
             \cup EnterConfigure(net_clear_ipv4([b EXCEPT !.dhcp = "ACTIVE"]), "dhcp", None)

Lookup(n, kind, url) ==
  LET b == [n EXCEPT !.g_operation_busy = TRUE]
  IN  IF url \in LiteralUrls
      THEN AfterResolved([b EXCEPT !.op = [NoOp EXCEPT !.kind = kind, !.url = url]])
      ELSE EnterConfigure(b, kind, url)

network_http_get(n, url) == EnterConfigure([n EXCEPT !.g_operation_busy = TRUE], "get", url)

BlockingCall(n, kind, url) ==
  CASE kind = "dhcp" -> network_renew_dhcp(n)
    [] kind \in {"resolve", "ping"} -> Lookup(n, kind, url)
    [] kind = "get" -> network_http_get(n, url)

\* What an operation undoes before it returns: the resolver is cleared after a
\* lookup, the client of a GET is unregistered and its buffers are freed.
GiveUp(n) ==
  Return([n EXCEPT !.dns = IF n.op.step = "resolve" THEN net_dns_clear_result ELSE @,
                   !.g_active_tcp_client = IF n.op.step = "tcp" THEN None ELSE @,
                   !.heap = @ \ n.op.buffers])

\* http_client_get: connects, sends, waits for the peer to close, closes and parses;
\* TcpClient and HttpMessage have how.
http_client_get(n) == {n, GiveUp(n)}

\* After each poll of its loop an operation goes on, or gives up when the timeout
\* has passed or the answer was no.
BlockingStep(n) ==
  CASE n.op.step = "configure" /\ n.configured -> AfterConfigured(n)
    [] n.op.step = "resolve" /\ n.dns.state = "RESOLVED" ->
         AfterResolved([n EXCEPT !.dns = net_dns_clear_result])
    [] n.op.step = "resolve" /\ n.dns.state \in DnsFailures \cup {"TIMED_OUT"} -> {GiveUp(n)}
    [] n.op.step = "tcp" -> http_client_get(n)
    [] OTHER -> {n, GiveUp(n)}
=============================================================================
