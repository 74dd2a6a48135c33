----------------------------- MODULE AppNetwork -----------------------------
(***************************************************************************)
(* HTTP requests of applications: kernel/app_network_services.c on top of   *)
(* kernel/network.c.  Applications start, read, cancel and close the one    *)
(* request, and die; the shell runs its blocking operations; the idle loops *)
(* poll the network; the link and the clock move on their own.              *)
(*                                                                         *)
(* A system call runs with interrupts off and a kernel task is not          *)
(* preempted, so a call is one step.  While a blocking operation runs, only *)
(* its own polls do.                                                        *)
(***************************************************************************)
EXTENDS NetworkService

CONSTANTS
  Processes,
  APP_HANDLE_MAX,     \* INT64_MAX in the code
  CloseMayFail        \* TRUE: the backend may refuse to close a request for a time

ASSUME AppNetworkAssumption ==
  /\ 0 \notin Processes
  /\ APP_HANDLE_MAX \in Nat \ {0}
  /\ CloseMayFail \in BOOLEAN

VARIABLES
  net,            \* network.c: see NetworkService
  g_request,      \* app_network_services.c
  g_next_handle,
  alive           \* the processes that run

vars == <<net, g_request, g_next_handle, alive>>

NoRecord == [in_use |-> FALSE, cleanup_pending |-> FALSE, process_id |-> 0,
             app_handle |-> 0, network_handle |-> 0]

Init ==
  /\ net \in network_init
  /\ g_request = NoRecord
  /\ g_next_handle = 1
  /\ alive = {}

----------------------------------------------------------------------------
\* network_http_request_close as its callers see it: the states it may leave.
\* A handle that names nothing is refused.
CloseOutcomes(n, handle) ==
  (IF IsRequest(n, handle) THEN {[net |-> Closed(n, handle), ok |-> TRUE]} ELSE {})
    \cup (IF CloseMayFail \/ ~IsRequest(n, handle)
          THEN {[net |-> n, ok |-> FALSE]} ELSE {})

\* Mutant: the record of a dead process is dropped even if its request stays open.
RetiredForgets(n, handle) ==
  {[net |-> c.net, record |-> NoRecord] :
     c \in CloseOutcomes(network_http_request_cancel(n, handle), handle)}

\* Cancel and close, with the record that remains: none, or one whose cleanup is
\* owed and that no process owns.
Retired(n, handle) ==
  {[net |-> c.net,
    record |-> IF c.ok THEN NoRecord
               ELSE [NoRecord EXCEPT !.cleanup_pending = TRUE, !.network_handle = handle]] :
     c \in CloseOutcomes(network_http_request_cancel(n, handle), handle)}

\* retry_pending_cleanup
retry_pending_cleanup(n, record) ==
  IF record.cleanup_pending THEN Retired(n, record.network_handle)
  ELSE {[net |-> n, record |-> record]}

\* find_record
find_record(p, handle) ==
  g_request.in_use /\ g_request.process_id = p /\ g_request.app_handle = handle

\* allocate_handle
NextAppHandle == IF g_next_handle = APP_HANDLE_MAX THEN 1 ELSE g_next_handle + 1

Idle == net.op = NoOp

----------------------------------------------------------------------------
(* System calls.  Those that only read, status and read, are functions of the  *)
(* state and change nothing.                                                   *)

app_request_error(result) ==
  CASE result = "OK" -> "NONE"
    [] result = "INVALID_ARGUMENT" -> "INVALID_URL"
    [] result = "DNS_FAILED" -> "DNS"
    [] result = "CONNECTION_FAILED" -> "CONNECTION"
    [] result = "PROTOCOL_ERROR" -> "PROTOCOL"
    [] result = "IO_ERROR" -> "IO"
    [] OTHER -> result              \* the other names are the same

\* dispatch_status with a place to write to: what the application is told, or an error.
dispatch_status(p, handle) ==
  LET status == network_http_request_get_status(net)
  IN  IF ~find_record(p, handle) THEN [error |-> "BAD_HANDLE"]
      ELSE IF ~IsRequest(net, g_request.network_handle)
                \/ status.redirect_count > NETWORK_HTTP_REDIRECT_LIMIT
      THEN [error |-> "IO_ERROR"]
      ELSE [state |-> status.state, total_known |-> status.total_known,
            error |-> IF status.state = "CANCELED" THEN "CANCELED"
                      ELSE app_request_error(status.result)]

\* dispatch_read within the capacity: the body, or an error.
dispatch_read(p, handle) ==
  LET read == network_http_request_read(net, g_request.network_handle)
  IN  IF ~find_record(p, handle) THEN [error |-> "BAD_HANDLE"]
      ELSE CASE read.result = "OK" -> [body |-> read.body]
             [] read.result = "BUSY" -> [error |-> "WOULD_BLOCK"]
             [] read.result = "INVALID_ARGUMENT" -> [error |-> "INVALID_ARGUMENT"]
             [] OTHER -> [error |-> "IO_ERROR"]

\* dispatch_start: the cleanup first; then the record must be free, the arguments
\* in order (valid), and the backend willing.
dispatch_start(p, url, follow, valid) ==
  /\ Idle /\ p \in alive
  /\ \E r \in retry_pending_cleanup(net, g_request) :
       IF r.record.cleanup_pending \/ r.record.in_use \/ ~valid
       THEN /\ net' = r.net /\ g_request' = r.record
            /\ UNCHANGED g_next_handle
       ELSE \E b \in network_http_request_start(r.net, url, follow) :
              /\ net' = b.net
              /\ IF b.handle = 0
                 THEN g_request' = NoRecord /\ UNCHANGED g_next_handle
                 ELSE /\ g_request' = [in_use |-> TRUE, cleanup_pending |-> FALSE,
                                       process_id |-> p, app_handle |-> g_next_handle,
                                       network_handle |-> b.handle]
                      /\ g_next_handle' = NextAppHandle
  /\ UNCHANGED alive

\* dispatch_cancel
dispatch_cancel(p, handle) ==
  /\ Idle /\ p \in alive /\ find_record(p, handle)
  /\ net' = network_http_request_cancel(net, g_request.network_handle)
  /\ UNCHANGED <<g_request, g_next_handle, alive>>

\* dispatch_close: the record goes only if the backend closed.
dispatch_close(p, handle) ==
  /\ Idle /\ p \in alive /\ find_record(p, handle)
  /\ \E c \in CloseOutcomes(net, g_request.network_handle) :
       /\ net' = c.net
       /\ g_request' = IF c.ok THEN NoRecord ELSE g_request
  /\ UNCHANGED <<g_next_handle, alive>>

\* The system calls of a process that change something.
app_network_services_dispatch(p) ==
  \/ \E url \in Urls, follow, valid \in BOOLEAN : dispatch_start(p, url, follow, valid)
  \/ \E h \in 1 .. APP_HANDLE_MAX : dispatch_cancel(p, h) \/ dispatch_close(p, h)

\* A process is launched.
Launch(p) ==
  /\ Idle /\ p \notin alive
  /\ alive' = alive \cup {p}
  /\ UNCHANGED <<net, g_request, g_next_handle>>

\* A process ends: app_network_services_release_process.
app_network_services_release_process(p) ==
  /\ Idle /\ p \in alive
  /\ alive' = alive \ {p}
  /\ IF g_request.in_use /\ g_request.process_id = p
     THEN \E r \in Retired(net, g_request.network_handle) :
            net' = r.net /\ g_request' = r.record
     ELSE UNCHANGED <<net, g_request>>
  /\ UNCHANGED g_next_handle

----------------------------------------------------------------------------
(* The kernel *)

\* The idle loops of the shell and the desktop, and the loop of a blocking
\* operation, poll the network.
Poll ==
  /\ \E m \in network_poll(net) :
       IF Idle THEN net' = m ELSE net' \in BlockingStep(m)
  /\ UNCHANGED <<g_request, g_next_handle, alive>>

\* A shell command starts a blocking operation; it is refused while the flag is set.
Block(kind, url) ==
  /\ Idle /\ ~net.g_operation_busy
  /\ net' \in BlockingCall(net, kind, url)
  /\ UNCHANGED <<g_request, g_next_handle, alive>>

\* The cable is pulled or plugged in, or the device fails for good.
LinkChanges(l) ==
  /\ net.link \notin {l, "gone"}
  /\ net' = [net EXCEPT !.link = l]
  /\ UNCHANGED <<g_request, g_next_handle, alive>>

\* The clock moves on under an active request.
ClockTicks ==
  /\ Active(net.request) /\ net.request.age < TIMEOUT
  /\ net' = [net EXCEPT !.request.age = @ + 1]
  /\ UNCHANGED <<g_request, g_next_handle, alive>>

Next ==
  \/ \E p \in Processes :
       \/ app_network_services_dispatch(p)
       \/ Launch(p)
       \/ app_network_services_release_process(p)
  \/ Poll
  \/ \E kind \in {"dhcp", "resolve", "ping", "get"}, url \in Urls : Block(kind, url)
  \/ \E l \in {"up", "down", "gone"} : LinkChanges(l)
  \/ ClockTicks

\* The idle loops keep polling and the timer keeps ticking.
Fairness == WF_vars(Poll) /\ WF_vars(ClockTicks)

Spec == Init /\ [][Next]_vars /\ Fairness

----------------------------------------------------------------------------
(* Properties *)

\* The flag is set exactly while an operation owns it, the active request or the
\* blocking call, and the resolver asks only for that owner, about its own host.
\* Left set, no program could use the network again before a reboot; cleared early,
\* or with a question left behind, two operations would share the resolver and the
\* client, and one could find an answer that was not for it.
BusyHasOneOwner ==
  /\ net.g_operation_busy <=> (Active(net.request) \/ ~Idle)
  /\ ~(Active(net.request) /\ ~Idle)
  /\ net.dns.state = "PENDING" => net.request.dns_started \/ net.op.step = "resolve"
  /\ net.request.dns_started =>
       net.request.state = "RESOLVING" /\ net.dns.name = Url(net.request)
  /\ net.op.step = "resolve" => net.dns.name = net.op.url

\* Segments are delivered only into a client whose buffer is allocated and whose
\* operation still runs, and the heap holds what a request or a GET owns and
\* nothing else, across redirects, cancellation, timeouts and process death.
InputHasALiveBuffer ==
  /\ net.g_active_tcp_client = "request" =>
       /\ net.request.response_bytes \in net.heap
       /\ net.request.state \in {"CONNECTING", "SENDING", "RECEIVING"}
  /\ net.g_active_tcp_client = "get" =>
       net.op.step = "tcp" /\ net.op.buffers \subseteq net.heap /\ net.op.buffers # {}
  /\ net.heap = ({net.request.response_bytes} \ {0}) \cup net.op.buffers

\* A request of the backend is always reachable through the record, whose owner is
\* alive, or whose cleanup is owed to the next start; and the record always names
\* a request.  A request that nobody can name would block the network for good.
BackendIsNeverOrphaned ==
  /\ net.request.allocated <=> g_request.in_use \/ g_request.cleanup_pending
  /\ net.request.allocated => g_request.network_handle = net.request.handle
  /\ g_request.in_use => g_request.process_id \in alive /\ ~g_request.cleanup_pending
  /\ g_request.cleanup_pending => ~Active(net.request)

\* What an application is told of its request is true at every moment: it reads a body
\* exactly once the request is complete, and that body came from the URL the redirects
\* led to, over a connection to that URL's host; it is told to come back exactly while
\* the request is under way, so it does not wait for one that ended; and a request
\* that failed or was canceled never looks like an empty document, whichever of the
\* parts failed (dispatch_status and dispatch_read over the error tables of network.c).
OwnerSeesItsRequest ==
  \A p \in alive, h \in 1 .. APP_HANDLE_MAX : find_record(p, h) =>
    LET status == dispatch_status(p, h)
        read == dispatch_read(p, h)
    IN  /\ status.error # "IO_ERROR"
        /\ status.error = "NONE" <=> status.state \notin {"FAILED", "CANCELED"}
        /\ "body" \in DOMAIN read <=> status.state = "COMPLETE"
        /\ "body" \in DOMAIN read =>
             read.body = Url(net.request) /\ net.request.remote_ip = Url(net.request)
        /\ read = [error |-> "WOULD_BLOCK"] <=> Active(net.request)

\* Every request ends, whatever the peer, the resolver and the redirects do.
EveryRequestEnds == Active(net.request) ~> ~Active(net.request)
=============================================================================
