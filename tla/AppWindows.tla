----------------------------- MODULE AppWindows -----------------------------
(***************************************************************************)
(* Retained application windows: the window, focus, pointer and input half  *)
(* of kernel/app_services.c, with the key ring of kernel/keyboard.c.        *)
(*                                                                         *)
(* System calls run with interrupts off and the desktop is a cooperative    *)
(* kernel task, so every service call is one step; what interleaves are the *)
(* calls of several applications, of the desktop and of the launcher, the   *)
(* death of processes, and the key and mouse interrupts between any two.    *)
(*                                                                         *)
(* Positions and sizes are left out: a snapshot of the mouse says which     *)
(* windows are under the pointer and on which part of its target it is, and *)
(* may say anything, as windows may be anywhere.                            *)
(***************************************************************************)
EXTENDS Integers, Sequences, FiniteSets

CONSTANTS
  APP_WINDOW_CAPACITY,
  APP_WINDOWS_PER_PROCESS,
  APP_INPUT_QUEUE_CAPACITY,
  KeyRingSize,       \* SCANCODE_BUFFER_SIZE - 1: the keys the ring can hold
  HandleMax,         \* UINT64_MAX in the code
  ZOrderMax,         \* UINT64_MAX in the code
  ProcessIdMax,      \* bound: processes launched
  RightButton        \* FALSE: the right button is never pressed

ASSUME AppWindowsAssumption ==
  /\ APP_WINDOW_CAPACITY \in Nat \ {0}
  /\ APP_WINDOWS_PER_PROCESS \in Nat \ {0}
  /\ APP_INPUT_QUEUE_CAPACITY \in Nat \ {0}
  /\ KeyRingSize \in Nat \ {0}
  /\ HandleMax \in Nat \ {0}
  /\ ZOrderMax \in Nat \ {0}
  /\ ProcessIdMax \in Nat \ {0}
  /\ RightButton \in BOOLEAN

Slots     == 1 .. APP_WINDOW_CAPACITY
Processes == 1 .. ProcessIdMax
Handles   == 0 .. HandleMax

Buttons == [left_button : BOOLEAN,
            right_button : IF RightButton THEN BOOLEAN ELSE {FALSE}]

\* A snapshot: the buttons, whether the pointer moved since the last one, the
\* windows whose frame contains it, and the part of the target it is on, where
\* "content" is any place but the title bar and the close button.
MouseState == [buttons : Buttons, moved : BOOLEAN, under : SUBSET Slots,
               part : {"title", "content", "close"}]

\* A button press or release, a motion, a request to close.
EventTypes == {"BUTTON", "MOTION", "CLOSE"}

Window == [handle : Handles, process_id : 0 .. ProcessIdMax,
           z_order : 0 .. ZOrderMax, input_queue : Seq(EventTypes),
           dragging : BOOLEAN]

\* A cleared record; in_use is handle # 0.
ClearedWindow == [handle |-> 0, process_id |-> 0, z_order |-> 0,
                  input_queue |-> <<>>, dragging |-> FALSE]

VARIABLES
  svc,      \* the statics of app_services.c and the key ring: see Init
  alive     \* the processes that run; a process id is used once

vars == <<svc, alive>>

\* The statics of app_services.c, without the prefix g_ where it only adds length,
\* and the key ring.
Services ==
  [g_windows : [Slots -> Window], g_next_handle : Handles,
   g_next_z_order : 0 .. ZOrderMax,
   focused : Handles, hidden_focused : Handles, launch_focus : 0 .. ProcessIdMax,
   capture : Handles, gesture_consumed : BOOLEAN, desktop_active : BOOLEAN,
   windows_hidden : BOOLEAN, mouse_initialized : BOOLEAN, last_mouse : Buttons,
   keys : Seq(Handles)]

\* A key in the ring is known by the window that had the keyboard when it was
\* pressed, 0 for the shell or the desktop.
Init ==
  /\ svc = [g_windows |-> [i \in Slots |-> ClearedWindow],
            g_next_handle |-> 1, g_next_z_order |-> 1,
            focused |-> 0, hidden_focused |-> 0, launch_focus |-> 0,
            capture |-> 0, gesture_consumed |-> FALSE,
            desktop_active |-> FALSE, windows_hidden |-> FALSE,
            mouse_initialized |-> FALSE,
            last_mouse |-> [left_button |-> FALSE, right_button |-> FALSE],
            keys |-> <<>>]
  /\ alive = [p \in Processes |-> "new"]

----------------------------------------------------------------------------
(* Lookup, z-order and focus: functions of the state v, 0 for NULL *)

InUse(v) == {i \in Slots : v.g_windows[i].handle # 0}

OpenHandles(v) == {v.g_windows[i].handle : i \in InUse(v)}

window_count(v, p) == Cardinality({i \in InUse(v) : v.g_windows[i].process_id = p})

find_window_handle(v, h) ==
  IF h \in OpenHandles(v)
  THEN CHOOSE i \in Slots : v.g_windows[i].handle = h
  ELSE 0

\* The frontmost of a set of windows.
Newest(v, S) ==
  IF S = {} THEN 0
  ELSE CHOOSE i \in S : \A j \in S : v.g_windows[j].z_order <= v.g_windows[i].z_order

top_window_at(v, m) ==
  IF v.windows_hidden THEN 0 ELSE Newest(v, InUse(v) \cap m.under)

has_keyboard_focus(v) ==
  /\ v.desktop_active
  /\ ~v.windows_hidden
  /\ v.focused \in OpenHandles(v)

keyboard_try_pop_byte(v) == [v EXCEPT !.keys = Tail(@)]
keyboard_discard_pending(v) == [v EXCEPT !.keys = <<>>]

\* Fails, and changes nothing, once the z-orders are used up.
CanRaise(v) == v.g_next_z_order # 0

raise_window(v, i) ==
  IF ~CanRaise(v) THEN v
  ELSE [v EXCEPT !.g_windows[i].z_order = v.g_next_z_order,
                 !.g_next_z_order = IF @ = ZOrderMax THEN 0 ELSE @ + 1]

\* Mutant: typed-ahead keys follow the focus.
FocusKeepsKeys(v, i) ==
  LET u == raise_window([v EXCEPT !.launch_focus = 0], i)
  IN IF CanRaise(v) THEN [u EXCEPT !.focused = u.g_windows[i].handle] ELSE u

focus_window(v, i) ==
  LET u == raise_window([v EXCEPT !.launch_focus = 0], i)
      h == u.g_windows[i].handle
  IN IF CanRaise(v) /\ u.focused # h
     THEN [keyboard_discard_pending(u) EXCEPT !.focused = h]
     ELSE u

\* Mutant: a new window comes up in front of the focused one.
PlaceInFront(v, i) == [placed |-> CanRaise(v), v |-> raise_window(v, i)]

\* The focused window, if any, is raised above the new one.
place_window_in_background(v, i) ==
  LET u == raise_window(v, i)
      f == find_window_handle(u, u.focused)
  IN IF ~CanRaise(v)    THEN [placed |-> FALSE, v |-> v]
     ELSE IF f \in {0, i} THEN [placed |-> TRUE, v |-> u]
     ELSE [placed |-> CanRaise(u), v |-> raise_window(u, f)]

\* Mutant: the snapshot taken by Show Desktop keeps naming a closed window.
CloseKeepsHiddenFocus(v, S) ==
  LET gone == {v.g_windows[i].handle : i \in S}
      u == [v EXCEPT
              !.g_windows = [i \in Slots |-> IF i \in S THEN ClearedWindow ELSE @[i]],
              !.capture   = IF @ \in gone THEN 0 ELSE @]
      n == Newest(u, InUse(u))
      w == IF v.focused \notin gone THEN u
           ELSE [keyboard_discard_pending(u) EXCEPT
                   !.launch_focus = 0,
                   !.focused = IF n = 0 THEN 0 ELSE u.g_windows[n].handle]
  IN IF S = {} \/ InUse(w) # {} THEN w ELSE [w EXCEPT !.mouse_initialized = FALSE]

\* close_window for the windows of S, one after the other in any order.  A
\* focused window hands the focus to the frontmost of those that are left, which
\* may itself be in S and hand it on; the last one to have it is the frontmost
\* outside S.
CloseWindows(v, S) ==
  LET gone == {v.g_windows[i].handle : i \in S}
      u == [v EXCEPT
              !.g_windows = [i \in Slots |-> IF i \in S THEN ClearedWindow ELSE @[i]],
              !.capture   = IF @ \in gone THEN 0 ELSE @,
              !.hidden_focused = IF @ \in gone THEN 0 ELSE @]
      n == Newest(u, InUse(u))
      w == IF v.focused \notin gone THEN u
           ELSE [keyboard_discard_pending(u) EXCEPT
                   !.launch_focus = 0,
                   !.focused = IF n = 0 THEN 0 ELSE u.g_windows[n].handle]
  IN IF S = {} \/ InUse(w) # {} THEN w
     ELSE [w EXCEPT !.focused = 0, !.capture = 0, !.mouse_initialized = FALSE]

----------------------------------------------------------------------------
(* Input queues *)

\* Mutant: a full queue makes room by its oldest event, whatever it is.
QueueForgetsClose(q, e) ==
  IF e = "MOTION" /\ q # <<>> /\ q[Len(q)] = "MOTION" THEN q
  ELSE IF Len(q) < APP_INPUT_QUEUE_CAPACITY THEN Append(q, e)
  ELSE IF e = "MOTION" THEN q
  ELSE Append(Tail(q), e)

\* A close request replaces what is queued and keeps later events out; a motion
\* replaces a motion at the end and is dropped by a full queue; a button drops
\* the oldest event of a full queue.
queue_window_input(q, e) ==
  IF e = "CLOSE" THEN <<"CLOSE">>
  ELSE IF \E k \in DOMAIN q : q[k] = "CLOSE" THEN q
  ELSE IF e = "MOTION" /\ q # <<>> /\ q[Len(q)] = "MOTION" THEN q
  ELSE IF Len(q) < APP_INPUT_QUEUE_CAPACITY THEN Append(q, e)
  ELSE IF e = "MOTION" THEN q
  ELSE Append(Tail(q), e)

Queue(v, i, e) == [v EXCEPT !.g_windows[i].input_queue = queue_window_input(@, e)]

dequeue_window_input(v, i) == [v EXCEPT !.g_windows[i].input_queue = Tail(@)]

AskedToClose(w) ==
  IF w.handle = 0 THEN w
  ELSE [w EXCEPT !.input_queue = queue_window_input(@, "CLOSE")]

queue_all_window_close_events(v) ==
  [v EXCEPT !.g_windows = [i \in Slots |-> AskedToClose(@[i])]]

----------------------------------------------------------------------------
(* The pointer *)

NoButton(b) == ~b.left_button /\ ~b.right_button

EndGesture(v) == [v EXCEPT !.capture = 0, !.gesture_consumed = FALSE]

\* The window a press goes to: the owner of the gesture in progress, or else the
\* window under the pointer, unless the other button is already down elsewhere.
\* In the second case the window gets the focus and the gesture.
PressTarget(v, m, otherDown) ==
  IF v.gesture_consumed THEN find_window_handle(v, v.capture)
  ELSE IF otherDown THEN 0
  ELSE top_window_at(v, m)

AfterPress(v, i) ==
  IF i = 0 \/ v.gesture_consumed THEN v
  ELSE [focus_window(v, i) EXCEPT !.capture = v.g_windows[i].handle,
                                  !.gesture_consumed = TRUE]

\* Each change returns the state, the window it is for and whether the title bar
\* swallows it.
LeftPress(v, m) ==
  LET i == PressTarget(v, m, v.last_mouse.right_button)
      u == AfterPress(v, i)
      drag == i # 0 /\ m.part = "title"
  IN [v |-> IF drag THEN [u EXCEPT !.g_windows[i].dragging = TRUE] ELSE u,
      target |-> i, chrome |-> drag,
      event |-> IF m.part = "close" THEN "CLOSE" ELSE "BUTTON"]

LeftRelease(v) ==
  LET i == find_window_handle(v, v.capture)
      drag == i # 0 /\ v.g_windows[i].dragging
  IN [v |-> IF drag THEN [v EXCEPT !.g_windows[i].dragging = FALSE] ELSE v,
      target |-> i, chrome |-> drag, event |-> "BUTTON"]

RightChange(v, m) ==
  LET i == IF m.buttons.right_button
           THEN PressTarget(v, m, v.last_mouse.left_button)
           ELSE find_window_handle(v, v.capture)
  IN [v |-> IF m.buttons.right_button THEN AfterPress(v, i) ELSE v,
      target |-> i, chrome |-> FALSE, event |-> "BUTTON"]

\* A dragged window follows the pointer and is not told.
Motion(v, m) ==
  LET c == find_window_handle(v, v.capture)
      i == IF c = 0 /\ NoButton(m.buttons) THEN top_window_at(v, m) ELSE c
  IN [v |-> v, target |-> i, event |-> "MOTION",
      chrome |-> i # 0 /\ v.g_windows[i].dragging]

\* One snapshot.  Only one button change is handled: a second one is left for
\* the next snapshot, because last_mouse keeps its old value.
publish_pointer_event(v, m) ==
  LET b     == m.buttons
      left  == b.left_button # v.last_mouse.left_button
      right == ~left /\ b.right_button # v.last_mouse.right_button
      r == IF left THEN (IF b.left_button THEN LeftPress(v, m) ELSE LeftRelease(v))
           ELSE IF right THEN RightChange(v, m)
           ELSE Motion(v, m)
      u == [r.v EXCEPT !.last_mouse = IF left THEN [@ EXCEPT !.left_button = b.left_button]
                                      ELSE b]
      w == IF NoButton(b) THEN EndGesture(u) ELSE u
  IN IF ~v.mouse_initialized
     THEN LET f == [v EXCEPT !.last_mouse = b, !.mouse_initialized = TRUE]
          IN IF NoButton(b) THEN EndGesture(f) ELSE f
     ELSE IF b = v.last_mouse /\ ~m.moved THEN v
     ELSE IF r.target = 0 \/ r.chrome THEN w
     ELSE Queue(w, r.target, r.event)

app_services_route_pointer(v, m) ==
  IF v.desktop_active THEN publish_pointer_event(v, m) ELSE v

\* The snapshots that differ for publish_pointer_event: the part matters to a
\* left press only, the place to a press or a motion.
Snapshots ==
  {m \in [buttons : Buttons, moved : BOOLEAN, under : SUBSET InUse(svc),
          part : {"title", "content", "close"}] :
     LET b == m.buttons
         l == svc.last_mouse
     IN /\ m.part = "content" \/ (b.left_button /\ ~l.left_button)
        /\ m.moved \/ (b = l /\ m.under = {})
        /\ m.under = {} \/ b.left_button \/ ~l.left_button}

----------------------------------------------------------------------------
(* System calls of a running application *)

\* allocate_handle, which hands out every handle once.
NextHandle(h) == IF h = HandleMax THEN 0 ELSE h + 1

\* The new window takes the focus if the launch of its process was granted it.
PlaceNewWindow(v, p, i) ==
  IF v.launch_focus = p
  THEN [placed |-> CanRaise(v),
        v |-> focus_window([v EXCEPT !.windows_hidden = FALSE, !.hidden_focused = 0], i)]
  ELSE place_window_in_background(v, i)

\* The first slot that is free, 0 without one or when the process has its share.
allocate_window_slot(v, p) ==
  IF window_count(v, p) >= APP_WINDOWS_PER_PROCESS \/ InUse(v) = Slots THEN 0
  ELSE CHOOSE k \in Slots \ InUse(v) : \A j \in Slots \ InUse(v) : k <= j

\* dispatch_window_create.  Without a slot, memory or a handle it changes
\* nothing; without a z-order the window is closed again.  b is what the mouse holds down.
dispatch_window_create(p, b) ==
  /\ alive[p] = "running"
  /\ svc.desktop_active
  /\ allocate_window_slot(svc, p) # 0
  /\ svc.g_next_handle # 0
  /\ LET i == allocate_window_slot(svc, p)
         u == [svc EXCEPT
                 !.g_next_handle = NextHandle(@),
                 !.g_windows[i] = [ClearedWindow EXCEPT !.handle = svc.g_next_handle,
                                                        !.process_id = p],
                 !.last_mouse = IF svc.mouse_initialized THEN @ ELSE b,
                 !.mouse_initialized = TRUE]
         r == PlaceNewWindow(u, p, i)
     IN svc' = IF r.placed THEN r.v ELSE CloseWindows(r.v, {i})
  /\ UNCHANGED alive

dispatch_window_close(p, i) ==
  /\ alive[p] = "running"
  /\ i \in InUse(svc) /\ svc.g_windows[i].process_id = p
  /\ svc' = CloseWindows(svc, {i})
  /\ UNCHANGED alive

\* dispatch_input_poll: route the mouse, then take the oldest event of the
\* window, or a key if the queue is empty and the window has the focus.
dispatch_input_poll(p, i, m) ==
  /\ alive[p] = "running"
  /\ i \in InUse(svc) /\ svc.g_windows[i].process_id = p
  /\ LET v == app_services_route_pointer(svc, m)
     IN svc' = IF v.g_windows[i].input_queue # <<>>
               THEN dequeue_window_input(v, i)
               ELSE IF /\ v.desktop_active
                       /\ v.focused = v.g_windows[i].handle
                       /\ v.keys # <<>>
               THEN keyboard_try_pop_byte(v)
               ELSE v
  /\ UNCHANGED alive

----------------------------------------------------------------------------
(* The launcher, the end of a process, the desktop and the keyboard *)

app_services_authorize_launch_focus(v, p) ==
  IF v.desktop_active THEN [v EXCEPT !.launch_focus = p] ELSE v

\* The end of app_runtime_spawn_with_argument; mayFocus is the capability
\* APP_CAPABILITY_WINDOW of its manifest.
Launch(p, mayFocus) ==
  /\ alive[p] = "new"
  /\ \A q \in Processes : q < p => alive[q] # "new"
  /\ alive' = [alive EXCEPT ![p] = "running"]
  /\ svc' = IF mayFocus THEN app_services_authorize_launch_focus(svc, p) ELSE svc

\* app_services_release_process, called when a process exits or faults.
app_services_release_process(p) ==
  /\ alive[p] = "running"
  /\ alive' = [alive EXCEPT ![p] = "ended"]
  /\ svc' = CloseWindows([svc EXCEPT !.launch_focus = IF @ = p THEN 0 ELSE @],
                          {i \in InUse(svc) : svc.g_windows[i].process_id = p})

\* The desktop routes the snapshot of a frame.
RoutePointer(m) ==
  /\ svc.desktop_active
  /\ svc' = app_services_route_pointer(svc, m)
  /\ UNCHANGED alive

\* Leaving the desktop begins with a request to every window.
app_services_request_all_windows_close ==
  /\ svc.desktop_active
  /\ svc' = queue_all_window_close_events(svc)
  /\ UNCHANGED alive

app_services_set_windows_hidden(hidden) ==
  /\ svc.desktop_active
  /\ svc.windows_hidden # hidden
  /\ LET v == [keyboard_discard_pending(svc) EXCEPT !.launch_focus = 0,
                                                    !.windows_hidden = hidden]
     IN svc' = IF hidden
               THEN [v EXCEPT !.hidden_focused = v.focused, !.focused = 0]
               ELSE [v EXCEPT !.focused =
                                IF v.hidden_focused \in OpenHandles(v)
                                THEN v.hidden_focused ELSE 0,
                              !.hidden_focused = 0]
  /\ UNCHANGED alive

\* app_services_set_desktop_active(true), when gui_demo_run starts.
ActivateDesktop ==
  /\ ~svc.desktop_active
  /\ svc' = [svc EXCEPT !.desktop_active = TRUE, !.mouse_initialized = FALSE]
  /\ UNCHANGED alive

\* app_services_set_desktop_active(false).  gui_demo_run calls it only when no
\* window is left.
DeactivateDesktop ==
  /\ svc.desktop_active
  /\ InUse(svc) = {}
  /\ LET v == [EndGesture(keyboard_discard_pending(svc)) EXCEPT
                 !.desktop_active = FALSE, !.mouse_initialized = FALSE,
                 !.focused = 0, !.hidden_focused = 0, !.launch_focus = 0,
                 !.windows_hidden = FALSE]
     IN svc' = queue_all_window_close_events(v)
  /\ UNCHANGED alive

\* A click on the desktop or on one of its own windows.
app_services_blur_keyboard_focus ==
  /\ svc.desktop_active
  /\ LET v == [svc EXCEPT !.launch_focus = 0]
     IN svc' = IF v.focused # 0 \/ v.hidden_focused # 0
               THEN [keyboard_discard_pending(v) EXCEPT !.focused = 0,
                                                        !.hidden_focused = 0]
               ELSE v
  /\ UNCHANGED alive

\* IRQ 1; a full ring drops the key.
keyboard_push_byte ==
  /\ Len(svc.keys) < KeyRingSize
  /\ svc' = [svc EXCEPT !.keys =
               Append(@, IF has_keyboard_focus(svc) THEN svc.focused ELSE 0)]
  /\ UNCHANGED alive

\* The shell or the desktop takes a key; the desktop does so only while no
\* application has the keyboard.
KernelReadsKey ==
  /\ svc.keys # <<>>
  /\ ~has_keyboard_focus(svc)
  /\ svc' = keyboard_try_pop_byte(svc)
  /\ UNCHANGED alive

Next ==
  \/ \E p \in Processes :
       \/ \E b \in BOOLEAN : Launch(p, b)
       \/ app_services_release_process(p)
       \/ \E b \in Buttons : dispatch_window_create(p, b)
       \/ \E i \in Slots : dispatch_window_close(p, i)
       \/ \E i \in Slots, m \in Snapshots : dispatch_input_poll(p, i, m)
  \/ \E m \in Snapshots : RoutePointer(m)
  \/ app_services_request_all_windows_close
  \/ \E b \in BOOLEAN : app_services_set_windows_hidden(b)
  \/ ActivateDesktop
  \/ DeactivateDesktop
  \/ app_services_blur_keyboard_focus
  \/ keyboard_push_byte
  \/ KernelReadsKey

Spec == Init /\ [][Next]_vars

----------------------------------------------------------------------------
(* Properties *)

\* The focus, the focus that Show Desktop saved and the pointer capture name an
\* open window or nothing; no window has the focus while windows are hidden or
\* the desktop is gone.
FocusNamesWindow(v) ==
  /\ v.focused \in OpenHandles(v) \cup {0}
  /\ v.hidden_focused \in OpenHandles(v) \cup {0}
  /\ v.capture \in OpenHandles(v) \cup {0}
  /\ v.windows_hidden \/ ~v.desktop_active => v.focused = 0
  /\ ~v.windows_hidden => v.hidden_focused = 0

\* Every window and the launch grant belong to a running process.
OwnersAreAlive ==
  /\ \A i \in InUse(svc) : alive[svc.g_windows[i].process_id] = "running"
  /\ svc.launch_focus # 0 => alive[svc.launch_focus] = "running"

\* No two windows answer to one handle or lie at one depth.
WindowsAreDistinct ==
  \A i, j \in InUse(svc) :
    i # j => /\ svc.g_windows[i].handle # svc.g_windows[j].handle
             /\ svc.g_windows[i].z_order # svc.g_windows[j].z_order

\* A window is attached to the pointer only while it owns a gesture whose left
\* button is down, and a gesture's owner never outlives the gesture.
DragHasCapture ==
  /\ svc.capture # 0 => svc.gesture_consumed
  /\ \A i \in InUse(svc) :
       svc.g_windows[i].dragging =>
         /\ svc.g_windows[i].handle = svc.capture
         /\ svc.last_mouse.left_button

\* After any interleaving of closes, exits, faults, clicks, drags and Show Desktop,
\* and through the last handle and depth, no static of app_services.c refers to a
\* closed window, to the wrong one or to a dead process, and no window stays attached
\* to the pointer.
NothingDangles ==
  FocusNamesWindow(svc) /\ OwnersAreAlive /\ WindowsAreDistinct /\ DragHasCapture

\* Keys never change hands: whatever is in the ring was typed for the window (or
\* the desktop) that will now read it, because every change of focus in
\* app_services.c discards what is pending.
KeysBelongTo(v) == \A k \in DOMAIN v.keys : v.keys[k] = v.focused

KeysBelongToFocus == KeysBelongTo(svc)

\* A request to close is never lost: it stays in the queue of its window, in
\* front of and instead of everything else, until the application takes it.
CloseRequestKept ==
  [][\A i \in Slots :
       /\ <<"CLOSE">> = svc.g_windows[i].input_queue
       /\ svc'.g_windows[i].handle = svc.g_windows[i].handle
       => svc'.g_windows[i].input_queue \in {<<"CLOSE">>, <<>>}]_svc

IsTop(v, h) ==
  \A i, j \in InUse(v) :
    v.g_windows[i].handle = h => v.g_windows[j].z_order <= v.g_windows[i].z_order

\* An application cannot take the keyboard by itself.  The focus moves to a
\* window only by a press on it, by the grant of its launch, when the focused
\* window closes, or when Show Desktop ends; and no step that leaves the focus
\* where it is puts another window in front of it.
NoFocusStealing ==
  [][LET new == svc'.focused
         i == find_window_handle(svc', new)
     IN IF new = svc.focused
        THEN new # 0 /\ IsTop(svc, new) => IsTop(svc', new)
        ELSE \/ new = 0
             \/ svc'.capture = new /\ svc.capture = 0
             \/ svc.launch_focus = svc'.g_windows[i].process_id
             \/ svc.focused # 0 /\ svc.focused \notin OpenHandles(svc')
             \/ svc.windows_hidden /\ new = svc.hidden_focused]_svc

\* A gesture that an application owns lasts "from an app-owned button press
\* through its matching release": with both buttons up there is none.
GestureEndsAtRelease ==
  svc.gesture_consumed /\ svc.mouse_initialized => ~NoButton(svc.last_mouse)
=============================================================================
