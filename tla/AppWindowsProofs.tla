-------------------------- MODULE AppWindowsProofs --------------------------
(***************************************************************************)
(* Proofs about the windows of app_services.c, for every number of windows, *)
(* processes, handles, depths, keys and queued events: nothing dangles, the *)
(* keys in the ring belong to whoever has the focus, and a request to close *)
(* is not lost.                                                             *)
(*                                                                         *)
(* Every service function is a function of the statics v.  Sound(v) gathers *)
(* what the functions need of each other; one lemma per function shows that *)
(* it keeps Sound.                                                          *)
(***************************************************************************)
EXTENDS AppWindows, WellFoundedInduction, TLAPS

----------------------------------------------------------------------------
(* The inductive invariant, as predicates of the statics *)

Win(v, i) == v.g_windows[i]

\* No two windows share a handle or a depth, and both counters are ahead of
\* everything they have handed out until they stop at 0.
Numbered(v) ==
  /\ \A i, j \in InUse(v) : i # j => /\ Win(v, i).handle # Win(v, j).handle
                                     /\ Win(v, i).z_order # Win(v, j).z_order
  /\ v.g_next_handle # 0 => \A i \in InUse(v) : Win(v, i).handle < v.g_next_handle
  /\ v.g_next_z_order # 0 => \A i \in InUse(v) : Win(v, i).z_order < v.g_next_z_order

\* Every window outside S has been placed at a depth.
PlacedBut(v, S) == \A i \in InUse(v) \ S : Win(v, i).z_order # 0

\* A window is attached to the pointer only while it owns the gesture.
Attached(v) ==
  /\ v.capture # 0 => v.gesture_consumed
  /\ \A i \in InUse(v) : Win(v, i).dragging => Win(v, i).handle = v.capture

\* ... and the left button is down.
HeldDown(v) == \A i \in InUse(v) : Win(v, i).dragging => v.last_mouse.left_button

\* Without the desktop, or before the first snapshot of the mouse, there is no
\* window.
WindowsNeedDesktop(v) == ~v.desktop_active \/ ~v.mouse_initialized => InUse(v) = {}

Core(v) ==
  /\ v \in Services
  /\ FocusNamesWindow(v)
  /\ KeysBelongTo(v)
  /\ Numbered(v)
  /\ Attached(v)
  /\ WindowsNeedDesktop(v)

Sound(v) == Core(v) /\ HeldDown(v) /\ PlacedBut(v, {})

\* The windows and the launch grant belong to processes of R.
OwnedBy(v, R) ==
  /\ \A i \in InUse(v) : Win(v, i).process_id \in R
  /\ v.launch_focus \in R \cup {0}

Running == {p \in Processes : alive[p] = "running"}

IInv ==
  /\ alive \in [Processes -> {"new", "running", "ended"}]
  /\ Sound(svc)
  /\ OwnedBy(svc, Running)

----------------------------------------------------------------------------
(* Facts about the types and the lookups *)

LEMMA WindowFacts ==
  ASSUME NEW v \in Services, NEW i \in Slots
  PROVE  /\ Win(v, i) \in Window
         /\ Win(v, i).handle \in Handles
         /\ Win(v, i).z_order \in 0 .. ZOrderMax
         /\ Win(v, i).process_id \in 0 .. ProcessIdMax
         /\ Win(v, i).dragging \in BOOLEAN
         /\ Win(v, i).input_queue \in Seq(EventTypes)
<1>1. v.g_windows \in [Slots -> Window]
  BY DEF Services
<1>2. Win(v, i) \in Window
  BY <1>1 DEF Win
<1>3. QED
  BY <1>2 DEF Window

LEMMA ZeroIsNotOpen ==
  ASSUME NEW v
  PROVE  0 \notin OpenHandles(v)
BY DEF OpenHandles, InUse

\* The window found for an open handle is in use and has that handle.
LEMMA FoundIsOpen ==
  ASSUME NEW v, NEW h
  PROVE  /\ find_window_handle(v, h) \in InUse(v) \cup {0}
         /\ find_window_handle(v, h) # 0 =>
               Win(v, find_window_handle(v, h)).handle = h
         /\ h \in OpenHandles(v) <=> find_window_handle(v, h) # 0
<1>1. 0 \notin Slots
  BY AppWindowsAssumption DEF Slots
<1>2. CASE h \in OpenHandles(v)
  <2>1. PICK i \in InUse(v) : v.g_windows[i].handle = h
    BY <1>2 DEF OpenHandles
  <2>2. i \in Slots /\ h # 0
    BY <2>1 DEF InUse
  <2>3. /\ find_window_handle(v, h) \in Slots
        /\ v.g_windows[find_window_handle(v, h)].handle = h
    BY <1>2, <2>1, <2>2 DEF find_window_handle
  <2>4. QED
    BY <1>1, <1>2, <2>2, <2>3 DEF InUse, Win
<1>3. CASE h \notin OpenHandles(v)
  BY <1>3 DEF find_window_handle
<1>4. QED
  BY <1>2, <1>3

\* Every slot has the window it had.
Kept(u, v) ==
  \A i \in Slots : /\ Win(u, i).handle = Win(v, i).handle
                   /\ Win(u, i).process_id = Win(v, i).process_id

LEMMA KeptFacts ==
  ASSUME NEW u, NEW v, Kept(u, v)
  PROVE  InUse(u) = InUse(v) /\ OpenHandles(u) = OpenHandles(v)
<1>1. \A i \in Slots : u.g_windows[i].handle = v.g_windows[i].handle
  BY DEF Kept, Win
<1>2. InUse(u) = InUse(v)
  BY <1>1 DEF InUse
<1>3. \A i \in InUse(v) : u.g_windows[i].handle = v.g_windows[i].handle
  BY <1>1 DEF InUse
<1>4. QED
  BY <1>2, <1>3 DEF OpenHandles

\* The statics that no change of a window touches.
SameFocus(u, v) ==
  /\ u.focused = v.focused /\ u.hidden_focused = v.hidden_focused
  /\ u.windows_hidden = v.windows_hidden /\ u.desktop_active = v.desktop_active
  /\ u.keys = v.keys

SameGesture(u, v) ==
  /\ u.capture = v.capture /\ u.gesture_consumed = v.gesture_consumed
  /\ u.mouse_initialized = v.mouse_initialized
  /\ u.last_mouse = v.last_mouse

\* A step that keeps the windows and the focus keeps what is said of the focus.
LEMMA SameFocusFacts ==
  ASSUME NEW u, NEW v, Kept(u, v), SameFocus(u, v),
         FocusNamesWindow(v), KeysBelongTo(v), u.capture \in {v.capture, 0}
  PROVE  FocusNamesWindow(u) /\ KeysBelongTo(u)
BY KeptFacts DEF FocusNamesWindow, KeysBelongTo, SameFocus

----------------------------------------------------------------------------
(* Depth and focus *)

\* raise_window gives a window the next depth, or does nothing.
LEMMA RaiseEffect ==
  ASSUME NEW v \in Services, NEW i \in Slots, CanRaise(v)
  PROVE  LET u == raise_window(v, i)
         IN  /\ u \in Services /\ Kept(u, v) /\ SameFocus(u, v) /\ SameGesture(u, v)
             /\ u.launch_focus = v.launch_focus /\ u.g_next_handle = v.g_next_handle
             /\ u.g_next_z_order =
                  IF v.g_next_z_order = ZOrderMax THEN 0 ELSE v.g_next_z_order + 1
             /\ \A j \in Slots :
                  /\ Win(u, j).z_order = IF j = i THEN v.g_next_z_order ELSE Win(v, j).z_order
                  /\ Win(u, j).dragging = Win(v, j).dragging
                  /\ Win(u, j).input_queue = Win(v, j).input_queue
<1> DEFINE z == v.g_next_z_order
           W == [v.g_windows EXCEPT ![i].z_order = z]
           next == IF z = ZOrderMax THEN 0 ELSE z + 1
           u == [v EXCEPT !.g_windows = W, !.g_next_z_order = next]
<1>1. raise_window(v, i) = u
  BY DEF raise_window
<1>2. z \in 0 .. ZOrderMax /\ next \in 0 .. ZOrderMax
  BY AppWindowsAssumption DEF Services
<1>3. v.g_windows \in [Slots -> Window] /\ v.g_windows[i] \in Window
  BY DEF Services
<1>4. /\ W \in [Slots -> Window]
      /\ \A j \in Slots :
           /\ W[j].handle = v.g_windows[j].handle
           /\ W[j].process_id = v.g_windows[j].process_id
           /\ W[j].z_order = IF j = i THEN z ELSE v.g_windows[j].z_order
           /\ W[j].dragging = v.g_windows[j].dragging
           /\ W[j].input_queue = v.g_windows[j].input_queue
  BY <1>2, <1>3 DEF Window
<1> HIDE DEF W, next
<1>5. /\ u \in Services /\ u.g_windows = W /\ u.g_next_z_order = next
      /\ SameFocus(u, v) /\ SameGesture(u, v)
      /\ u.launch_focus = v.launch_focus /\ u.g_next_handle = v.g_next_handle
  BY <1>2, <1>4 DEF Services, SameFocus, SameGesture
<1>6. QED
  BY <1>1, <1>4, <1>5 DEF Win, Kept, next

\* Depths, events and attachment of every window.
SameDepth(u, v) == \A i \in Slots : Win(u, i).z_order = Win(v, i).z_order

SameInput(u, v) ==
  \A i \in Slots : /\ Win(u, i).dragging = Win(v, i).dragging
                   /\ Win(u, i).input_queue = Win(v, i).input_queue

LEMMA InUseAreSlots ==
  ASSUME NEW v
  PROVE  InUse(v) \subseteq Slots /\ \A i \in InUse(v) : Win(v, i).handle # 0
BY DEF InUse, Win

LEMMA SameGestureFacts ==
  ASSUME NEW u, NEW v, Kept(u, v), SameInput(u, v), SameGesture(u, v),
         u.desktop_active = v.desktop_active
  PROVE  /\ Attached(v) => Attached(u)
         /\ HeldDown(v) => HeldDown(u)
         /\ WindowsNeedDesktop(v) => WindowsNeedDesktop(u)
<1>1. InUse(u) = InUse(v) /\ InUse(v) \subseteq Slots
  BY KeptFacts, InUseAreSlots
<1>2. QED
  BY <1>1 DEF Attached, HeldDown, WindowsNeedDesktop, Kept, SameInput, SameGesture

\* A raised window keeps everything in order and is in front of all others.
LEMMA RaiseKeeps ==
  ASSUME NEW v, Core(v), NEW i \in InUse(v)
  PROVE  LET u == raise_window(v, i)
         IN  /\ Core(u) /\ Kept(u, v) /\ SameFocus(u, v) /\ SameGesture(u, v)
             /\ SameInput(u, v) /\ u.launch_focus = v.launch_focus
             /\ HeldDown(v) => HeldDown(u)
             /\ \A j \in Slots : j # i => Win(u, j).z_order = Win(v, j).z_order
             /\ ~CanRaise(v) => u = v
             /\ CanRaise(v) =>
                  /\ Win(u, i).z_order # 0
                  /\ \A j \in InUse(u) : Win(u, j).z_order <= Win(u, i).z_order
<1> DEFINE u == raise_window(v, i)
<1>1. v \in Services /\ i \in Slots
  BY InUseAreSlots DEF Core
<1>2. CASE ~CanRaise(v)
  <2>1. u = v
    BY <1>2 DEF raise_window
  <2>2. QED
    BY <1>2, <2>1 DEF Kept, SameFocus, SameGesture, SameInput
<1>3. CASE CanRaise(v)
  <2> DEFINE z == v.g_next_z_order
  <2>1. /\ u \in Services /\ Kept(u, v) /\ SameFocus(u, v) /\ SameGesture(u, v)
        /\ u.launch_focus = v.launch_focus /\ u.g_next_handle = v.g_next_handle
        /\ u.g_next_z_order = IF z = ZOrderMax THEN 0 ELSE z + 1
        /\ \A j \in Slots : /\ Win(u, j).z_order = IF j = i THEN z ELSE Win(v, j).z_order
                            /\ Win(u, j).dragging = Win(v, j).dragging
                            /\ Win(u, j).input_queue = Win(v, j).input_queue
    BY <1>1, <1>3, RaiseEffect
  <2>2. z \in 0 .. ZOrderMax /\ z # 0 /\ ZOrderMax \in Nat
    BY <1>1, <1>3, AppWindowsAssumption DEF CanRaise, Services
  <2>3. \A j \in InUse(v) : Win(v, j).z_order \in 0 .. ZOrderMax /\ Win(v, j).z_order < z
    BY <1>1, <1>3, InUseAreSlots, WindowFacts DEF CanRaise, Core, Numbered
  <2>4. InUse(u) = InUse(v) /\ OpenHandles(u) = OpenHandles(v) /\ InUse(v) \subseteq Slots
    BY <2>1, KeptFacts, InUseAreSlots
  <2> HIDE DEF u
  <2>5. Numbered(u)
    <3>1. \A j \in InUse(u) : Win(u, j).handle = Win(v, j).handle
      BY <2>1, <2>4 DEF Kept
    <3>2. \A j \in InUse(u) : Win(u, j).z_order = IF j = i THEN z ELSE Win(v, j).z_order
      BY <2>1, <2>4
    <3>3. ASSUME NEW j \in InUse(u), NEW k \in InUse(u), j # k
          PROVE  Win(u, j).handle # Win(u, k).handle /\ Win(u, j).z_order # Win(u, k).z_order
      <4>1. Win(v, j).handle # Win(v, k).handle /\ Win(v, j).z_order # Win(v, k).z_order
        BY <2>4, <3>3 DEF Core, Numbered
      <4>2. QED
        BY <4>1, <3>1, <3>2, <3>3, <2>2, <2>3, <2>4
    <3>4. u.g_next_handle # 0 => \A j \in InUse(u) : Win(u, j).handle < u.g_next_handle
      BY <2>1, <2>4, <3>1 DEF Core, Numbered
    <3>5. u.g_next_z_order # 0 => \A j \in InUse(u) : Win(u, j).z_order < u.g_next_z_order
      BY <2>1, <2>2, <2>3, <2>4, <3>2
    <3>6. QED
      BY <3>3, <3>4, <3>5 DEF Numbered
  <2>6. FocusNamesWindow(u) /\ KeysBelongTo(u)
    BY <2>1, SameFocusFacts DEF Core, SameGesture
  <2>7. SameInput(u, v) /\ u.desktop_active = v.desktop_active
    BY <2>1 DEF SameInput, SameFocus
  <2>8. Core(u) /\ (HeldDown(v) => HeldDown(u))
    BY <2>1, <2>5, <2>6, <2>7, SameGestureFacts DEF Core
  <2>9. \A j \in InUse(u) : Win(u, j).z_order <= Win(u, i).z_order
    BY <1>1, <2>1, <2>2, <2>3, <2>4
  <2>10. QED
    BY <1>1, <1>3, <2>1, <2>2, <2>7, <2>8, <2>9 DEF u
<1>4. QED
  BY <1>2, <1>3

\* The launch grant is not part of Core.
LEMMA LaunchFocusEffect ==
  ASSUME NEW v, Core(v), NEW p \in 0 .. ProcessIdMax
  PROVE  LET u == [v EXCEPT !.launch_focus = p]
         IN  /\ Core(u) /\ Kept(u, v) /\ SameFocus(u, v) /\ SameGesture(u, v)
             /\ SameInput(u, v) /\ SameDepth(u, v) /\ u.launch_focus = p
             /\ u.g_next_z_order = v.g_next_z_order
             /\ HeldDown(v) => HeldDown(u)
             /\ u.g_windows = v.g_windows
<1> DEFINE u == [v EXCEPT !.launch_focus = p]
<1>1. /\ u \in Services /\ u.g_windows = v.g_windows
      /\ u.g_next_z_order = v.g_next_z_order /\ u.g_next_handle = v.g_next_handle
      /\ SameFocus(u, v) /\ SameGesture(u, v) /\ u.launch_focus = p
  BY DEF Core, Services, SameFocus, SameGesture
<1> HIDE DEF u
<1>2. Kept(u, v) /\ SameInput(u, v) /\ SameDepth(u, v)
  BY <1>1 DEF Kept, SameInput, SameDepth, Win
<1>3. InUse(u) = InUse(v)
  BY <1>2, KeptFacts
<1>4. Numbered(u)
  BY <1>1, <1>3 DEF Core, Numbered, Win
<1>5. FocusNamesWindow(u) /\ KeysBelongTo(u)
  BY <1>1, <1>2, SameFocusFacts DEF Core, SameGesture
<1>6. Core(u) /\ (HeldDown(v) => HeldDown(u))
  BY <1>1, <1>2, <1>4, <1>5, SameGestureFacts DEF Core, SameFocus
<1>7. QED
  BY <1>1, <1>2, <1>6 DEF u

LEMMA KeptIsTransitive ==
  ASSUME NEW u, NEW v, NEW w
  PROVE  /\ Kept(w, u) /\ Kept(u, v) => Kept(w, v)
         /\ SameInput(w, u) /\ SameInput(u, v) => SameInput(w, v)
         /\ SameGesture(w, u) /\ SameGesture(u, v) => SameGesture(w, v)
         /\ SameFocus(w, u) /\ SameFocus(u, v) => SameFocus(w, v)
BY DEF Kept, SameInput, SameGesture, SameFocus

\* focus_window: the window comes to the front and has the focus, unless the
\* depths are used up.
LEMMA FocusEffect ==
  ASSUME NEW v, Core(v), NEW i \in InUse(v), v.desktop_active, ~v.windows_hidden
  PROVE  LET u == focus_window(v, i)
         IN  /\ Core(u) /\ Kept(u, v) /\ SameGesture(u, v) /\ SameInput(u, v)
             /\ u.launch_focus = 0 /\ u.desktop_active /\ ~u.windows_hidden
             /\ HeldDown(v) => HeldDown(u)
             /\ \A j \in Slots : j # i => Win(u, j).z_order = Win(v, j).z_order
             /\ ~CanRaise(v) => u.focused = v.focused /\ SameDepth(u, v)
             /\ CanRaise(v) =>
                  /\ u.focused = Win(v, i).handle
                  /\ Win(u, i).z_order # 0
                  /\ \A j \in InUse(u) : Win(u, j).z_order <= Win(u, i).z_order
<1> DEFINE a == [v EXCEPT !.launch_focus = 0]
           b == raise_window(a, i)
           h == b.g_windows[i].handle
           c == [b EXCEPT !.keys = <<>>, !.focused = h]
           u == focus_window(v, i)
<1>1. /\ Core(a) /\ Kept(a, v) /\ SameFocus(a, v) /\ SameGesture(a, v) /\ SameInput(a, v)
      /\ SameDepth(a, v) /\ a.launch_focus = 0 /\ a.g_next_z_order = v.g_next_z_order
      /\ HeldDown(v) => HeldDown(a)
  <2>1. 0 \in 0 .. ProcessIdMax
    BY AppWindowsAssumption
  <2>2. QED
    BY <2>1, LaunchFocusEffect
<1>2. i \in InUse(a) /\ (CanRaise(a) <=> CanRaise(v))
  BY <1>1, KeptFacts DEF CanRaise
<1> HIDE DEF a
<1>3. /\ Core(b) /\ Kept(b, a) /\ SameFocus(b, a) /\ SameGesture(b, a)
      /\ SameInput(b, a) /\ b.launch_focus = a.launch_focus
      /\ HeldDown(a) => HeldDown(b)
      /\ \A j \in Slots : j # i => Win(b, j).z_order = Win(a, j).z_order
      /\ ~CanRaise(a) => b = a
      /\ CanRaise(a) =>
           /\ Win(b, i).z_order # 0
           /\ \A j \in InUse(b) : Win(b, j).z_order <= Win(b, i).z_order
  BY <1>1, <1>2, RaiseKeeps
<1>4. u = IF CanRaise(v) /\ b.focused # h THEN c ELSE b
  <2>1. [keyboard_discard_pending(b) EXCEPT !.focused = h] = c
    BY <1>3 DEF keyboard_discard_pending, Core, Services
  <2>2. QED
    BY <2>1 DEF focus_window, a
<1> HIDE DEF b, u
<1>5. /\ Kept(b, v) /\ SameGesture(b, v) /\ SameInput(b, v) /\ SameFocus(b, v)
  BY <1>1, <1>3, KeptIsTransitive
<1>6. i \in Slots /\ h = Win(v, i).handle /\ h # 0
  BY <1>5, InUseAreSlots DEF Kept, Win
<1>7. CASE ~(CanRaise(v) /\ b.focused # h)
  <2>1. u = b
    BY <1>4, <1>7
  <2>2. b.launch_focus = 0 /\ b.desktop_active /\ ~b.windows_hidden
    BY <1>1, <1>3, <1>5 DEF SameFocus
  <2>3. \A j \in Slots : j # i => Win(b, j).z_order = Win(v, j).z_order
    BY <1>1, <1>3 DEF SameDepth
  <2>4. ~CanRaise(v) => b.focused = v.focused /\ SameDepth(b, v)
    BY <1>1, <1>2, <1>3, <1>5 DEF SameFocus
  <2>5. CanRaise(v) => b.focused = Win(v, i).handle
    BY <1>6, <1>7
  <2>6. QED
    BY <1>1, <1>2, <1>3, <1>5, <2>1, <2>2, <2>3, <2>4, <2>5 DEF u
<1>8. CASE CanRaise(v) /\ b.focused # h
  <2>1. u = c
    BY <1>4, <1>8
  <2>2. b \in Services /\ h \in Handles
    BY <1>3, <1>6, WindowFacts DEF Core, Win
  <2>3. /\ c \in Services /\ c.g_windows = b.g_windows /\ c.focused = h /\ c.keys = <<>>
        /\ c.g_next_handle = b.g_next_handle /\ c.g_next_z_order = b.g_next_z_order
        /\ SameGesture(c, b) /\ c.hidden_focused = b.hidden_focused
        /\ c.windows_hidden = b.windows_hidden /\ c.desktop_active = b.desktop_active
        /\ c.launch_focus = b.launch_focus
    <3> HIDE DEF h
    <3>1. <<>> \in Seq(Handles)
      OBVIOUS
    <3>2. c \in Services
      BY <2>2, <3>1 DEF Services
    <3>3. QED
      BY <2>2, <3>2 DEF Services, SameGesture
  <2> HIDE DEF c
  <2>4. Kept(c, b) /\ SameInput(c, b) /\ SameDepth(c, b)
    BY <2>3 DEF Kept, SameInput, SameDepth, Win
  <2>5. InUse(c) = InUse(b) /\ OpenHandles(c) = OpenHandles(b)
    BY <2>4, KeptFacts
  <2>6. Numbered(c)
    BY <1>3, <2>3, <2>5 DEF Core, Numbered, Win
  <2>7. h \in OpenHandles(c)
    <3>1. i \in InUse(b)
      BY <1>5, KeptFacts
    <3>2. QED
      BY <3>1, <2>5 DEF OpenHandles
  <2>8. b.desktop_active /\ ~b.windows_hidden
    BY <1>5 DEF SameFocus
  <2>9. FocusNamesWindow(c) /\ KeysBelongTo(c)
    BY <1>3, <2>3, <2>5, <2>7, <2>8 DEF Core, FocusNamesWindow, KeysBelongTo, SameGesture
  <2>10. Core(c) /\ (HeldDown(v) => HeldDown(c))
    BY <1>1, <1>3, <2>3, <2>4, <2>6, <2>9, SameGestureFacts DEF Core
  <2>11. Kept(c, v) /\ SameGesture(c, v) /\ SameInput(c, v)
    BY <1>5, <2>3, <2>4, KeptIsTransitive
  <2>12. \A j \in Slots : j # i => Win(c, j).z_order = Win(v, j).z_order
    BY <1>1, <1>3, <2>4 DEF SameDepth
  <2>13. /\ Win(c, i).z_order # 0
         /\ \A j \in InUse(c) : Win(c, j).z_order <= Win(c, i).z_order
    BY <1>2, <1>3, <1>6, <1>8, <2>4, <2>5, InUseAreSlots DEF SameDepth
  <2>14. c.launch_focus = 0 /\ c.desktop_active /\ ~c.windows_hidden /\ c.focused = Win(v, i).handle
    BY <1>1, <1>3, <1>6, <2>3, <2>8
  <2>15. QED
    BY <1>8, <2>1, <2>10, <2>11, <2>12, <2>13, <2>14 DEF u
<1>9. QED
  BY <1>7, <1>8 DEF u

\* place_window_in_background: the window is behind the focused one, or was not
\* placed and only its own depth changed.
LEMMA BackgroundEffect ==
  ASSUME NEW v, Core(v), NEW i \in InUse(v)
  PROVE  LET r == place_window_in_background(v, i)
             u == r.v
         IN  /\ Core(u) /\ Kept(u, v) /\ SameFocus(u, v) /\ SameGesture(u, v)
             /\ SameInput(u, v) /\ u.launch_focus = v.launch_focus
             /\ HeldDown(v) => HeldDown(u)
             /\ r.placed => /\ PlacedBut(v, {i}) => PlacedBut(u, {})
                            /\ v.focused # Win(v, i).handle => IsTop(u, v.focused)
             /\ PlacedBut(v, {i}) => PlacedBut(u, {i})
             /\ ~r.placed => \A j \in Slots : j # i => Win(u, j).z_order = Win(v, j).z_order
<1> DEFINE a == raise_window(v, i)
           f == find_window_handle(a, a.focused)
           b == raise_window(a, f)
<1>1. i \in Slots
  BY InUseAreSlots
<1>2. CASE ~CanRaise(v)
  <2>1. place_window_in_background(v, i) = [placed |-> FALSE, v |-> v]
    BY <1>2 DEF place_window_in_background
  <2>2. QED
    BY <2>1 DEF Kept, SameFocus, SameGesture, SameInput
<1>3. CASE CanRaise(v)
  <2>1. /\ Core(a) /\ Kept(a, v) /\ SameFocus(a, v) /\ SameGesture(a, v)
        /\ SameInput(a, v) /\ a.launch_focus = v.launch_focus
        /\ HeldDown(v) => HeldDown(a)
        /\ \A j \in Slots : j # i => Win(a, j).z_order = Win(v, j).z_order
        /\ Win(a, i).z_order # 0
    BY <1>3, RaiseKeeps
  <2>2. InUse(a) = InUse(v) /\ InUse(a) \subseteq Slots
    BY <2>1, KeptFacts, InUseAreSlots
  <2>3. PlacedBut(v, {i}) => PlacedBut(a, {})
    BY <2>1, <2>2 DEF PlacedBut
  <2>4. f \in InUse(a) \cup {0} /\ (f # 0 => Win(a, f).handle = v.focused)
    BY <2>1, FoundIsOpen DEF SameFocus
  <2> HIDE DEF a
  <2>5. CASE f \in {0, i}
    <3>1. place_window_in_background(v, i) = [placed |-> TRUE, v |-> a]
      BY <1>3, <2>5 DEF place_window_in_background, a
    <3>2. v.focused # Win(v, i).handle => IsTop(a, v.focused)
      <4> SUFFICES ASSUME v.focused # Win(v, i).handle,
                          NEW j \in InUse(a), Win(a, j).handle = v.focused
                   PROVE  FALSE
        BY DEF IsTop, Win
      <4>1. Win(a, i).handle = Win(v, i).handle
        BY <1>1, <2>1 DEF Kept
      <4>2. f = 0
        BY <2>4, <2>5, <4>1
      <4>3. a.focused = v.focused
        BY <2>1 DEF SameFocus
      <4>4. v.focused \in OpenHandles(a)
        BY DEF OpenHandles, Win
      <4>5. QED
        BY <4>2, <4>3, <4>4, FoundIsOpen
    <3>3. PlacedBut(a, {}) => PlacedBut(a, {i})
      BY DEF PlacedBut
    <3>4. QED
      BY <2>1, <2>3, <3>1, <3>2, <3>3
  <2>6. CASE f \notin {0, i}
    <3>1. place_window_in_background(v, i) = [placed |-> CanRaise(a), v |-> b]
      BY <1>3, <2>6 DEF place_window_in_background, a
    <3>2. f \in InUse(a) /\ Win(a, f).handle = v.focused
      BY <2>4, <2>6
    <3>3. /\ Core(b) /\ Kept(b, a) /\ SameFocus(b, a) /\ SameGesture(b, a)
          /\ SameInput(b, a) /\ b.launch_focus = a.launch_focus
          /\ HeldDown(a) => HeldDown(b)
          /\ \A j \in Slots : j # f => Win(b, j).z_order = Win(a, j).z_order
          /\ ~CanRaise(a) => b = a
          /\ CanRaise(a) =>
               /\ Win(b, f).z_order # 0
               /\ \A j \in InUse(b) : Win(b, j).z_order <= Win(b, f).z_order
      BY <2>1, <3>2, RaiseKeeps
    <3> HIDE DEF b, f
    <3>4. Kept(b, v) /\ SameFocus(b, v) /\ SameGesture(b, v) /\ SameInput(b, v)
      BY <2>1, <3>3, KeptIsTransitive
    <3>5. InUse(b) = InUse(a)
      BY <3>3, KeptFacts
    <3>6. PlacedBut(a, {}) => PlacedBut(b, {})
      <4>1. CASE CanRaise(a)
        BY <2>2, <3>3, <3>5, <4>1 DEF PlacedBut
      <4>2. CASE ~CanRaise(a)
        BY <3>3, <4>2
      <4>3. QED
        BY <4>1, <4>2
    <3>7. CanRaise(a) => IsTop(b, v.focused)
      <4> SUFFICES ASSUME CanRaise(a), NEW j \in InUse(b), NEW k \in InUse(b),
                          Win(b, j).handle = v.focused
                   PROVE  Win(b, k).z_order <= Win(b, j).z_order
        BY DEF IsTop, Win
      <4>1. j \in Slots /\ Win(a, j).handle = v.focused
        BY <2>2, <3>3, <3>5 DEF Kept
      <4>2. j = f
        BY <2>1, <3>2, <3>5, <4>1 DEF Core, Numbered
      <4>3. QED
        BY <3>3, <4>2
    <3>8. PlacedBut(b, {}) => PlacedBut(b, {i})
      BY DEF PlacedBut
    <3>9. ~CanRaise(a) => \A j \in Slots : j # i => Win(b, j).z_order = Win(v, j).z_order
      BY <2>1, <3>3
    <3>10. QED
      BY <2>1, <2>3, <3>1, <3>3, <3>4, <3>6, <3>7, <3>8, <3>9
  <2>7. QED
    BY <2>5, <2>6
<1>4. QED
  BY <1>2, <1>3

----------------------------------------------------------------------------
(* Closing *)

\* A nonempty set of windows has a frontmost one.
LEMMA NewestIsOne ==
  ASSUME NEW v \in Services, NEW S \in SUBSET Slots, S # {}
  PROVE  Newest(v, S) \in S
<1> DEFINE T == {ZOrderMax - Win(v, i).z_order : i \in S}
           R == {ss \in Nat \X Nat : ss[1] < ss[2]}
<1>1. \A i \in S : Win(v, i).z_order \in 0 .. ZOrderMax
  BY WindowFacts
<1>2. T \in SUBSET Nat /\ T # {}
  BY <1>1, AppWindowsAssumption
<1>3. IsWellFoundedOn(R, Nat)
  BY NatLessThanWellFounded, Zenon DEF OpToRel
<1>4. \A x, y \in Nat : <<y, x>> \in R <=> y < x
  OBVIOUS
<1> HIDE DEF R
<1>5. PICK x \in T : \A y \in T : ~(<<y, x>> \in R)
  <2> HIDE DEF T
  <2>1. QED
    BY <1>2, <1>3, WFMin
<1>6. PICK i \in S : x = ZOrderMax - Win(v, i).z_order
  BY <1>5
<1>7. \A j \in S : Win(v, j).z_order <= Win(v, i).z_order
  <2> TAKE j \in S
  <2>1. ~(ZOrderMax - Win(v, j).z_order < x)
    BY <1>2, <1>4, <1>5
  <2>2. QED
    BY <1>1, <1>6, <2>1, AppWindowsAssumption
<1>8. \E k \in S : \A j \in S : v.g_windows[j].z_order <= v.g_windows[k].z_order
  BY <1>7 DEF Win
<1>9. QED
  BY <1>8, Zenon DEF Newest

\* The fields after the windows of S are closed.  The focus goes to a window that
\* is left only from one that is not, and the ring is emptied then.
LEMMA CloseFields ==
  ASSUME NEW v, Core(v), NEW S \in SUBSET InUse(v)
  PROVE  LET u == CloseWindows(v, S)
             gone == {v.g_windows[i].handle : i \in S}
         IN  /\ u \in Services
             /\ \A i \in Slots : Win(u, i) = IF i \in S THEN ClearedWindow ELSE Win(v, i)
             /\ u.g_next_handle = v.g_next_handle /\ u.g_next_z_order = v.g_next_z_order
             /\ u.desktop_active = v.desktop_active /\ u.windows_hidden = v.windows_hidden
             /\ u.gesture_consumed = v.gesture_consumed /\ u.last_mouse = v.last_mouse
             /\ u.launch_focus \in {v.launch_focus, 0}
             /\ u.capture \in {0} \cup ({v.capture} \ gone)
             /\ u.capture = 0 => v.capture \in gone \cup {0} \/ (S # {} /\ InUse(u) = {})
             /\ u.hidden_focused \in {0} \cup ({v.hidden_focused} \ gone)
             /\ u.mouse_initialized = (v.mouse_initialized /\ (S = {} \/ InUse(u) # {}))
             /\ \/ v.focused \notin gone /\ u.focused \in {v.focused, 0} /\ u.keys = v.keys
                   /\ (u.focused # v.focused => S # {} /\ InUse(u) = {})
                \/ v.focused \in gone /\ u.focused \in {0} \cup OpenHandles(u) /\ u.keys = <<>>
<1> DEFINE gone == {v.g_windows[i].handle : i \in S}
           W == [i \in Slots |-> IF i \in S THEN ClearedWindow ELSE v.g_windows[i]]
           cap == IF v.capture \in gone THEN 0 ELSE v.capture
           hid == IF v.hidden_focused \in gone THEN 0 ELSE v.hidden_focused
           a == [v EXCEPT !.g_windows = W, !.capture = cap, !.hidden_focused = hid]
           n == Newest(a, InUse(a))
           f == IF n = 0 THEN 0 ELSE a.g_windows[n].handle
           b == IF v.focused \notin gone THEN a
                ELSE [keyboard_discard_pending(a) EXCEPT !.launch_focus = 0, !.focused = f]
           c == IF S = {} \/ InUse(b) # {} THEN b
                ELSE [b EXCEPT !.focused = 0, !.capture = 0, !.mouse_initialized = FALSE]
<1>0. v \in Services /\ S \subseteq Slots
  BY InUseAreSlots DEF Core
<1>1. /\ W \in [Slots -> Window]
      /\ \A i \in Slots : W[i] = IF i \in S THEN ClearedWindow ELSE v.g_windows[i]
  <2>1. ClearedWindow \in Window
    BY AppWindowsAssumption DEF ClearedWindow, Window, Handles
  <2>2. v.g_windows \in [Slots -> Window]
    BY <1>0 DEF Services
  <2>3. QED
    BY <2>1, <2>2
<1>2. cap \in Handles /\ hid \in Handles /\ 0 \in Handles /\ 0 \in 0 .. ProcessIdMax
  BY <1>0, AppWindowsAssumption DEF Services, Handles
<1>3. /\ a \in Services /\ a.g_windows = W /\ a.capture = cap /\ a.hidden_focused = hid
      /\ a.g_next_handle = v.g_next_handle /\ a.g_next_z_order = v.g_next_z_order
      /\ a.desktop_active = v.desktop_active /\ a.windows_hidden = v.windows_hidden
      /\ a.gesture_consumed = v.gesture_consumed /\ a.last_mouse = v.last_mouse
      /\ a.launch_focus = v.launch_focus /\ a.mouse_initialized = v.mouse_initialized
      /\ a.focused = v.focused /\ a.keys = v.keys
  <2> HIDE DEF W, cap, hid
  <2>1. QED
    BY <1>0, <1>1, <1>2 DEF Services
<1>4. CloseWindows(v, S) = c
  BY DEF CloseWindows
<1> HIDE DEF a
<1>5. f \in Handles /\ f \in {0} \cup OpenHandles(a)
  <2>1. CASE InUse(a) = {}
    BY <2>1, <1>2 DEF Newest
  <2>2. CASE InUse(a) # {}
    <3>1. n \in InUse(a)
      BY <1>3, <2>2, InUseAreSlots, NewestIsOne
    <3>2. a.g_windows[n].handle \in OpenHandles(a) /\ a.g_windows[n].handle \in Handles
      BY <1>3, <3>1, InUseAreSlots, WindowFacts DEF OpenHandles, Win
    <3>3. QED
      BY <1>2, <3>2
  <2>3. QED
    BY <2>1, <2>2
<1> HIDE DEF f, W, cap, hid, gone
<1>6. /\ b \in Services /\ b.g_windows = W /\ b.capture = cap /\ b.hidden_focused = hid
      /\ b.g_next_handle = v.g_next_handle /\ b.g_next_z_order = v.g_next_z_order
      /\ b.desktop_active = v.desktop_active /\ b.windows_hidden = v.windows_hidden
      /\ b.gesture_consumed = v.gesture_consumed /\ b.last_mouse = v.last_mouse
      /\ b.launch_focus \in {v.launch_focus, 0} /\ b.mouse_initialized = v.mouse_initialized
      /\ \/ v.focused \notin gone /\ b.focused = v.focused /\ b.keys = v.keys
         \/ v.focused \in gone /\ b.focused = f /\ b.keys = <<>>
  <2>1. CASE v.focused \notin gone
    BY <1>3, <2>1
  <2>2. CASE v.focused \in gone
    <3>1. b = [a EXCEPT !.keys = <<>>, !.launch_focus = 0, !.focused = f]
      <4> HIDE DEF f
      <4>1. QED
        BY <1>3, <2>2 DEF keyboard_discard_pending, Services
    <3> HIDE DEF b
    <3>2. <<>> \in Seq(Handles)
      OBVIOUS
    <3>3. b \in Services
      BY <1>2, <1>3, <1>5, <3>1, <3>2 DEF Services
    <3>4. QED
      BY <1>3, <2>2, <3>1, <3>3 DEF Services
  <2>3. QED
    BY <2>1, <2>2
<1> HIDE DEF b
<1>7. InUse(a) = InUse(b) /\ OpenHandles(a) = OpenHandles(b)
  BY <1>3, <1>6 DEF InUse, OpenHandles
<1>8. /\ cap \in {0} \cup ({v.capture} \ gone) /\ hid \in {0} \cup ({v.hidden_focused} \ gone)
      /\ cap = 0 => v.capture \in gone \cup {0}
  BY DEF cap, hid
<1>9. CASE S = {} \/ InUse(b) # {}
  <2>1. c = b
    BY <1>9
  <2>2. QED
    <3>1. b.mouse_initialized = (v.mouse_initialized /\ (S = {} \/ InUse(b) # {}))
      BY <1>0, <1>6, <1>9 DEF Services
    <3>2. \A i \in Slots : Win(b, i) = IF i \in S THEN ClearedWindow ELSE Win(v, i)
      BY <1>1, <1>6 DEF Win
    <3>3. QED
      BY <1>4, <1>5, <1>6, <1>7, <1>8, <2>1, <3>1, <3>2 DEF gone
<1>10. CASE ~(S = {} \/ InUse(b) # {})
  <2>1. c = [b EXCEPT !.focused = 0, !.capture = 0, !.mouse_initialized = FALSE]
    BY <1>10
  <2> HIDE DEF c
  <2>2. /\ c \in Services /\ c.g_windows = W /\ c.capture = 0 /\ c.hidden_focused = hid
        /\ c.g_next_handle = v.g_next_handle /\ c.g_next_z_order = v.g_next_z_order
        /\ c.desktop_active = v.desktop_active /\ c.windows_hidden = v.windows_hidden
        /\ c.gesture_consumed = v.gesture_consumed /\ c.last_mouse = v.last_mouse
        /\ c.launch_focus \in {v.launch_focus, 0} /\ c.mouse_initialized = FALSE
        /\ c.focused = 0 /\ c.keys = b.keys
    BY <1>2, <1>6, <2>1 DEF Services
  <2>3. InUse(c) = {}
    BY <1>6, <1>10, <2>2 DEF InUse
  <2>4. \A i \in Slots : Win(c, i) = IF i \in S THEN ClearedWindow ELSE Win(v, i)
    BY <1>1, <2>2 DEF Win
  <2>5. QED
    BY <1>4, <1>6, <1>8, <1>10, <2>2, <2>3, <2>4 DEF gone
<1>11. QED
  BY <1>9, <1>10

LEMMA CloseKeeps ==
  ASSUME NEW v, Core(v), NEW S \in SUBSET InUse(v)
  PROVE  LET u == CloseWindows(v, S)
         IN  /\ Core(u) /\ InUse(u) = InUse(v) \ S
             /\ HeldDown(v) => HeldDown(u)
             /\ PlacedBut(v, S) => PlacedBut(u, {})
             /\ \A i \in InUse(u) : Win(u, i) = Win(v, i)
             /\ u.launch_focus \in {v.launch_focus, 0}
             /\ \A i \in S : Win(u, i) = ClearedWindow
             /\ \A i \in Slots \ S : Win(u, i) = Win(v, i)
             /\ \/ u.focused \in {v.focused, 0}
                \/ v.focused # 0 /\ v.focused \notin OpenHandles(u)
<1> DEFINE u == CloseWindows(v, S)
           gone == {v.g_windows[i].handle : i \in S}
<1>1. /\ u \in Services
      /\ \A i \in Slots : Win(u, i) = IF i \in S THEN ClearedWindow ELSE Win(v, i)
      /\ u.g_next_handle = v.g_next_handle /\ u.g_next_z_order = v.g_next_z_order
      /\ u.desktop_active = v.desktop_active /\ u.windows_hidden = v.windows_hidden
      /\ u.gesture_consumed = v.gesture_consumed /\ u.last_mouse = v.last_mouse
      /\ u.launch_focus \in {v.launch_focus, 0}
      /\ u.capture \in {0} \cup ({v.capture} \ gone)
      /\ u.capture = 0 => v.capture \in gone \cup {0} \/ (S # {} /\ InUse(u) = {})
      /\ u.hidden_focused \in {0} \cup ({v.hidden_focused} \ gone)
      /\ u.mouse_initialized = (v.mouse_initialized /\ (S = {} \/ InUse(u) # {}))
      /\ \/ v.focused \notin gone /\ u.focused \in {v.focused, 0} /\ u.keys = v.keys
            /\ (u.focused # v.focused => S # {} /\ InUse(u) = {})
         \/ v.focused \in gone /\ u.focused \in {0} \cup OpenHandles(u) /\ u.keys = <<>>
  BY CloseFields
<1> HIDE DEF u
<1>2. S \subseteq Slots /\ InUse(v) \subseteq Slots /\ \A i \in S : Win(v, i).handle # 0
  BY InUseAreSlots
<1>3. InUse(u) = InUse(v) \ S
  <2>1. ClearedWindow.handle = 0
    BY DEF ClearedWindow
  <2>2. \A i \in Slots : u.g_windows[i].handle = IF i \in S THEN 0 ELSE v.g_windows[i].handle
    BY <1>1, <2>1 DEF Win
  <2>3. QED
    BY <1>2, <2>2 DEF InUse
<1>4. \A i \in InUse(u) : i \in InUse(v) /\ i \notin S /\ i \in Slots /\ Win(u, i) = Win(v, i)
  BY <1>1, <1>2, <1>3
<1>5. Numbered(u)
  BY <1>1, <1>4 DEF Core, Numbered
<1>6. OpenHandles(v) \ gone \subseteq OpenHandles(u)
  <2> SUFFICES ASSUME NEW h \in OpenHandles(v), h \notin gone PROVE h \in OpenHandles(u)
    OBVIOUS
  <2>1. PICK i \in InUse(v) : v.g_windows[i].handle = h
    BY DEF OpenHandles
  <2>2. i \in InUse(u)
    BY <1>3, <2>1
  <2>3. u.g_windows[i].handle = h
    BY <1>4, <2>1, <2>2 DEF Win
  <2>4. QED
    BY <2>2, <2>3 DEF OpenHandles
<1>7. gone \cap OpenHandles(u) = {} /\ 0 \notin gone
  <2> SUFFICES ASSUME NEW j \in S
               PROVE  Win(v, j).handle \notin OpenHandles(u) /\ Win(v, j).handle # 0
    BY DEF Win
  <2>1. \A i \in InUse(u) : u.g_windows[i].handle # Win(v, j).handle
    BY <1>4 DEF Core, Numbered, Win
  <2>2. QED
    BY <1>2, <2>1 DEF OpenHandles
<1>8. u.focused \in OpenHandles(u) \cup {0}
  <2>1. CASE v.focused \in gone
    BY <1>1, <2>1
  <2>2. CASE v.focused \notin gone
    BY <1>1, <1>6, <2>2 DEF Core, FocusNamesWindow
  <2>3. QED
    BY <2>1, <2>2
<1>9. /\ u.hidden_focused \in OpenHandles(u) \cup {0}
      /\ u.capture \in OpenHandles(u) \cup {0}
  BY <1>1, <1>6 DEF Core, FocusNamesWindow
<1>10. FocusNamesWindow(u)
  <2>1. u.windows_hidden \/ ~u.desktop_active => u.focused = 0
    BY <1>1, <1>7 DEF Core, FocusNamesWindow
  <2>2. ~u.windows_hidden => u.hidden_focused = 0
    BY <1>1 DEF Core, FocusNamesWindow
  <2>3. QED
    BY <1>8, <1>9, <2>1, <2>2 DEF FocusNamesWindow
<1>11. KeysBelongTo(u)
  <2>1. CASE v.focused \in gone
    BY <1>1, <2>1 DEF KeysBelongTo
  <2>2. CASE v.focused \notin gone
    <3>1. u.focused = v.focused
      <4>1. CASE v.focused = 0
        BY <1>1, <2>2, <4>1
      <4>2. CASE v.focused # 0
        <5>1. v.focused \in OpenHandles(u)
          BY <1>6, <2>2, <4>2 DEF Core, FocusNamesWindow
        <5>2. InUse(u) # {}
          BY <5>1 DEF OpenHandles
        <5>3. QED
          BY <1>1, <2>2, <5>2
      <4>3. QED
        BY <4>1, <4>2
    <3>2. QED
      BY <1>1, <2>2, <3>1 DEF Core, KeysBelongTo
  <2>3. QED
    BY <2>1, <2>2
<1>12. Attached(u)
  <2>1. u.capture # 0 => u.gesture_consumed
    BY <1>1 DEF Core, Attached
  <2>2. ASSUME NEW i \in InUse(u), Win(u, i).dragging PROVE Win(u, i).handle = u.capture
    <3>1. Win(v, i).handle = v.capture /\ Win(u, i).handle # 0
      BY <1>4, <2>2, InUseAreSlots DEF Core, Attached
    <3>2. v.capture \in OpenHandles(u) /\ InUse(u) # {}
      BY <1>4, <3>1 DEF OpenHandles, Win
    <3>3. u.capture # 0
      BY <1>1, <1>4, <1>7, <3>1, <3>2
    <3>4. QED
      BY <1>1, <1>4, <2>2, <3>1, <3>3
  <2>3. QED
    BY <2>1, <2>2 DEF Attached
<1>13. WindowsNeedDesktop(u)
  BY <1>1, <1>3 DEF Core, WindowsNeedDesktop
<1>14. HeldDown(v) => HeldDown(u)
  BY <1>1, <1>4 DEF HeldDown
<1>15. PlacedBut(v, S) => PlacedBut(u, {})
  BY <1>4 DEF PlacedBut
<1>16. u.focused \in {v.focused, 0} \/ (v.focused # 0 /\ v.focused \notin OpenHandles(u))
  BY <1>1, <1>7
<1>17. QED
  BY <1>1, <1>2, <1>3, <1>4, <1>5, <1>10, <1>11, <1>12, <1>13, <1>14, <1>15, <1>16 DEF Core, u

----------------------------------------------------------------------------
(* Changes of one window that leave its place alone *)

SameQueues(u, v) == \A i \in Slots : Win(u, i).input_queue = Win(v, i).input_queue

SameRest(u, v) ==
  /\ u.launch_focus = v.launch_focus
  /\ u.g_next_handle = v.g_next_handle /\ u.g_next_z_order = v.g_next_z_order

\* A window is replaced by one with the same handle, owner and depth.
LEMMA ReplaceEffect ==
  ASSUME NEW v \in Services, NEW i \in Slots, NEW x \in Window,
         x.handle = Win(v, i).handle, x.process_id = Win(v, i).process_id,
         x.z_order = Win(v, i).z_order
  PROVE  LET u == [v EXCEPT !.g_windows = [v.g_windows EXCEPT ![i] = x]]
         IN  /\ u \in Services /\ Kept(u, v) /\ SameDepth(u, v) /\ SameFocus(u, v)
             /\ SameGesture(u, v) /\ SameRest(u, v)
             /\ \A j \in Slots : Win(u, j) = IF j = i THEN x ELSE Win(v, j)
<1> DEFINE W == [v.g_windows EXCEPT ![i] = x]
           u == [v EXCEPT !.g_windows = W]
<1>1. v.g_windows \in [Slots -> Window]
  BY DEF Services
<1>2. W \in [Slots -> Window] /\ \A j \in Slots : W[j] = IF j = i THEN x ELSE v.g_windows[j]
  BY <1>1
<1> HIDE DEF W
<1>3. /\ u \in Services /\ u.g_windows = W
      /\ SameFocus(u, v) /\ SameGesture(u, v) /\ SameRest(u, v)
  BY <1>2 DEF Services, SameFocus, SameGesture, SameRest
<1>4. \A j \in Slots : Win(u, j) = IF j = i THEN x ELSE Win(v, j)
  BY <1>2, <1>3 DEF Win
<1>5. Kept(u, v) /\ SameDepth(u, v)
  BY <1>4 DEF Kept, SameDepth
<1>6. QED
  BY <1>3, <1>4, <1>5 DEF W

\* What is said of the places of windows depends on the places only.
LEMMA CoreTransfer ==
  ASSUME NEW v, Core(v), NEW u \in Services, Kept(u, v), SameDepth(u, v), SameFocus(u, v),
         u.g_next_handle = v.g_next_handle, u.g_next_z_order = v.g_next_z_order,
         u.mouse_initialized = v.mouse_initialized, u.capture \in {v.capture, 0}, Attached(u)
  PROVE  Core(u) /\ \A S : PlacedBut(v, S) => PlacedBut(u, S)
<1>1. InUse(u) = InUse(v) /\ InUse(v) \subseteq Slots
  BY KeptFacts, InUseAreSlots
<1>2. \A i \in InUse(v) : /\ Win(u, i).handle = Win(v, i).handle
                          /\ Win(u, i).z_order = Win(v, i).z_order
  BY <1>1 DEF Kept, SameDepth
<1>3. Numbered(u)
  BY <1>1, <1>2 DEF Core, Numbered
<1>4. FocusNamesWindow(u) /\ KeysBelongTo(u)
  BY SameFocusFacts DEF Core
<1>5. WindowsNeedDesktop(u)
  BY <1>1 DEF Core, WindowsNeedDesktop, SameFocus
<1>6. QED
  BY <1>1, <1>2, <1>3, <1>4, <1>5 DEF Core, PlacedBut

LEMMA TopTransfer ==
  ASSUME NEW u, NEW v, Kept(u, v), SameDepth(u, v), NEW h, IsTop(v, h)
  PROVE  IsTop(u, h)
<1>1. InUse(u) = InUse(v) /\ InUse(v) \subseteq Slots
  BY KeptFacts, InUseAreSlots
<1>2. \A i \in InUse(v) : /\ u.g_windows[i].handle = v.g_windows[i].handle
                          /\ u.g_windows[i].z_order = v.g_windows[i].z_order
  BY <1>1 DEF Kept, SameDepth, Win
<1>3. QED
  BY <1>1, <1>2 DEF IsTop

\* queue_window_input yields a queue, and leaves a request to close as it is.
LEMMA QueueType ==
  ASSUME NEW q \in Seq(EventTypes), NEW e \in EventTypes
  PROVE  /\ queue_window_input(q, e) \in Seq(EventTypes)
         /\ q = <<"CLOSE">> => queue_window_input(q, e) = <<"CLOSE">>
<1>1. <<"CLOSE">> \in Seq(EventTypes)
  BY DEF EventTypes
<1>2. Append(q, e) \in Seq(EventTypes)
  OBVIOUS
<1>3. ~(Len(q) < APP_INPUT_QUEUE_CAPACITY) => Append(Tail(q), e) \in Seq(EventTypes)
  <2> SUFFICES ASSUME ~(Len(q) < APP_INPUT_QUEUE_CAPACITY)
               PROVE  Append(Tail(q), e) \in Seq(EventTypes)
    OBVIOUS
  <2>1. q # <<>>
    BY AppWindowsAssumption
  <2>2. Tail(q) \in Seq(EventTypes)
    BY <2>1
  <2>3. QED
    BY <2>2
<1>4. queue_window_input(q, e) \in Seq(EventTypes)
  BY <1>1, <1>2, <1>3 DEF queue_window_input
<1>5. ASSUME q = <<"CLOSE">> PROVE queue_window_input(q, e) = <<"CLOSE">>
  <2>1. 1 \in DOMAIN q /\ q[1] = "CLOSE"
    BY <1>5
  <2>2. QED
    BY <1>5, <2>1 DEF queue_window_input
<1>6. QED
  BY <1>4, <1>5

\* An event is queued for a window.
LEMMA QueueEffect ==
  ASSUME NEW v, Sound(v), NEW i \in Slots, NEW e \in EventTypes
  PROVE  LET u == Queue(v, i, e)
         IN  /\ Sound(u) /\ Kept(u, v) /\ SameDepth(u, v) /\ SameFocus(u, v)
             /\ SameGesture(u, v) /\ SameRest(u, v)
             /\ \A j \in Slots :
                  Win(v, j).input_queue = <<"CLOSE">> => Win(u, j).input_queue = <<"CLOSE">>
<1> DEFINE q == queue_window_input(v.g_windows[i].input_queue, e)
           x == [v.g_windows[i] EXCEPT !.input_queue = q]
           u == [v EXCEPT !.g_windows = [v.g_windows EXCEPT ![i] = x]]
<1>1. v \in Services /\ Core(v) /\ HeldDown(v) /\ PlacedBut(v, {})
  BY DEF Sound, Core
<1>2. Win(v, i) \in Window /\ v.g_windows[i].input_queue \in Seq(EventTypes)
  BY <1>1, WindowFacts DEF Win
<1>3. q \in Seq(EventTypes)
  BY <1>2, QueueType
<1>4. (v.g_windows[i].input_queue = <<"CLOSE">> => q = <<"CLOSE">>)
  BY <1>2, QueueType
<1>5. Queue(v, i, e) = u
  BY DEF Queue
<1> HIDE DEF q
<1>6. /\ x \in Window /\ x.handle = Win(v, i).handle /\ x.process_id = Win(v, i).process_id
      /\ x.z_order = Win(v, i).z_order /\ x.dragging = Win(v, i).dragging /\ x.input_queue = q
  BY <1>2, <1>3 DEF Win, Window
<1> HIDE DEF x
<1>7. /\ u \in Services /\ Kept(u, v) /\ SameDepth(u, v) /\ SameFocus(u, v)
      /\ SameGesture(u, v) /\ SameRest(u, v)
      /\ \A j \in Slots : Win(u, j) = IF j = i THEN x ELSE Win(v, j)
  BY <1>1, <1>6, ReplaceEffect
<1> HIDE DEF u
<1>8. InUse(u) = InUse(v) /\ InUse(v) \subseteq Slots
  BY <1>7, KeptFacts, InUseAreSlots
<1>9. \A j \in Slots : /\ Win(u, j).dragging = Win(v, j).dragging
                       /\ Win(u, j).handle = Win(v, j).handle
  BY <1>6, <1>7
<1>10. Attached(u) /\ HeldDown(u)
  BY <1>1, <1>7, <1>8, <1>9 DEF Core, Attached, HeldDown, SameGesture
<1>11. Core(u) /\ PlacedBut(u, {})
  BY <1>1, <1>7, <1>10, CoreTransfer DEF SameGesture, SameRest
<1>12. \A j \in Slots :
          Win(v, j).input_queue = <<"CLOSE">> => Win(u, j).input_queue = <<"CLOSE">>
  BY <1>4, <1>6, <1>7 DEF Win
<1>13. QED
  BY <1>5, <1>7, <1>10, <1>11, <1>12 DEF Sound

\* The oldest event of a window is taken.
LEMMA DequeueEffect ==
  ASSUME NEW v, Sound(v), NEW i \in Slots, Win(v, i).input_queue # <<>>
  PROVE  LET u == dequeue_window_input(v, i)
         IN  /\ Sound(u) /\ Kept(u, v) /\ SameDepth(u, v) /\ SameFocus(u, v)
             /\ SameGesture(u, v) /\ SameRest(u, v)
             /\ \A j \in Slots : Win(v, j).input_queue = <<"CLOSE">> =>
                                   Win(u, j).input_queue \in {<<"CLOSE">>, <<>>}
<1> DEFINE q == Tail(v.g_windows[i].input_queue)
           x == [v.g_windows[i] EXCEPT !.input_queue = q]
           u == [v EXCEPT !.g_windows = [v.g_windows EXCEPT ![i] = x]]
<1>1. v \in Services /\ Core(v) /\ HeldDown(v) /\ PlacedBut(v, {})
  BY DEF Sound, Core
<1>2. Win(v, i) \in Window /\ v.g_windows[i].input_queue \in Seq(EventTypes)
  BY <1>1, WindowFacts DEF Win
<1>3. q \in Seq(EventTypes)
  BY <1>2 DEF Win
<1>4. (v.g_windows[i].input_queue = <<"CLOSE">> => q = <<>>)
  BY <1>2
<1>5. dequeue_window_input(v, i) = u
  BY DEF dequeue_window_input
<1> HIDE DEF q
<1>6. /\ x \in Window /\ x.handle = Win(v, i).handle /\ x.process_id = Win(v, i).process_id
      /\ x.z_order = Win(v, i).z_order /\ x.dragging = Win(v, i).dragging /\ x.input_queue = q
  BY <1>2, <1>3 DEF Win, Window
<1> HIDE DEF x
<1>7. /\ u \in Services /\ Kept(u, v) /\ SameDepth(u, v) /\ SameFocus(u, v)
      /\ SameGesture(u, v) /\ SameRest(u, v)
      /\ \A j \in Slots : Win(u, j) = IF j = i THEN x ELSE Win(v, j)
  BY <1>1, <1>6, ReplaceEffect
<1> HIDE DEF u
<1>8. InUse(u) = InUse(v) /\ InUse(v) \subseteq Slots
  BY <1>7, KeptFacts, InUseAreSlots
<1>9. \A j \in Slots : /\ Win(u, j).dragging = Win(v, j).dragging
                       /\ Win(u, j).handle = Win(v, j).handle
  BY <1>6, <1>7
<1>10. Attached(u) /\ HeldDown(u)
  BY <1>1, <1>7, <1>8, <1>9 DEF Core, Attached, HeldDown, SameGesture
<1>11. Core(u) /\ PlacedBut(u, {})
  BY <1>1, <1>7, <1>10, CoreTransfer DEF SameGesture, SameRest
<1>12. \A j \in Slots : Win(v, j).input_queue = <<"CLOSE">> =>
                          Win(u, j).input_queue \in {<<"CLOSE">>, <<>>}
  BY <1>4, <1>6, <1>7 DEF Win
<1>13. QED
  BY <1>5, <1>7, <1>10, <1>11, <1>12 DEF Sound

\* A window is attached to the pointer, or let go.
LEMMA DragEffect ==
  ASSUME NEW v \in Services, NEW i \in Slots, NEW d \in BOOLEAN
  PROVE  LET u == [v EXCEPT !.g_windows[i].dragging = d]
         IN  /\ u \in Services /\ Kept(u, v) /\ SameDepth(u, v) /\ SameFocus(u, v)
             /\ SameGesture(u, v) /\ SameRest(u, v) /\ SameQueues(u, v)
             /\ \A j \in Slots : Win(u, j).dragging = IF j = i THEN d ELSE Win(v, j).dragging
<1> DEFINE x == [v.g_windows[i] EXCEPT !.dragging = d]
           u == [v EXCEPT !.g_windows = [v.g_windows EXCEPT ![i] = x]]
<1>1. Win(v, i) \in Window
  BY WindowFacts
<1>2. [v EXCEPT !.g_windows[i].dragging = d] = u
  OBVIOUS
<1>3. /\ x \in Window /\ x.handle = Win(v, i).handle /\ x.process_id = Win(v, i).process_id
      /\ x.z_order = Win(v, i).z_order /\ x.dragging = d
      /\ x.input_queue = Win(v, i).input_queue
  BY <1>1 DEF Win, Window
<1> HIDE DEF x
<1>4. /\ u \in Services /\ Kept(u, v) /\ SameDepth(u, v) /\ SameFocus(u, v)
      /\ SameGesture(u, v) /\ SameRest(u, v)
      /\ \A j \in Slots : Win(u, j) = IF j = i THEN x ELSE Win(v, j)
  BY <1>3, ReplaceEffect
<1> HIDE DEF u
<1>5. SameQueues(u, v)
  BY <1>3, <1>4 DEF SameQueues
<1>6. \A j \in Slots : Win(u, j).dragging = IF j = i THEN d ELSE Win(v, j).dragging
  BY <1>3, <1>4
<1>7. QED
  BY <1>2, <1>4, <1>5, <1>6

----------------------------------------------------------------------------
(* The pointer *)

\* The window under the pointer is an open one, and there is none while windows
\* are hidden.
LEMMA TopWindowIsOpen ==
  ASSUME NEW v \in Services, NEW m
  PROVE  /\ top_window_at(v, m) \in InUse(v) \cup {0}
         /\ top_window_at(v, m) # 0 => ~v.windows_hidden
<1> DEFINE S == InUse(v) \cap m.under
<1>1. S \in SUBSET Slots
  BY InUseAreSlots
<1>2. CASE v.windows_hidden \/ S = {}
  BY <1>2 DEF top_window_at, Newest
<1>3. CASE ~v.windows_hidden /\ S # {}
  <2>1. top_window_at(v, m) = Newest(v, S)
    BY <1>3 DEF top_window_at
  <2>2. Newest(v, S) \in S
    <3> HIDE DEF S
    <3>1. QED
      BY <1>1, <1>3, NewestIsOne
  <2>3. QED
    BY <1>3, <2>1, <2>2
<1>4. QED
  BY <1>2, <1>3

\* A press goes to the owner of the gesture or to a window that is on the screen.
LEMMA PressTargetIsOpen ==
  ASSUME NEW v \in Services, NEW m, NEW otherDown \in BOOLEAN
  PROVE  LET i == PressTarget(v, m, otherDown)
         IN  /\ i \in InUse(v) \cup {0}
             /\ i # 0 /\ v.gesture_consumed => Win(v, i).handle = v.capture
             /\ i # 0 /\ ~v.gesture_consumed => ~v.windows_hidden
<1>1. v.gesture_consumed \in BOOLEAN
  BY DEF Services
<1>2. CASE v.gesture_consumed
  BY <1>2, FoundIsOpen DEF PressTarget
<1>3. CASE ~v.gesture_consumed
  BY <1>3, TopWindowIsOpen DEF PressTarget
<1>4. QED
  BY <1>1, <1>2, <1>3

\* The focus stays and nothing comes in front of it, or it goes to a window on
\* which a gesture begins.
FocusFollowsPress(u, v) ==
  IF u.focused = v.focused
  THEN v.focused # 0 /\ IsTop(v, v.focused) => IsTop(u, v.focused)
  ELSE u.capture = u.focused /\ v.capture = 0

LEMMA AfterPressEffect ==
  ASSUME NEW v, Core(v), PlacedBut(v, {}), v.desktop_active, NEW i \in InUse(v) \cup {0},
         i # 0 /\ v.gesture_consumed => Win(v, i).handle = v.capture,
         i # 0 /\ ~v.gesture_consumed => ~v.windows_hidden
  PROVE  LET u == AfterPress(v, i)
         IN  /\ Core(u) /\ Kept(u, v) /\ SameInput(u, v) /\ PlacedBut(u, {})
             /\ u.last_mouse = v.last_mouse /\ u.mouse_initialized = v.mouse_initialized
             /\ u.desktop_active = v.desktop_active
             /\ u.launch_focus \in {v.launch_focus, 0}
             /\ i # 0 => u.capture = Win(v, i).handle
             /\ FocusFollowsPress(u, v)
             /\ i = 0 => u = v
<1>1. v \in Services /\ v.gesture_consumed \in BOOLEAN
  BY DEF Core, Services
<1>2. CASE i = 0 \/ v.gesture_consumed
  <2>1. AfterPress(v, i) = v
    BY <1>2 DEF AfterPress
  <2>2. QED
    BY <1>2, <2>1 DEF Kept, SameInput, FocusFollowsPress
<1>3. CASE ~(i = 0 \/ v.gesture_consumed)
  <2> DEFINE a == focus_window(v, i)
             h == v.g_windows[i].handle
             u == [a EXCEPT !.capture = h, !.gesture_consumed = TRUE]
  <2>1. i \in InUse(v) /\ ~v.windows_hidden /\ ~v.gesture_consumed /\ i # 0
    BY <1>3
  <2>2. /\ Core(a) /\ Kept(a, v) /\ SameGesture(a, v) /\ SameInput(a, v)
        /\ a.launch_focus = 0 /\ a.desktop_active /\ ~a.windows_hidden
        /\ \A j \in Slots : j # i => Win(a, j).z_order = Win(v, j).z_order
        /\ ~CanRaise(v) => a.focused = v.focused /\ SameDepth(a, v)
        /\ CanRaise(v) =>
             /\ a.focused = Win(v, i).handle
             /\ Win(a, i).z_order # 0
             /\ \A j \in InUse(a) : Win(a, j).z_order <= Win(a, i).z_order
    BY <2>1, FocusEffect
  <2>3. AfterPress(v, i) = u
    BY <1>3 DEF AfterPress
  <2> HIDE DEF a
  <2>4. a \in Services /\ h \in Handles /\ h # 0 /\ i \in Slots
    BY <1>1, <2>1, <2>2, WindowFacts, InUseAreSlots DEF Core, Win
  <2> HIDE DEF h
  <2>5. /\ u \in Services /\ u.g_windows = a.g_windows /\ SameFocus(u, a) /\ SameRest(u, a)
        /\ u.capture = h /\ u.gesture_consumed = TRUE
        /\ u.last_mouse = a.last_mouse /\ u.mouse_initialized = a.mouse_initialized
    BY <2>4 DEF Services, SameFocus, SameRest
  <2> HIDE DEF u
  <2>6. Kept(u, a) /\ SameInput(u, a) /\ SameDepth(u, a)
    BY <2>5 DEF Kept, SameInput, SameDepth, Win
  <2>7. Kept(u, v) /\ SameInput(u, v)
    BY <2>2, <2>6, KeptIsTransitive
  <2>8. InUse(u) = InUse(v) /\ InUse(a) = InUse(v) /\ InUse(v) \subseteq Slots
        /\ OpenHandles(u) = OpenHandles(v) /\ OpenHandles(a) = OpenHandles(v)
    BY <2>2, <2>7, KeptFacts, InUseAreSlots
  <2>9. v.capture = 0
    BY <1>1, <2>1 DEF Core, Attached
  <2>10. Attached(u)
    <3>1. \A j \in InUse(v) : ~Win(v, j).dragging
      BY <2>9, InUseAreSlots DEF Core, Attached
    <3>2. \A j \in InUse(u) : ~Win(u, j).dragging
      BY <2>7, <2>8, <3>1 DEF SameInput
    <3>3. QED
      BY <2>5, <3>2 DEF Attached
  <2>11. h \in OpenHandles(u)
    BY <2>1, <2>8 DEF OpenHandles, h
  <2>12. FocusNamesWindow(u) /\ KeysBelongTo(u)
    BY <2>2, <2>5, <2>8, <2>11 DEF Core, FocusNamesWindow, KeysBelongTo, SameFocus
  <2>13. Numbered(u) /\ WindowsNeedDesktop(u)
    <3>1. \A j \in InUse(u) : Win(u, j) = Win(a, j)
      BY <2>5 DEF Win
    <3>2. InUse(u) = InUse(a)
      BY <2>8
    <3>3. QED
      BY <2>2, <2>5, <3>1, <3>2 DEF Core, Numbered, WindowsNeedDesktop, SameRest, SameFocus
  <2>14. Core(u)
    BY <2>5, <2>10, <2>12, <2>13 DEF Core
  <2>15. PlacedBut(u, {})
    <3>1. \A j \in Slots : Win(u, j).z_order = Win(a, j).z_order
      BY <2>6 DEF SameDepth
    <3>2. CASE CanRaise(v)
      BY <2>2, <2>8, <3>1, <3>2 DEF PlacedBut
    <3>3. CASE ~CanRaise(v)
      BY <2>2, <2>8, <3>1, <3>3 DEF PlacedBut, SameDepth
    <3>4. QED
      BY <3>2, <3>3
  <2>16. FocusFollowsPress(u, v)
    <3>1. CASE CanRaise(v)
      <4>1. u.focused = h /\ u.capture = h
        BY <2>2, <2>5, <3>1 DEF SameFocus, Win, h
      <4>2. IsTop(u, h)
        <5> SUFFICES ASSUME NEW j \in InUse(u), NEW k \in InUse(u), Win(u, j).handle = h
                     PROVE  Win(u, k).z_order <= Win(u, j).z_order
          BY DEF IsTop, Win
        <5>1. Win(u, i).handle = h /\ i \in InUse(u)
          BY <2>1, <2>4, <2>7, <2>8 DEF Kept, Win, h
        <5>2. j = i
          BY <2>14, <5>1 DEF Core, Numbered
        <5>3. QED
          BY <2>2, <2>6, <2>8, <3>1, <5>2 DEF SameDepth
      <4>3. QED
        BY <2>9, <4>1, <4>2 DEF FocusFollowsPress
    <3>2. CASE ~CanRaise(v)
      <4>1. SameDepth(u, v) /\ u.focused = v.focused
        BY <2>2, <2>5, <2>6, <3>2 DEF SameDepth, SameFocus
      <4>2. QED
        BY <2>7, <4>1, TopTransfer DEF FocusFollowsPress
    <3>3. QED
      BY <3>1, <3>2
  <2>17. QED
    BY <2>1, <2>2, <2>3, <2>5, <2>7, <2>14, <2>15, <2>16 DEF SameGesture, SameFocus, SameRest, Win, h
<1>4. QED
  BY <1>2, <1>3

\* What handling one change of the mouse leaves in order, before last_mouse is
\* brought up to date.
Handled(v, m, r) ==
  /\ Core(r.v) /\ Kept(r.v, v) /\ SameQueues(r.v, v) /\ PlacedBut(r.v, {})
  /\ r.v.last_mouse = v.last_mouse /\ r.v.mouse_initialized = v.mouse_initialized
  /\ r.v.desktop_active = v.desktop_active
  /\ r.v.launch_focus \in {v.launch_focus, 0}
  /\ r.target \in InUse(v) \cup {0} /\ r.event \in EventTypes
  /\ \A i \in InUse(v) : Win(r.v, i).dragging => m.buttons.left_button
  /\ FocusFollowsPress(r.v, v)
  /\ r.v.focused # v.focused => ~NoButton(m.buttons)

LEMMA LeftPressHandled ==
  ASSUME NEW v, Sound(v), v.desktop_active, NEW m \in MouseState, m.buttons.left_button
  PROVE  Handled(v, m, LeftPress(v, m))
<1> DEFINE other == v.last_mouse.right_button
           i == PressTarget(v, m, other)
           a == AfterPress(v, i)
           u == [a EXCEPT !.g_windows[i].dragging = TRUE]
           r == LeftPress(v, m)
<1>1. v \in Services /\ Core(v) /\ PlacedBut(v, {}) /\ HeldDown(v)
  BY DEF Sound, Core
<1>2. other \in BOOLEAN
  BY <1>1 DEF Services, Buttons
<1>3. /\ i \in InUse(v) \cup {0}
      /\ i # 0 /\ v.gesture_consumed => Win(v, i).handle = v.capture
      /\ i # 0 /\ ~v.gesture_consumed => ~v.windows_hidden
  <2> HIDE DEF other
  <2>1. QED
    BY <1>1, <1>2, PressTargetIsOpen
<1> HIDE DEF i
<1>4. /\ Core(a) /\ Kept(a, v) /\ SameInput(a, v) /\ PlacedBut(a, {})
      /\ a.last_mouse = v.last_mouse /\ a.mouse_initialized = v.mouse_initialized
      /\ a.desktop_active = v.desktop_active
      /\ a.launch_focus \in {v.launch_focus, 0}
      /\ i # 0 => a.capture = Win(v, i).handle
      /\ FocusFollowsPress(a, v)
  BY <1>1, <1>3, AfterPressEffect
<1>5. /\ r.v = IF i # 0 /\ m.part = "title" THEN u ELSE a
      /\ r.target = i /\ r.event \in EventTypes
  BY DEF LeftPress, i, EventTypes
<1> HIDE DEF a, r
<1>6. SameQueues(a, v) /\ a \in Services
  BY <1>4 DEF SameInput, SameQueues, Core
<1>7. ~NoButton(m.buttons)
  BY DEF NoButton
<1>8. CASE ~(i # 0 /\ m.part = "title")
  BY <1>3, <1>4, <1>5, <1>6, <1>7, <1>8 DEF Handled, r
<1>9. CASE i # 0 /\ m.part = "title"
  <2>1. i \in Slots
    BY <1>3, <1>9, InUseAreSlots
  <2>2. /\ u \in Services /\ Kept(u, a) /\ SameDepth(u, a) /\ SameFocus(u, a)
        /\ SameGesture(u, a) /\ SameRest(u, a) /\ SameQueues(u, a)
        /\ \A j \in Slots : Win(u, j).dragging = IF j = i THEN TRUE ELSE Win(a, j).dragging
    BY <1>6, <2>1, DragEffect
  <2> HIDE DEF u
  <2>3. InUse(u) = InUse(a) /\ InUse(a) = InUse(v) /\ InUse(u) \subseteq Slots
    BY <1>4, <2>2, KeptFacts, InUseAreSlots
  <2>4. Attached(u)
    <3>1. Win(u, i).handle = Win(v, i).handle
      BY <1>4, <2>1, <2>2 DEF Kept
    <3>2. \A j \in InUse(u) : Win(u, j).handle = Win(a, j).handle
      BY <2>2, <2>3 DEF Kept
    <3>3. QED
      BY <1>4, <1>9, <2>2, <2>3, <3>1, <3>2 DEF Attached, Core, SameGesture
  <2>5. Core(u) /\ PlacedBut(u, {})
    BY <1>4, <2>2, <2>4, CoreTransfer DEF SameGesture, SameRest
  <2>6. FocusFollowsPress(u, v)
    BY <1>4, <2>2, TopTransfer DEF FocusFollowsPress, SameFocus, SameGesture
  <2>7. Kept(u, v) /\ SameQueues(u, v)
    BY <1>4, <1>6, <2>2, KeptIsTransitive DEF SameQueues
  <2>8. r.v = u
    BY <1>5, <1>9
  <2>9. QED
    BY <1>3, <1>4, <1>5, <1>7, <2>2, <2>5, <2>6, <2>7, <2>8
    DEF Handled, r, SameGesture, SameFocus, SameRest
<1>10. QED
  BY <1>8, <1>9

\* The window that owns the gesture is the only one that can be attached.
LEMMA LeftReleaseHandled ==
  ASSUME NEW v, Sound(v), NEW m
  PROVE  Handled(v, m, LeftRelease(v))
<1> DEFINE i == find_window_handle(v, v.capture)
           u == [v EXCEPT !.g_windows[i].dragging = FALSE]
           r == LeftRelease(v)
<1>1. v \in Services /\ Core(v) /\ PlacedBut(v, {})
  BY DEF Sound, Core
<1>2. /\ i \in InUse(v) \cup {0} /\ (i # 0 => Win(v, i).handle = v.capture)
      /\ v.capture \in OpenHandles(v) <=> i # 0
  BY FoundIsOpen
<1>3. /\ r.v = IF i # 0 /\ Win(v, i).dragging THEN u ELSE v
      /\ r.target = i /\ r.event \in EventTypes
  BY DEF LeftRelease, EventTypes, Win
<1> HIDE DEF i, r
<1>4. \A j \in InUse(v) : Win(v, j).dragging => i # 0 /\ j = i
  <2> SUFFICES ASSUME NEW j \in InUse(v), Win(v, j).dragging PROVE i # 0 /\ j = i
    OBVIOUS
  <2>1. Win(v, j).handle = v.capture
    BY <1>1 DEF Core, Attached
  <2>2. i # 0
    BY <1>2, <2>1 DEF OpenHandles, Win
  <2>3. QED
    BY <1>1, <1>2, <2>1, <2>2 DEF Core, Numbered
<1>5. CASE ~(i # 0 /\ Win(v, i).dragging)
  <2>1. r.v = v
    BY <1>3, <1>5
  <2>2. QED
    BY <1>1, <1>2, <1>3, <1>4, <1>5, <2>1 DEF Handled, r, Kept, SameQueues, FocusFollowsPress
<1>6. CASE i # 0 /\ Win(v, i).dragging
  <2>1. i \in Slots
    BY <1>2, <1>6, InUseAreSlots
  <2>2. /\ u \in Services /\ Kept(u, v) /\ SameDepth(u, v) /\ SameFocus(u, v)
        /\ SameGesture(u, v) /\ SameRest(u, v) /\ SameQueues(u, v)
        /\ \A j \in Slots : Win(u, j).dragging = IF j = i THEN FALSE ELSE Win(v, j).dragging
    BY <1>1, <2>1, DragEffect
  <2> HIDE DEF u
  <2>3. InUse(u) = InUse(v) /\ InUse(u) \subseteq Slots
    BY <2>2, KeptFacts, InUseAreSlots
  <2>4. \A j \in InUse(v) : ~Win(u, j).dragging
    BY <1>4, <2>2, <2>3
  <2>5. Attached(u)
    BY <1>1, <2>2, <2>3, <2>4 DEF Core, Attached, SameGesture
  <2>6. Core(u) /\ PlacedBut(u, {})
    BY <1>1, <2>2, <2>5, CoreTransfer DEF SameGesture, SameRest
  <2>7. FocusFollowsPress(u, v)
    BY <2>2, TopTransfer DEF FocusFollowsPress, SameFocus
  <2>8. r.v = u
    BY <1>3, <1>6
  <2>9. QED
    BY <1>2, <1>3, <2>2, <2>4, <2>6, <2>7, <2>8
    DEF Handled, r, SameGesture, SameFocus, SameRest
<1>7. QED
  BY <1>5, <1>6

LEMMA RightChangeHandled ==
  ASSUME NEW v, Sound(v), v.desktop_active, NEW m \in MouseState,
         m.buttons.left_button = v.last_mouse.left_button
  PROVE  Handled(v, m, RightChange(v, m))
<1> DEFINE other == v.last_mouse.left_button
           i == PressTarget(v, m, other)
           c == find_window_handle(v, v.capture)
           a == AfterPress(v, i)
           r == RightChange(v, m)
<1>1. v \in Services /\ Core(v) /\ PlacedBut(v, {}) /\ HeldDown(v)
  BY DEF Sound, Core
<1>2. other \in BOOLEAN /\ m.buttons.right_button \in BOOLEAN
  BY <1>1 DEF Services, Buttons, MouseState
<1>3. CASE m.buttons.right_button
  <2>1. /\ i \in InUse(v) \cup {0}
        /\ i # 0 /\ v.gesture_consumed => Win(v, i).handle = v.capture
        /\ i # 0 /\ ~v.gesture_consumed => ~v.windows_hidden
    <3> HIDE DEF other
    <3>1. QED
      BY <1>1, <1>2, PressTargetIsOpen
  <2> HIDE DEF i
  <2>2. /\ Core(a) /\ Kept(a, v) /\ SameInput(a, v) /\ PlacedBut(a, {})
        /\ a.last_mouse = v.last_mouse /\ a.mouse_initialized = v.mouse_initialized
        /\ a.desktop_active = v.desktop_active
        /\ a.launch_focus \in {v.launch_focus, 0}
        /\ FocusFollowsPress(a, v)
    BY <1>1, <2>1, AfterPressEffect
  <2>3. r.v = a /\ r.target = i /\ r.event \in EventTypes
    BY <1>3 DEF RightChange, i, EventTypes
  <2> HIDE DEF a, r
  <2>4. SameQueues(a, v)
    BY <2>2 DEF SameInput, SameQueues
  <2>5. ~NoButton(m.buttons)
    BY <1>3 DEF NoButton
  <2>6. \A j \in InUse(v) : Win(a, j).dragging => m.buttons.left_button
    BY <1>1, <2>2, InUseAreSlots DEF HeldDown, SameInput
  <2>7. QED
    BY <2>1, <2>2, <2>3, <2>4, <2>5, <2>6 DEF Handled, r
<1>4. CASE ~m.buttons.right_button
  <2>1. r.v = v /\ r.target = c /\ r.event \in EventTypes
    BY <1>4 DEF RightChange, EventTypes
  <2>2. c \in InUse(v) \cup {0}
    BY FoundIsOpen
  <2> HIDE DEF r, c
  <2>3. QED
    BY <1>1, <2>1, <2>2 DEF Handled, r, Kept, SameQueues, FocusFollowsPress, HeldDown
<1>5. QED
  BY <1>2, <1>3, <1>4

LEMMA MotionHandled ==
  ASSUME NEW v, Sound(v), NEW m, m.buttons.left_button = v.last_mouse.left_button
  PROVE  Handled(v, m, Motion(v, m))
<1> DEFINE c == find_window_handle(v, v.capture)
           i == IF c = 0 /\ NoButton(m.buttons) THEN top_window_at(v, m) ELSE c
           r == Motion(v, m)
<1>1. v \in Services /\ Core(v) /\ PlacedBut(v, {}) /\ HeldDown(v)
  BY DEF Sound, Core
<1>2. i \in InUse(v) \cup {0}
  BY <1>1, FoundIsOpen, TopWindowIsOpen
<1>3. r.v = v /\ r.target = i /\ r.event \in EventTypes
  BY DEF Motion, EventTypes
<1> HIDE DEF r, i
<1>4. QED
  BY <1>1, <1>2, <1>3 DEF Handled, r, Kept, SameQueues, FocusFollowsPress, HeldDown

\* The statics of the mouse are written.
MouseWritten(v, l, s, c, g) ==
  [v EXCEPT !.last_mouse = l, !.mouse_initialized = s, !.capture = c, !.gesture_consumed = g]

\* A gesture ends only when no dragged window holds it.
MayBeWritten(v, l, s, c, g) ==
  /\ l \in Buttons /\ s \in BOOLEAN
  /\ s = v.mouse_initialized \/ InUse(v) = {}
  /\ \A i \in InUse(v) : Win(v, i).dragging => l.left_button
  /\ \/ c = v.capture /\ g = v.gesture_consumed
     \/ c = 0 /\ g = FALSE /\ ~l.left_button

LEMMA MouseKeeps ==
  ASSUME NEW v, Core(v), PlacedBut(v, {}), NEW l, NEW s, NEW c, NEW g,
         MayBeWritten(v, l, s, c, g)
  PROVE  LET u == MouseWritten(v, l, s, c, g)
         IN  /\ Sound(u) /\ Kept(u, v) /\ SameInput(u, v) /\ SameDepth(u, v)
             /\ SameFocus(u, v) /\ SameRest(u, v) /\ u.capture = c
<1> DEFINE u == MouseWritten(v, l, s, c, g)
<1>0. v \in Services /\ c \in Handles /\ g \in BOOLEAN
  <2>1. v \in Services /\ 0 \in Handles
    BY AppWindowsAssumption DEF Core, Handles
  <2>2. v.capture \in Handles /\ v.gesture_consumed \in BOOLEAN
    BY <2>1 DEF Services
  <2>3. QED
    BY <2>1, <2>2 DEF MayBeWritten
<1>1. /\ u \in Services /\ u.g_windows = v.g_windows
      /\ SameFocus(u, v) /\ SameRest(u, v)
      /\ u.last_mouse = l /\ u.mouse_initialized = s
      /\ u.capture = c /\ u.gesture_consumed = g
  BY <1>0 DEF MayBeWritten, MouseWritten, Services, SameFocus, SameRest
<1> HIDE DEF u
<1>2. Kept(u, v) /\ SameInput(u, v) /\ SameDepth(u, v)
  BY <1>1 DEF Kept, SameInput, SameDepth, Win
<1>3. InUse(u) = InUse(v) /\ \A i \in InUse(v) : Win(u, i) = Win(v, i)
  BY <1>1, <1>2, KeptFacts DEF Win
<1>4. Attached(u) /\ HeldDown(u) /\ PlacedBut(u, {})
  BY <1>1, <1>3 DEF MayBeWritten, Core, Attached, HeldDown, PlacedBut
<1>5. FocusNamesWindow(u) /\ KeysBelongTo(u)
  BY <1>1, <1>2, SameFocusFacts DEF MayBeWritten, Core
<1>6. Numbered(u) /\ WindowsNeedDesktop(u)
  BY <1>1, <1>3 DEF MayBeWritten, Core, Numbered, WindowsNeedDesktop, SameRest, SameFocus
<1>7. Sound(u)
  BY <1>1, <1>4, <1>5, <1>6 DEF Sound, Core
<1>8. QED
  BY <1>1, <1>2, <1>7 DEF u

\* With no button down the snapshot also ends the gesture.
LEMMA EndGestureIsWrite ==
  ASSUME NEW v \in Services, NEW l, NEW s
  PROVE  LET f == [v EXCEPT !.last_mouse = l, !.mouse_initialized = s]
         IN  /\ EndGesture(f) = MouseWritten(v, l, s, 0, FALSE)
             /\ f = MouseWritten(v, l, s, v.capture, v.gesture_consumed)
BY DEF EndGesture, MouseWritten, Services

\* What one routed snapshot of the mouse does.
Routed(u, v) ==
  /\ Sound(u) /\ Kept(u, v)
  /\ u.desktop_active = v.desktop_active
  /\ u.launch_focus \in {v.launch_focus, 0}
  /\ \A j \in Slots :
       Win(v, j).input_queue = <<"CLOSE">> => Win(u, j).input_queue = <<"CLOSE">>
  /\ FocusFollowsPress(u, v)

LEMMA NothingRouted ==
  ASSUME NEW v, Sound(v)
  PROVE  Routed(v, v)
BY DEF Routed, Kept, FocusFollowsPress

LEMMA PublishEffect ==
  ASSUME NEW v, Sound(v), v.desktop_active, NEW m \in MouseState
  PROVE  Routed(publish_pointer_event(v, m), v)
<1> DEFINE b     == m.buttons
           left  == b.left_button # v.last_mouse.left_button
           right == ~left /\ b.right_button # v.last_mouse.right_button
           r == IF left THEN (IF b.left_button THEN LeftPress(v, m) ELSE LeftRelease(v))
                ELSE IF right THEN RightChange(v, m)
                ELSE Motion(v, m)
           l == IF left THEN [v.last_mouse EXCEPT !.left_button = b.left_button] ELSE b
           e == NoButton(b)
<1>1. v \in Services /\ Core(v) /\ PlacedBut(v, {}) /\ HeldDown(v)
  BY DEF Sound, Core
<1>2. /\ b \in Buttons /\ v.last_mouse \in Buttons
      /\ b.left_button \in BOOLEAN /\ v.last_mouse.left_button \in BOOLEAN
  BY <1>1 DEF MouseState, Services, Buttons
<1>3. e \in BOOLEAN /\ (e => ~b.left_button)
  BY DEF NoButton
<1>4. CASE ~v.mouse_initialized
  <2> DEFINE f == [v EXCEPT !.last_mouse = b, !.mouse_initialized = TRUE]
             u == IF e THEN EndGesture(f) ELSE f
  <2>1. publish_pointer_event(v, m) = u
    BY <1>4 DEF publish_pointer_event
  <2>2. InUse(v) = {}
    BY <1>1, <1>4 DEF Core, WindowsNeedDesktop
  <2>3. /\ Sound(u) /\ Kept(u, v) /\ SameInput(u, v) /\ SameDepth(u, v)
        /\ SameFocus(u, v) /\ SameRest(u, v)
    <3>1. CASE e
      <4>1. u = MouseWritten(v, b, TRUE, 0, FALSE)
        BY <1>1, <3>1, EndGestureIsWrite
      <4>2. MayBeWritten(v, b, TRUE, 0, FALSE)
        BY <1>2, <1>3, <2>2, <3>1 DEF MayBeWritten
      <4> HIDE DEF u
      <4>3. QED
        BY <1>1, <4>1, <4>2, MouseKeeps
    <3>2. CASE ~e
      <4>1. u = MouseWritten(v, b, TRUE, v.capture, v.gesture_consumed)
        BY <1>1, <3>2, EndGestureIsWrite
      <4>2. MayBeWritten(v, b, TRUE, v.capture, v.gesture_consumed)
        BY <1>2, <1>3, <2>2, <3>2 DEF MayBeWritten
      <4> HIDE DEF u
      <4>3. QED
        BY <1>1, <4>1, <4>2, MouseKeeps
    <3>3. QED
      BY <1>3, <3>1, <3>2
  <2> HIDE DEF u
  <2>4. FocusFollowsPress(u, v)
    BY <2>3, TopTransfer DEF FocusFollowsPress, SameFocus
  <2>5. Routed(u, v)
    BY <2>3, <2>4 DEF Routed, SameInput, SameFocus, SameRest
  <2>6. QED
    BY <2>1, <2>5
<1>5. CASE v.mouse_initialized /\ b = v.last_mouse /\ ~m.moved
  <2>1. publish_pointer_event(v, m) = v
    BY <1>5 DEF publish_pointer_event
  <2>2. QED
    BY <2>1, NothingRouted
<1>6. CASE v.mouse_initialized /\ ~(b = v.last_mouse /\ ~m.moved)
  <2> DEFINE a == r.v
             u == [a EXCEPT !.last_mouse = l]
             w == IF e THEN EndGesture(u) ELSE u
  <2>1. Handled(v, m, r)
    <3>1. CASE left /\ b.left_button
      <4>1. r = LeftPress(v, m)
        BY <3>1
      <4>2. QED
        BY <3>1, <4>1, LeftPressHandled
    <3>2. CASE left /\ ~b.left_button
      <4>1. r = LeftRelease(v)
        BY <3>2
      <4>2. QED
        BY <4>1, LeftReleaseHandled
    <3>3. CASE right
      <4>1. r = RightChange(v, m)
        BY <3>3
      <4>2. QED
        BY <3>3, <4>1, RightChangeHandled
    <3>4. CASE ~left /\ ~right
      <4>1. r = Motion(v, m)
        BY <3>4
      <4>2. QED
        BY <3>4, <4>1, MotionHandled
    <3>5. QED
      BY <3>1, <3>2, <3>3, <3>4
  <2>2. l \in Buttons /\ l.left_button = b.left_button
    BY <1>2 DEF Buttons
  <2>3. publish_pointer_event(v, m) =
          IF r.target = 0 \/ r.chrome THEN w ELSE Queue(w, r.target, r.event)
    <3>1. publish_pointer_event(v, m) =
            LET uu == [r.v EXCEPT !.last_mouse =
                          IF left THEN [@ EXCEPT !.left_button = b.left_button] ELSE b]
                ww == IF NoButton(b) THEN EndGesture(uu) ELSE uu
            IN IF r.target = 0 \/ r.chrome THEN ww ELSE Queue(ww, r.target, r.event)
      BY <1>6 DEF publish_pointer_event
    <3>2. a.last_mouse = v.last_mouse
      BY <2>1 DEF Handled
    <3> HIDE DEF r
    <3>3. QED
      BY <3>1, <3>2
  <2> HIDE DEF r, l, e
  <2>4. /\ Core(a) /\ Kept(a, v) /\ SameQueues(a, v) /\ PlacedBut(a, {})
        /\ a.mouse_initialized = v.mouse_initialized
        /\ a.desktop_active = v.desktop_active
        /\ a.launch_focus \in {v.launch_focus, 0}
        /\ r.target \in InUse(v) \cup {0} /\ r.event \in EventTypes
        /\ \A i \in InUse(v) : Win(a, i).dragging => b.left_button
        /\ FocusFollowsPress(a, v)
        /\ a.focused # v.focused => ~e
    BY <2>1 DEF Handled, e
  <2> HIDE DEF a
  <2>5. InUse(a) = InUse(v)
    BY <2>4, KeptFacts
  <2>6. /\ Sound(w) /\ Kept(w, a) /\ SameInput(w, a) /\ SameDepth(w, a)
        /\ SameFocus(w, a) /\ SameRest(w, a) /\ (~e => w.capture = a.capture)
    <3> DEFINE s == a.mouse_initialized
    <3>1. a \in Services /\ s \in BOOLEAN
      BY <2>4 DEF Core, Services
    <3>2. \A i \in InUse(a) : Win(a, i).dragging => l.left_button
      BY <2>2, <2>4, <2>5
    <3>3. u = [a EXCEPT !.last_mouse = l, !.mouse_initialized = s]
      BY <3>1 DEF Services
    <3>4. CASE e
      <4>1. w = MouseWritten(a, l, s, 0, FALSE)
        BY <3>1, <3>3, <3>4, EndGestureIsWrite
      <4>2. MayBeWritten(a, l, s, 0, FALSE)
        BY <1>3, <2>2, <3>1, <3>2, <3>4 DEF MayBeWritten
      <4> HIDE DEF w
      <4>3. QED
        BY <2>4, <3>4, <4>1, <4>2, MouseKeeps
    <3>5. CASE ~e
      <4>1. w = MouseWritten(a, l, s, a.capture, a.gesture_consumed)
        BY <3>1, <3>3, <3>5, EndGestureIsWrite
      <4>2. MayBeWritten(a, l, s, a.capture, a.gesture_consumed)
        BY <1>3, <2>2, <3>1, <3>2 DEF MayBeWritten
      <4>3. QED
        BY <2>4, <4>1, <4>2, MouseKeeps
    <3>6. QED
      BY <1>3, <3>4, <3>5
  <2> HIDE DEF w
  <2>7. Routed(w, v)
    <3>1. Kept(w, v)
      BY <2>4, <2>6, KeptIsTransitive
    <3>2. FocusFollowsPress(w, v)
      <4>1. CASE w.focused = v.focused
        BY <2>4, <2>6, <4>1, TopTransfer DEF FocusFollowsPress, SameFocus
      <4>2. CASE w.focused # v.focused
        BY <2>4, <2>6, <4>2 DEF FocusFollowsPress, SameFocus
      <4>3. QED
        BY <4>1, <4>2
    <3>3. QED
      BY <2>4, <2>6, <3>1, <3>2 DEF Routed, SameInput, SameQueues, SameFocus, SameRest
  <2>8. CASE r.target = 0 \/ r.chrome
    BY <2>3, <2>7, <2>8
  <2>9. CASE ~(r.target = 0 \/ r.chrome)
    <3> DEFINE i == r.target
               x == Queue(w, i, r.event)
    <3>1. i \in Slots
      BY <2>4, <2>9, InUseAreSlots
    <3>2. /\ Sound(x) /\ Kept(x, w) /\ SameDepth(x, w) /\ SameFocus(x, w)
          /\ SameGesture(x, w) /\ SameRest(x, w)
          /\ \A j \in Slots :
               Win(w, j).input_queue = <<"CLOSE">> => Win(x, j).input_queue = <<"CLOSE">>
      BY <2>4, <2>6, <3>1, QueueEffect
    <3> HIDE DEF x, i
    <3>3. Kept(x, v)
      BY <2>7, <3>2, KeptIsTransitive DEF Routed
    <3>4. FocusFollowsPress(x, v)
      BY <2>7, <3>2, TopTransfer DEF Routed, FocusFollowsPress, SameFocus, SameGesture
    <3>5. Routed(x, v)
      BY <2>7, <3>2, <3>3, <3>4 DEF Routed, SameFocus, SameRest
    <3>6. QED
      BY <2>3, <2>9, <3>5 DEF x, i
  <2>10. QED
    BY <2>8, <2>9
<1>7. QED
  BY <1>4, <1>5, <1>6

LEMMA RouteEffect ==
  ASSUME NEW v, Sound(v), NEW m \in MouseState
  PROVE  Routed(app_services_route_pointer(v, m), v)
BY PublishEffect, NothingRouted DEF app_services_route_pointer

----------------------------------------------------------------------------
(* Focus, keys and the launch grant *)

\* The statics of the keyboard focus are written.
FocusWritten(v, f, h, hid, p, ks) ==
  [v EXCEPT !.focused = f, !.hidden_focused = h, !.windows_hidden = hid,
            !.launch_focus = p, !.keys = ks]

\* The focus names open windows, and no key in the ring was typed for another.
MayFocus(v, f, h, hid, p, ks) ==
  /\ f \in OpenHandles(v) \cup {0} /\ h \in OpenHandles(v) \cup {0} /\ hid \in BOOLEAN
  /\ p \in 0 .. ProcessIdMax /\ ks \in Seq(Handles)
  /\ hid \/ ~v.desktop_active => f = 0
  /\ ~hid => h = 0
  /\ \A k \in DOMAIN ks : ks[k] = f

LEMMA FocusWriteKeeps ==
  ASSUME NEW v, Core(v), NEW f, NEW h, NEW hid, NEW p, NEW ks,
         MayFocus(v, f, h, hid, p, ks)
  PROVE  LET u == FocusWritten(v, f, h, hid, p, ks)
         IN  /\ Core(u) /\ u.g_windows = v.g_windows /\ SameGesture(u, v)
             /\ u.g_next_handle = v.g_next_handle /\ u.g_next_z_order = v.g_next_z_order
             /\ u.desktop_active = v.desktop_active
             /\ u.focused = f /\ u.hidden_focused = h /\ u.windows_hidden = hid
             /\ u.launch_focus = p /\ u.keys = ks
             /\ Sound(v) => Sound(u)
<1> DEFINE u == FocusWritten(v, f, h, hid, p, ks)
<1>1. v \in Services /\ OpenHandles(v) \cup {0} \subseteq Handles
  <2>1. v \in Services /\ 0 \in Handles
    BY AppWindowsAssumption DEF Core, Handles
  <2>2. \A i \in InUse(v) : v.g_windows[i].handle \in Handles
    BY <2>1, WindowFacts, InUseAreSlots DEF Win
  <2>3. QED
    BY <2>1, <2>2 DEF OpenHandles
<1>2. /\ f \in Handles /\ h \in Handles /\ hid \in BOOLEAN
      /\ p \in 0 .. ProcessIdMax /\ ks \in Seq(Handles)
  BY <1>1 DEF MayFocus
<1>3. /\ u \in Services /\ u.g_windows = v.g_windows /\ SameGesture(u, v)
      /\ u.g_next_handle = v.g_next_handle /\ u.g_next_z_order = v.g_next_z_order
      /\ u.desktop_active = v.desktop_active
      /\ u.focused = f /\ u.hidden_focused = h /\ u.windows_hidden = hid
      /\ u.launch_focus = p /\ u.keys = ks
  BY <1>1, <1>2 DEF FocusWritten, Services, SameGesture
<1> HIDE DEF u
<1>4. InUse(u) = InUse(v) /\ OpenHandles(u) = OpenHandles(v)
  BY <1>3 DEF InUse, OpenHandles
<1>5. \A i \in InUse(v) : Win(u, i) = Win(v, i)
  BY <1>3 DEF Win
<1>6. FocusNamesWindow(u) /\ KeysBelongTo(u)
  BY <1>3, <1>4 DEF Core, FocusNamesWindow, KeysBelongTo, MayFocus, SameGesture
<1>7. Numbered(u) /\ Attached(u) /\ WindowsNeedDesktop(u)
  BY <1>3, <1>4, <1>5 DEF Core, Numbered, Attached, WindowsNeedDesktop, SameGesture
<1>8. Core(u)
  BY <1>3, <1>6, <1>7 DEF Core
<1>9. Sound(v) => Sound(u)
  BY <1>3, <1>4, <1>5, <1>8 DEF Sound, HeldDown, PlacedBut, SameGesture
<1>10. QED
  BY <1>3, <1>8, <1>9 DEF u

\* Every window is asked to close.
LEMMA CloseAllEffect ==
  ASSUME NEW v, Sound(v)
  PROVE  LET u == queue_all_window_close_events(v)
         IN  /\ Sound(u) /\ Kept(u, v) /\ SameDepth(u, v) /\ SameFocus(u, v)
             /\ SameGesture(u, v) /\ SameRest(u, v)
             /\ \A j \in Slots :
                  Win(v, j).input_queue = <<"CLOSE">> => Win(u, j).input_queue = <<"CLOSE">>
<1> DEFINE W == [i \in Slots |-> AskedToClose(v.g_windows[i])]
           u == [v EXCEPT !.g_windows = W]
<1>1. v \in Services /\ Core(v) /\ HeldDown(v) /\ PlacedBut(v, {})
  BY DEF Sound, Core
<1>2. queue_all_window_close_events(v) = u
  BY DEF queue_all_window_close_events
<1>3. ASSUME NEW i \in Slots
      PROVE  /\ W[i] \in Window /\ W[i].handle = Win(v, i).handle
             /\ W[i].process_id = Win(v, i).process_id
             /\ W[i].z_order = Win(v, i).z_order /\ W[i].dragging = Win(v, i).dragging
             /\ Win(v, i).input_queue = <<"CLOSE">> => W[i].input_queue = <<"CLOSE">>
  <2> DEFINE q == queue_window_input(v.g_windows[i].input_queue, "CLOSE")
             x == [v.g_windows[i] EXCEPT !.input_queue = q]
  <2>1. W[i] = IF v.g_windows[i].handle = 0 THEN v.g_windows[i] ELSE x
    BY DEF AskedToClose
  <2>2. v.g_windows[i] \in Window
    BY <1>1, WindowFacts DEF Win
  <2>3. q = <<"CLOSE">>
    BY DEF queue_window_input
  <2>4. q \in Seq(EventTypes)
    <3>1. <<"CLOSE">> \in Seq(EventTypes)
      BY DEF EventTypes
    <3>2. QED
      BY <2>3, <3>1
  <2> HIDE DEF q, W
  <2>5. /\ x \in Window /\ x.handle = Win(v, i).handle
        /\ x.process_id = Win(v, i).process_id
        /\ x.z_order = Win(v, i).z_order /\ x.dragging = Win(v, i).dragging
        /\ x.input_queue = q
    BY <2>2, <2>4 DEF Window, Win
  <2> HIDE DEF x
  <2>6. QED
    BY <2>1, <2>2, <2>3, <2>5 DEF Win
<1>4. W \in [Slots -> Window]
  <2>1. \A i \in Slots : W[i] \in Window
    BY <1>3
  <2>2. W = [i \in Slots |-> W[i]]
    OBVIOUS
  <2> HIDE DEF W
  <2>3. QED
    BY <2>1, <2>2
<1> HIDE DEF W
<1>5. /\ u \in Services /\ u.g_windows = W
      /\ SameFocus(u, v) /\ SameGesture(u, v) /\ SameRest(u, v)
  BY <1>1, <1>4 DEF Services, SameFocus, SameGesture, SameRest
<1> HIDE DEF u
<1>6. \A i \in Slots : Win(u, i) = W[i]
  BY <1>5 DEF Win
<1>7. Kept(u, v) /\ SameDepth(u, v)
  BY <1>3, <1>6 DEF Kept, SameDepth
<1>8. InUse(u) = InUse(v) /\ InUse(v) \subseteq Slots
  BY <1>7, KeptFacts, InUseAreSlots
<1>9. Attached(u) /\ HeldDown(u)
  BY <1>1, <1>3, <1>5, <1>6, <1>8 DEF Core, Attached, HeldDown, SameGesture
<1>10. Core(u) /\ PlacedBut(u, {})
  BY <1>1, <1>5, <1>7, <1>9, CoreTransfer DEF SameGesture, SameRest
<1>11. QED
  BY <1>2, <1>3, <1>5, <1>6, <1>7, <1>9, <1>10 DEF Sound

----------------------------------------------------------------------------
(* The steps *)

\* A request to close stays queued until its window takes it or goes away.
CloseKept(u, v) ==
  \A i \in Slots :
    /\ <<"CLOSE">> = v.g_windows[i].input_queue
    /\ u.g_windows[i].handle = v.g_windows[i].handle
    => u.g_windows[i].input_queue \in {<<"CLOSE">>, <<>>}

\* The ways in which the focus may move.
NotStolen(u, v) ==
  LET new == u.focused
      i == find_window_handle(u, new)
  IN IF new = v.focused
     THEN new # 0 /\ IsTop(v, new) => IsTop(u, new)
     ELSE \/ new = 0
          \/ u.capture = new /\ v.capture = 0
          \/ v.launch_focus = u.g_windows[i].process_id
          \/ v.focused # 0 /\ v.focused \notin OpenHandles(u)
          \/ v.windows_hidden /\ new = v.hidden_focused

Good(u, v) == Sound(u) /\ CloseKept(u, v) /\ NotStolen(u, v)

\* The windows stay, whatever happens to the focus.
LEMMA SameWindowsFacts ==
  ASSUME NEW u, NEW v, u.g_windows = v.g_windows
  PROVE  /\ Kept(u, v) /\ SameDepth(u, v) /\ SameInput(u, v) /\ CloseKept(u, v)
         /\ \A h : IsTop(v, h) => IsTop(u, h)
BY DEF Kept, SameDepth, SameInput, CloseKept, Win, IsTop, InUse

LEMMA OwnedTransfer ==
  ASSUME NEW u, NEW v, NEW R, Kept(u, v), OwnedBy(v, R), u.launch_focus \in R \cup {0}
  PROVE  OwnedBy(u, R)
<1>1. InUse(u) = InUse(v) /\ InUse(v) \subseteq Slots
  BY KeptFacts, InUseAreSlots
<1>2. QED
  BY <1>1 DEF OwnedBy, Kept

LEMMA RoutedIsGood ==
  ASSUME NEW u, NEW v, NEW R, Routed(u, v), OwnedBy(v, R)
  PROVE  Good(u, v) /\ OwnedBy(u, R)
<1>1. CloseKept(u, v)
  BY DEF Routed, CloseKept, Win
<1>2. NotStolen(u, v)
  BY DEF Routed, NotStolen, FocusFollowsPress
<1>3. OwnedBy(u, R)
  BY OwnedTransfer DEF Routed, OwnedBy
<1>4. QED
  BY <1>1, <1>2, <1>3 DEF Good, Routed

\* A write of the focus is good when the focus is given up, stays, or comes back
\* from Show Desktop.
LEMMA FocusWriteIsGood ==
  ASSUME NEW v, Sound(v), NEW f, NEW h, NEW hid, NEW p, NEW ks, NEW R,
         MayFocus(v, f, h, hid, p, ks), OwnedBy(v, R), p \in R \cup {0},
         f \in {0, v.focused} \/ (v.windows_hidden /\ f = v.hidden_focused)
  PROVE  LET u == FocusWritten(v, f, h, hid, p, ks)
         IN  Good(u, v) /\ OwnedBy(u, R)
<1> DEFINE u == FocusWritten(v, f, h, hid, p, ks)
<1>1. Sound(u) /\ u.g_windows = v.g_windows /\ u.focused = f /\ u.launch_focus = p
  BY FocusWriteKeeps DEF Sound
<1> HIDE DEF u
<1>2. Kept(u, v) /\ CloseKept(u, v) /\ \A x : IsTop(v, x) => IsTop(u, x)
  BY <1>1, SameWindowsFacts
<1>3. NotStolen(u, v)
  BY <1>1, <1>2 DEF NotStolen
<1>4. QED
  BY <1>1, <1>2, <1>3, OwnedTransfer DEF Good, u

\* Windows are closed: those of one process, or one of its windows.  The launch
\* grant may have been taken back just before, which w does not know of.
LEMMA CloseIsGood ==
  ASSUME NEW v, Sound(v), NEW w, w.g_windows = v.g_windows, w.focused = v.focused, 
         NEW S \in SUBSET InUse(v), NEW T,
         \A i \in InUse(v) \ S : Win(v, i).process_id \in T,
         v.launch_focus \in T \cup {0}
  PROVE  LET u == CloseWindows(v, S)
         IN  Good(u, w) /\ OwnedBy(u, T)
<1> DEFINE u == CloseWindows(v, S)
<1>1. Core(v) /\ HeldDown(v) /\ PlacedBut(v, S)
  BY DEF Sound, PlacedBut
<1>2. /\ Core(u) /\ InUse(u) = InUse(v) \ S
      /\ HeldDown(v) => HeldDown(u)
      /\ PlacedBut(v, S) => PlacedBut(u, {})
      /\ \A i \in InUse(u) : Win(u, i) = Win(v, i)
      /\ u.launch_focus \in {v.launch_focus, 0}
      /\ \A i \in S : Win(u, i) = ClearedWindow
      /\ \A i \in Slots \ S : Win(u, i) = Win(v, i)
      /\ \/ u.focused \in {v.focused, 0}
         \/ v.focused # 0 /\ v.focused \notin OpenHandles(u)
  BY <1>1, CloseKeeps
<1> HIDE DEF u
<1>3. Sound(u)
  BY <1>1, <1>2 DEF Sound
<1>4. CloseKept(u, w)
  <2>1. ClearedWindow.input_queue = <<>>
    BY DEF ClearedWindow
  <2>2. QED
    BY <1>2, <2>1 DEF CloseKept, Win
<1>5. NotStolen(u, w)
  <2>1. \A h : IsTop(w, h) => IsTop(u, h)
    <3>1. InUse(w) = InUse(v)
      BY DEF InUse
    <3>2. QED
      BY <1>2, <3>1 DEF IsTop, Win
  <2>2. QED
    BY <1>2, <2>1 DEF NotStolen
<1>6. OwnedBy(u, T)
  BY <1>2 DEF OwnedBy
<1>7. QED
  BY <1>3, <1>4, <1>5, <1>6 DEF Good, u

----------------------------------------------------------------------------
(* A new window *)

\* The slot handed out is a free one.
LEMMA SlotIsFree ==
  ASSUME NEW v, NEW p, allocate_window_slot(v, p) # 0
  PROVE  allocate_window_slot(v, p) \in Slots \ InUse(v)
<1> DEFINE F == Slots \ InUse(v)
           R == {ss \in Nat \X Nat : ss[1] < ss[2]}
<1>1. /\ allocate_window_slot(v, p) = CHOOSE k \in F : \A j \in F : k <= j
      /\ InUse(v) # Slots
  BY DEF allocate_window_slot
<1>2. F \in SUBSET Nat /\ F # {}
  BY <1>1, InUseAreSlots DEF Slots
<1>3. IsWellFoundedOn(R, Nat)
  BY NatLessThanWellFounded, Zenon DEF OpToRel
<1>4. \A x, y \in Nat : <<y, x>> \in R <=> y < x
  OBVIOUS
<1> HIDE DEF R, F
<1>5. PICK x \in F : \A y \in F : ~(<<y, x>> \in R)
  BY <1>2, <1>3, WFMin
<1>6. \A y \in F : x <= y
  <2> TAKE y \in F
  <2>1. x \in Nat /\ y \in Nat /\ ~(<<y, x>> \in R)
    BY <1>2, <1>5
  <2>2. QED
    BY <1>4, <2>1
<1>7. QED
  BY <1>1, <1>6, Zenon DEF F

NoEvents == <<>>

\* The record that dispatch_window_create writes before it places the window.
WindowMade(v, p, i, b) ==
  [v EXCEPT !.g_next_handle = NextHandle(@),
            !.g_windows[i] = [ClearedWindow EXCEPT !.handle = v.g_next_handle,
                                                   !.process_id = p],
            !.last_mouse = IF v.mouse_initialized THEN @ ELSE b,
            !.mouse_initialized = TRUE]

\* Slot i has a window of p that no other handle names and that has no depth yet.
MadeFacts(u, v, p, i) ==
  /\ Core(u) /\ HeldDown(u) /\ PlacedBut(u, {i}) /\ i \in InUse(u)
  /\ Win(u, i).handle = v.g_next_handle /\ Win(u, i).process_id = p
  /\ Win(u, i).input_queue = NoEvents
  /\ \A j \in Slots : j # i => Win(u, j) = Win(v, j)
  /\ InUse(u) = InUse(v) \cup {i}
  /\ SameFocus(u, v) /\ u.launch_focus = v.launch_focus
  /\ v.g_next_handle # 0 /\ v.g_next_handle \notin OpenHandles(v)

LEMMA WindowMadeEffect ==
  ASSUME NEW v, Sound(v), v.desktop_active, v.g_next_handle # 0,
         NEW p \in Processes, NEW i \in Slots \ InUse(v), NEW b \in Buttons
  PROVE  MadeFacts(WindowMade(v, p, i, b), v, p, i)
<1> DEFINE h == v.g_next_handle
           n == NextHandle(h)
           x == [ClearedWindow EXCEPT !.handle = h, !.process_id = p]
           W == [v.g_windows EXCEPT ![i] = x]
           l == IF v.mouse_initialized THEN v.last_mouse ELSE b
           u == [v EXCEPT !.g_next_handle = n, !.g_windows = W, !.last_mouse = l,
                          !.mouse_initialized = TRUE]
<1>1. v \in Services /\ Core(v) /\ HeldDown(v) /\ PlacedBut(v, {})
  BY DEF Sound, Core
<1>2. WindowMade(v, p, i, b) = u
  BY DEF WindowMade
<1>3. h \in Handles /\ n \in Handles /\ p \in 0 .. ProcessIdMax /\ l \in Buttons /\ h \in Nat
  BY <1>1, AppWindowsAssumption DEF Services, Handles, NextHandle, Processes
<1>4. n # 0 => n = h + 1
  BY DEF NextHandle
<1> HIDE DEF h, n
<1>5. /\ x \in Window /\ x.handle = h /\ x.process_id = p /\ x.z_order = 0
      /\ x.input_queue = <<>> /\ x.dragging = FALSE
  <2>1. <<>> \in Seq(EventTypes) /\ 0 \in 0 .. ZOrderMax
    BY AppWindowsAssumption
  <2>2. /\ ClearedWindow \in Window /\ ClearedWindow.z_order = 0
        /\ ClearedWindow.input_queue = <<>> /\ ClearedWindow.dragging = FALSE
    BY <2>1, AppWindowsAssumption DEF Window, ClearedWindow, Handles
  <2>3. QED
    BY <1>3, <2>2 DEF Window
<1>6. l = v.last_mouse \/ InUse(v) = {}
  BY <1>1 DEF Core, WindowsNeedDesktop
<1> HIDE DEF x, l
<1>7. /\ W \in [Slots -> Window]
      /\ \A j \in Slots : W[j] = IF j = i THEN x ELSE v.g_windows[j]
  BY <1>1, <1>5 DEF Services
<1> HIDE DEF W
<1>8. /\ u \in Services /\ u.g_windows = W /\ SameFocus(u, v)
      /\ u.g_next_handle = n /\ u.g_next_z_order = v.g_next_z_order
      /\ u.launch_focus = v.launch_focus /\ u.capture = v.capture
      /\ u.gesture_consumed = v.gesture_consumed
      /\ u.last_mouse = l /\ u.mouse_initialized = TRUE
  BY <1>1, <1>3, <1>7 DEF Services, SameFocus
<1> HIDE DEF u
<1>9. \A j \in Slots : Win(u, j) = IF j = i THEN x ELSE Win(v, j)
  BY <1>7, <1>8 DEF Win
<1>10. InUse(v) \subseteq Slots /\ h # 0
  BY InUseAreSlots DEF h
<1>11. InUse(u) = InUse(v) \cup {i}
  BY <1>5, <1>9, <1>10 DEF InUse, Win
<1>12. \A j \in InUse(v) : j # i /\ j \in Slots /\ Win(u, j) = Win(v, j)
  BY <1>9, <1>10
<1>13. Win(u, i) = x
  BY <1>9
<1>14. OpenHandles(v) \subseteq OpenHandles(u)
  BY <1>11, <1>12 DEF OpenHandles, Win
<1>15. \A j \in InUse(v) : Win(v, j).handle < h /\ Win(v, j).handle \in Nat
  BY <1>1, <1>10, WindowFacts DEF Core, Numbered, h, Handles
<1>16. h \notin OpenHandles(v)
  BY <1>3, <1>15 DEF OpenHandles, Win
<1>17. Numbered(u)
  <2>1. \A j \in InUse(v) : Win(v, j).z_order # 0
    BY <1>1 DEF PlacedBut
  <2>2. \A j, k \in InUse(u) : j # k => /\ Win(u, j).handle # Win(u, k).handle
                                        /\ Win(u, j).z_order # Win(u, k).z_order
    <3> SUFFICES ASSUME NEW j \in InUse(u), NEW k \in InUse(u), j # k
                 PROVE  /\ Win(u, j).handle # Win(u, k).handle
                        /\ Win(u, j).z_order # Win(u, k).z_order
      OBVIOUS
    <3>1. CASE j \in InUse(v) /\ k \in InUse(v)
      BY <1>1, <1>12, <3>1 DEF Core, Numbered
    <3>2. CASE j = i /\ k \in InUse(v)
      BY <1>3, <1>5, <1>12, <1>13, <1>15, <2>1, <3>2
    <3>3. CASE k = i /\ j \in InUse(v)
      BY <1>3, <1>5, <1>12, <1>13, <1>15, <2>1, <3>3
    <3>4. QED
      BY <1>11, <3>1, <3>2, <3>3
  <2>3. u.g_next_handle # 0 => \A j \in InUse(u) : Win(u, j).handle < u.g_next_handle
    BY <1>3, <1>4, <1>5, <1>8, <1>11, <1>12, <1>13, <1>15
  <2>4. u.g_next_z_order # 0 => \A j \in InUse(u) : Win(u, j).z_order < u.g_next_z_order
    <3>1. v.g_next_z_order \in Nat
      BY <1>1 DEF Services
    <3>2. QED
      BY <1>1, <1>5, <1>8, <1>11, <1>12, <1>13, <3>1 DEF Core, Numbered
  <2>5. QED
    BY <2>2, <2>3, <2>4 DEF Numbered
<1>18. FocusNamesWindow(u) /\ KeysBelongTo(u)
  BY <1>1, <1>8, <1>14 DEF Core, FocusNamesWindow, KeysBelongTo, SameFocus
<1>19. Attached(u) /\ HeldDown(u) /\ PlacedBut(u, {i})
  BY <1>1, <1>5, <1>6, <1>8, <1>11, <1>12, <1>13 DEF Core, Attached, HeldDown, PlacedBut
<1>20. WindowsNeedDesktop(u)
  BY <1>8 DEF WindowsNeedDesktop, SameFocus
<1>21. Core(u)
  BY <1>8, <1>17, <1>18, <1>19, <1>20 DEF Core
<1>22. MadeFacts(u, v, p, i)
  BY <1>5, <1>8, <1>9, <1>10, <1>11, <1>13, <1>16, <1>19, <1>21 DEF h, NoEvents, MadeFacts
<1>23. QED
  BY <1>2, <1>22

\* What placing the new window of v, which a has, comes to.
PlacedFacts(r, a, v, p, i) ==
  /\ Core(r.v) /\ HeldDown(r.v) /\ Kept(r.v, a) /\ SameInput(r.v, a)
  /\ r.v.launch_focus \in {v.launch_focus, 0}
  /\ PlacedBut(r.v, {i})
  /\ r.placed => /\ PlacedBut(r.v, {})
                 /\ \/ r.v.focused = v.focused /\ IsTop(r.v, v.focused)
                    \/ r.v.focused = v.g_next_handle /\ v.launch_focus = p
  /\ ~r.placed => /\ r.v.focused = v.focused
                  /\ \A j \in Slots : j # i => Win(r.v, j).z_order = Win(a, j).z_order

LEMMA PlaceEffect ==
  ASSUME NEW v, Sound(v), v.desktop_active, v.g_next_handle # 0,
         NEW p \in Processes, NEW i \in Slots \ InUse(v), NEW b \in Buttons
  PROVE  LET a == WindowMade(v, p, i, b)
         IN  PlacedFacts(PlaceNewWindow(a, p, i), a, v, p, i)
<1> DEFINE a == WindowMade(v, p, i, b)
           h == v.g_next_handle
           r == PlaceNewWindow(a, p, i)
<1>0. MadeFacts(a, v, p, i)
  BY WindowMadeEffect
<1> HIDE DEF a
<1>1. /\ Core(a) /\ HeldDown(a) /\ PlacedBut(a, {i}) /\ i \in InUse(a)
      /\ Win(a, i).handle = h
      /\ SameFocus(a, v) /\ a.launch_focus = v.launch_focus
      /\ h # 0 /\ h \notin OpenHandles(v)
  BY <1>0 DEF MadeFacts
<1>2. a.focused = v.focused /\ a.desktop_active /\ v.focused # h
  BY <1>1 DEF SameFocus, Sound, Core, FocusNamesWindow
<1>3. CASE a.launch_focus = p
  <2> DEFINE f == a.focused
             g == a.launch_focus
             ks == a.keys
             hid == FALSE
             c == FocusWritten(a, f, 0, hid, g, ks)
             d == focus_window(c, i)
  <2>1. a \in Services /\ FocusNamesWindow(a) /\ KeysBelongTo(a)
    BY <1>1 DEF Core
  <2>2. MayFocus(a, f, 0, hid, g, ks)
    BY <1>2, <2>1 DEF MayFocus, Services, FocusNamesWindow, KeysBelongTo
  <2>3. [a EXCEPT !.windows_hidden = FALSE, !.hidden_focused = 0] = c
    BY <2>1 DEF FocusWritten, Services
  <2>4. r = [placed |-> CanRaise(a), v |-> d]
    BY <1>3, <2>3 DEF PlaceNewWindow
  <2> HIDE DEF f, g, ks, hid
  <2>5. /\ Core(c) /\ c.g_windows = a.g_windows /\ SameGesture(c, a)
        /\ c.g_next_z_order = a.g_next_z_order /\ c.desktop_active = a.desktop_active
        /\ c.focused = f /\ c.windows_hidden = hid /\ c.launch_focus = g
    BY <1>1, <2>2, FocusWriteKeeps
  <2> HIDE DEF c
  <2>6. Kept(c, a) /\ SameDepth(c, a) /\ SameInput(c, a) /\ InUse(c) = InUse(a)
    BY <2>5, SameWindowsFacts, KeptFacts
  <2>7. HeldDown(c) /\ PlacedBut(c, {i}) /\ (CanRaise(c) <=> CanRaise(a))
    BY <1>1, <2>5, <2>6 DEF HeldDown, PlacedBut, SameGesture, Win, CanRaise
  <2>8. i \in InUse(c) /\ c.desktop_active /\ ~c.windows_hidden
    BY <1>1, <1>2, <2>5, <2>6 DEF hid
  <2>9. /\ Core(d) /\ Kept(d, c) /\ SameGesture(d, c) /\ SameInput(d, c)
        /\ d.launch_focus = 0 /\ HeldDown(d)
        /\ \A j \in Slots : j # i => Win(d, j).z_order = Win(c, j).z_order
        /\ ~CanRaise(c) => d.focused = c.focused /\ SameDepth(d, c)
        /\ CanRaise(c) => d.focused = Win(c, i).handle /\ Win(d, i).z_order # 0
    BY <2>5, <2>7, <2>8, FocusEffect
  <2> HIDE DEF d
  <2>10. Kept(d, a) /\ SameInput(d, a) /\ InUse(d) = InUse(c) /\ InUse(c) \subseteq Slots
    BY <2>6, <2>9, KeptIsTransitive, KeptFacts, InUseAreSlots
  <2>11. PlacedBut(d, {i}) /\ (CanRaise(a) => PlacedBut(d, {}))
    BY <2>7, <2>9, <2>10 DEF PlacedBut
  <2>12. CanRaise(a) => d.focused = h
    <3>1. i \in Slots
      OBVIOUS
    <3>2. Win(c, i).handle = Win(a, i).handle
      BY <2>6, <3>1 DEF Kept
    <3>3. QED
      BY <1>1, <2>7, <2>9, <3>2
  <2>13. ~CanRaise(a) => d.focused = v.focused
    BY <1>2, <2>5, <2>7, <2>9 DEF f
  <2>14. \A j \in Slots : j # i => Win(d, j).z_order = Win(a, j).z_order
    BY <2>6, <2>9 DEF SameDepth
  <2>15. r.v = d /\ r.placed = CanRaise(a)
    BY <2>4
  <2> HIDE DEF r
  <2>16. PlacedFacts(r, a, v, p, i)
    BY <1>1, <1>3, <2>9, <2>10, <2>11, <2>12, <2>13, <2>14, <2>15 DEF PlacedFacts
  <2>17. QED
    BY <2>16 DEF r, a
<1>4. CASE a.launch_focus # p
  <2>1. r = place_window_in_background(a, i)
    BY <1>4 DEF PlaceNewWindow
  <2> HIDE DEF r
  <2>2. /\ Core(r.v) /\ Kept(r.v, a) /\ SameFocus(r.v, a) /\ SameGesture(r.v, a)
        /\ SameInput(r.v, a) /\ r.v.launch_focus = a.launch_focus
        /\ HeldDown(a) => HeldDown(r.v)
        /\ r.placed => /\ PlacedBut(a, {i}) => PlacedBut(r.v, {})
                       /\ a.focused # Win(a, i).handle => IsTop(r.v, a.focused)
        /\ PlacedBut(a, {i}) => PlacedBut(r.v, {i})
        /\ ~r.placed => \A j \in Slots : j # i => Win(r.v, j).z_order = Win(a, j).z_order
    BY <1>1, <2>1, BackgroundEffect
  <2>3. r.v.focused = v.focused
    BY <1>2, <2>2 DEF SameFocus
  <2>4. PlacedFacts(r, a, v, p, i)
    BY <1>1, <1>2, <2>2, <2>3 DEF PlacedFacts
  <2>5. QED
    BY <2>4 DEF r, a
<1>5. QED
  BY <1>3, <1>4

LEMMA CreateIsGood ==
  ASSUME NEW v, Sound(v), v.desktop_active, v.g_next_handle # 0,
         NEW p \in Processes, NEW i \in Slots \ InUse(v), NEW b \in Buttons,
         NEW R, p \in R, OwnedBy(v, R)
  PROVE  LET r == PlaceNewWindow(WindowMade(v, p, i, b), p, i)
             u == IF r.placed THEN r.v ELSE CloseWindows(r.v, {i})
         IN  Good(u, v) /\ OwnedBy(u, R)
<1> DEFINE a == WindowMade(v, p, i, b)
           h == v.g_next_handle
           r == PlaceNewWindow(a, p, i)
           d == r.v
           c == CloseWindows(d, {i})
           u == IF r.placed THEN d ELSE c
<1>0. MadeFacts(a, v, p, i)
  BY WindowMadeEffect
<1>2. PlacedFacts(r, a, v, p, i)
  BY PlaceEffect
<1> HIDE DEF a, r
<1>1. /\ Core(a) /\ i \in InUse(a)
      /\ Win(a, i).handle = h /\ Win(a, i).process_id = p /\ Win(a, i).input_queue = NoEvents
      /\ \A j \in Slots : j # i => Win(a, j) = Win(v, j)
      /\ InUse(a) = InUse(v) \cup {i}
      /\ h # 0 /\ h \notin OpenHandles(v)
  BY <1>0 DEF MadeFacts
<1>3. /\ Core(d) /\ HeldDown(d) /\ Kept(d, a) /\ SameInput(d, a)
      /\ d.launch_focus \in {v.launch_focus, 0}
      /\ PlacedBut(d, {i})
  BY <1>2 DEF PlacedFacts
<1>4. InUse(d) = InUse(v) \cup {i} /\ InUse(v) \subseteq Slots /\ i \notin InUse(v)
  BY <1>1, <1>3, KeptFacts, InUseAreSlots
<1>5. \A j \in Slots : /\ Win(d, j).handle = Win(a, j).handle
                       /\ Win(d, j).process_id = Win(a, j).process_id
                       /\ Win(d, j).input_queue = Win(a, j).input_queue
  BY <1>3 DEF Kept, SameInput
<1>6. v.focused # h /\ v.focused \in OpenHandles(v) \cup {0}
  BY <1>1 DEF Sound, Core, FocusNamesWindow
<1>7. ASSUME r.placed PROVE Good(d, v) /\ OwnedBy(d, R)
  <2>1. /\ PlacedBut(d, {})
        /\ \/ d.focused = v.focused /\ IsTop(d, v.focused)
           \/ d.focused = h /\ v.launch_focus = p
    BY <1>2, <1>7 DEF PlacedFacts
  <2>2. Sound(d)
    BY <1>3, <2>1 DEF Sound
  <2>3. CloseKept(d, v)
    BY <1>1, <1>5 DEF CloseKept, Win, NoEvents
  <2>4. NotStolen(d, v)
    <3>1. CASE d.focused = v.focused
      BY <1>6, <2>1, <3>1 DEF NotStolen
    <3>2. CASE d.focused = h /\ v.launch_focus = p
      <4> DEFINE k == find_window_handle(d, h)
      <4>1. i \in InUse(d) /\ Win(d, i).handle = h /\ Win(d, i).process_id = p
        BY <1>1, <1>4, <1>5
      <4>2. h \in OpenHandles(d)
        BY <4>1 DEF OpenHandles, Win
      <4>3. k \in InUse(d) /\ Win(d, k).handle = h
        BY <4>2, FoundIsOpen
      <4> HIDE DEF k
      <4>4. k = i
        BY <1>3, <4>1, <4>3 DEF Core, Numbered
      <4>5. QED
        BY <1>6, <3>2, <4>1, <4>4 DEF NotStolen, Win, k
    <3>3. QED
      BY <2>1, <3>1, <3>2
  <2>5. OwnedBy(d, R)
    BY <1>1, <1>3, <1>4, <1>5 DEF OwnedBy
  <2>6. QED
    BY <2>2, <2>3, <2>4, <2>5 DEF Good
<1>8. ASSUME ~r.placed PROVE Good(c, v) /\ OwnedBy(c, R)
  <2>1. /\ d.focused = v.focused
        /\ \A j \in Slots : j # i => Win(d, j).z_order = Win(a, j).z_order
    BY <1>2, <1>8 DEF PlacedFacts
  <2>2. {i} \in SUBSET InUse(d)
    BY <1>4
  <2>3. /\ Core(c) /\ InUse(c) = InUse(d) \ {i}
        /\ HeldDown(d) => HeldDown(c)
        /\ PlacedBut(d, {i}) => PlacedBut(c, {})
        /\ c.launch_focus \in {d.launch_focus, 0}
        /\ Win(c, i) = ClearedWindow
        /\ \A j \in Slots \ {i} : Win(c, j) = Win(d, j)
        /\ \/ c.focused \in {d.focused, 0}
           \/ d.focused # 0 /\ d.focused \notin OpenHandles(c)
    <3> HIDE DEF d
    <3>1. QED
      BY <1>3, <2>2, CloseKeeps
  <2> HIDE DEF c, d
  <2>4. Sound(c)
    BY <1>3, <2>3 DEF Sound
  <2>5. InUse(c) = InUse(v)
    BY <1>4, <2>3
  <2>6. \A j \in InUse(v) : /\ j \in Slots /\ j # i
                            /\ Win(c, j).handle = Win(v, j).handle
                            /\ Win(c, j).z_order = Win(v, j).z_order
                            /\ Win(c, j).process_id = Win(v, j).process_id
    BY <1>1, <1>4, <1>5, <2>1, <2>3
  <2>7. CloseKept(c, v)
    <3>1. ClearedWindow.input_queue = <<>>
      BY DEF ClearedWindow
    <3>2. QED
      BY <1>1, <1>5, <2>3, <3>1 DEF CloseKept, Win
  <2>8. \A x : IsTop(v, x) => IsTop(c, x)
    BY <2>5, <2>6 DEF IsTop, Win
  <2>9. NotStolen(c, v)
    BY <2>1, <2>3, <2>8 DEF NotStolen
  <2>10. OwnedBy(c, R)
    BY <1>3, <2>3, <2>5, <2>6 DEF OwnedBy
  <2>11. QED
    BY <2>4, <2>7, <2>9, <2>10 DEF Good
<1>9. CASE r.placed
  BY <1>7, <1>9 DEF a, r
<1>10. CASE ~r.placed
  BY <1>8, <1>10 DEF a, r
<1>11. QED
  BY <1>9, <1>10

----------------------------------------------------------------------------
(* Every step keeps the invariant *)

LEMMA InitIsSound == Init => IInv
<1> SUFFICES ASSUME Init PROVE IInv
  OBVIOUS
<1> DEFINE W == [i \in Slots |-> ClearedWindow]
           l == [left_button |-> FALSE, right_button |-> FALSE]
<1>1. ClearedWindow \in Window /\ ClearedWindow.handle = 0
  <2>1. <<>> \in Seq(EventTypes) /\ 0 \in 0 .. ZOrderMax /\ 0 \in 0 .. ProcessIdMax /\ 0 \in Handles
    BY AppWindowsAssumption DEF Handles
  <2>2. QED
    BY <2>1 DEF ClearedWindow, Window
<1>2. W \in [Slots -> Window] /\ \A i \in Slots : W[i] = ClearedWindow
  BY <1>1
<1>3. l \in Buttons
  BY AppWindowsAssumption DEF Buttons
<1>4. /\ 0 \in Handles /\ 1 \in Handles /\ 1 \in 0 .. ZOrderMax
      /\ 0 \in 0 .. ProcessIdMax /\ <<>> \in Seq(Handles)
  BY AppWindowsAssumption DEF Handles
<1>5. svc = [g_windows |-> W, g_next_handle |-> 1, g_next_z_order |-> 1,
             focused |-> 0, hidden_focused |-> 0, launch_focus |-> 0,
             capture |-> 0, gesture_consumed |-> FALSE,
             desktop_active |-> FALSE, windows_hidden |-> FALSE,
             mouse_initialized |-> FALSE, last_mouse |-> l, keys |-> <<>>]
  BY DEF Init
<1> HIDE DEF W, l
<1>6. /\ svc \in Services /\ svc.g_windows = W /\ svc.focused = 0 /\ svc.hidden_focused = 0
      /\ svc.launch_focus = 0 /\ svc.capture = 0 /\ svc.keys = <<>>
  BY <1>2, <1>3, <1>4, <1>5 DEF Services
<1>7. InUse(svc) = {}
  BY <1>1, <1>2, <1>6 DEF InUse
<1>8. FocusNamesWindow(svc) /\ KeysBelongTo(svc)
  BY <1>6 DEF FocusNamesWindow, KeysBelongTo
<1>9. Numbered(svc) /\ Attached(svc) /\ WindowsNeedDesktop(svc) /\ HeldDown(svc)
      /\ PlacedBut(svc, {})
  BY <1>6, <1>7 DEF Numbered, Attached, WindowsNeedDesktop, HeldDown, PlacedBut
<1>10. Sound(svc) /\ OwnedBy(svc, Running)
  BY <1>6, <1>7, <1>8, <1>9 DEF Sound, Core, OwnedBy
<1>11. QED
  BY <1>10 DEF IInv, Init

LEMMA SnapshotsAreMouseStates ==
  ASSUME NEW m \in Snapshots
  PROVE  m \in MouseState
BY InUseAreSlots DEF Snapshots, MouseState

\* The states of a process.
LEMMA RunningFacts ==
  ASSUME IInv
  PROVE  /\ Running \subseteq Processes /\ 0 \notin Processes
         /\ alive' = alive => Running' = Running
         /\ \A p \in Processes : alive[p] = "running" => p \in Running
         /\ \A p \in Processes : alive' = [alive EXCEPT ![p] = "running"]
                                   => Running' = Running \cup {p}
         /\ \A p \in Processes : alive' = [alive EXCEPT ![p] = "ended"]
                                   => Running' = Running \ {p}
<1>1. 0 \notin Processes
  BY AppWindowsAssumption DEF Processes
<1>2. alive \in [Processes -> {"new", "running", "ended"}]
  BY DEF IInv
<1>3. ASSUME NEW p \in Processes, alive' = [alive EXCEPT ![p] = "running"]
      PROVE  Running' = Running \cup {p}
  BY <1>2, <1>3 DEF Running
<1>4. ASSUME NEW p \in Processes, alive' = [alive EXCEPT ![p] = "ended"]
      PROVE  Running' = Running \ {p}
  BY <1>2, <1>4 DEF Running
<1>5. QED
  BY <1>1, <1>3, <1>4 DEF Running

LEMMA LaunchStep ==
  ASSUME IInv, NEW p \in Processes, NEW f \in BOOLEAN, Launch(p, f)
  PROVE  Good(svc', svc) /\ OwnedBy(svc', Running')
<1>1. Sound(svc) /\ OwnedBy(svc, Running) /\ Core(svc) /\ svc \in Services
  BY DEF IInv, Sound, Core
<1>2. Running' = Running \cup {p}
  BY RunningFacts DEF Launch
<1>3. OwnedBy(svc, Running')
  BY <1>1, <1>2 DEF OwnedBy
<1> DEFINE R == Running'
           ff == svc.focused
           hh == svc.hidden_focused
           hid == svc.windows_hidden
           ks == svc.keys
           q == svc.launch_focus
<1>4. \A g \in 0 .. ProcessIdMax : MayFocus(svc, ff, hh, hid, g, ks)
  BY <1>1 DEF MayFocus, Core, Services, FocusNamesWindow, KeysBelongTo
<1>5. /\ svc = FocusWritten(svc, ff, hh, hid, q, ks)
      /\ [svc EXCEPT !.launch_focus = p] = FocusWritten(svc, ff, hh, hid, p, ks)
  BY <1>1 DEF FocusWritten, Services
<1>6. PICK g \in 0 .. ProcessIdMax :
        svc' = FocusWritten(svc, ff, hh, hid, g, ks) /\ g \in R \cup {0}
  <2>1. p \in 0 .. ProcessIdMax /\ q \in 0 .. ProcessIdMax /\ p \in R /\ q \in R \cup {0}
    BY <1>1, <1>2, <1>3 DEF Services, Processes, OwnedBy
  <2>2. svc' = svc \/ svc' = [svc EXCEPT !.launch_focus = p]
    BY DEF Launch, app_services_authorize_launch_focus
  <2>3. QED
    BY <1>5, <2>1, <2>2
<1> HIDE DEF ff, hh, hid, ks, q, R
<1>7. ff \in {0, svc.focused}
  BY DEF ff
<1>8. OwnedBy(svc, R)
  BY <1>3 DEF R
<1>9. QED
  BY <1>1, <1>4, <1>6, <1>7, <1>8, FocusWriteIsGood DEF R

LEMMA ReleaseStep ==
  ASSUME IInv, NEW p \in Processes, app_services_release_process(p)
  PROVE  Good(svc', svc) /\ OwnedBy(svc', Running')
<1> DEFINE g == IF svc.launch_focus = p THEN 0 ELSE svc.launch_focus
           a == [svc EXCEPT !.launch_focus = g]
           S == {i \in InUse(svc) : svc.g_windows[i].process_id = p}
           R == Running
           T == Running'
           u == CloseWindows(a, S)
<1>1. Sound(svc) /\ OwnedBy(svc, R) /\ Core(svc) /\ svc \in Services
  BY DEF IInv, Sound, Core
<1>2. T = R \ {p}
  BY RunningFacts DEF app_services_release_process
<1>3. g \in 0 .. ProcessIdMax /\ g \in R \cup {0} /\ g \in T \cup {0}
  BY <1>1, <1>2, AppWindowsAssumption DEF Services, OwnedBy
<1>4. svc' = u
  BY DEF app_services_release_process
<1> HIDE DEF g
<1>5. /\ Core(a) /\ SameFocus(a, svc) /\ SameDepth(a, svc) /\ Kept(a, svc)
      /\ a.launch_focus = g /\ HeldDown(a) /\ a.g_windows = svc.g_windows
  <2>1. HeldDown(svc)
    BY <1>1 DEF Sound
  <2>2. QED
    BY <1>1, <1>3, <2>1, LaunchFocusEffect
<1>6. a.capture = svc.capture
  BY <1>1 DEF Services
<1> HIDE DEF a
<1>7. InUse(a) = InUse(svc) /\ OpenHandles(a) = OpenHandles(svc)
  BY <1>5, KeptFacts
<1>8. Sound(a)
  BY <1>1, <1>5, <1>7 DEF Sound, PlacedBut, Win
<1>9. OwnedBy(a, R) /\ \A i \in InUse(a) \ S : Win(a, i).process_id \in T
  BY <1>1, <1>2, <1>3, <1>5, <1>7 DEF OwnedBy, Win
<1>10. S \in SUBSET InUse(a) /\ a.launch_focus \in T \cup {0}
  BY <1>3, <1>5, <1>7
<1> HIDE DEF S, R, T
<1>11. svc.g_windows = a.g_windows /\ svc.focused = a.focused
  BY <1>5 DEF SameFocus
<1>12. Good(u, svc) /\ OwnedBy(u, T)
  BY <1>8, <1>9, <1>10, <1>11, CloseIsGood
<1>13. QED
  BY <1>4, <1>12 DEF T

LEMMA CreateStep ==
  ASSUME IInv, NEW p \in Processes, NEW b \in Buttons, dispatch_window_create(p, b)
  PROVE  Good(svc', svc) /\ OwnedBy(svc', Running')
<1> DEFINE i == allocate_window_slot(svc, p)
           R == Running
<1>1. Sound(svc) /\ OwnedBy(svc, R) /\ Running' = R /\ p \in R
  BY RunningFacts DEF IInv, dispatch_window_create
<1>2. svc.desktop_active /\ svc.g_next_handle # 0 /\ i # 0
  BY DEF dispatch_window_create
<1>3. i \in Slots \ InUse(svc)
  BY <1>2, SlotIsFree
<1>4. svc' = LET r == PlaceNewWindow(WindowMade(svc, p, i, b), p, i)
             IN  IF r.placed THEN r.v ELSE CloseWindows(r.v, {i})
  BY Zenon DEF dispatch_window_create, WindowMade
<1> HIDE DEF i, R
<1>5. QED
  BY <1>1, <1>2, <1>3, <1>4, CreateIsGood

LEMMA CloseStep ==
  ASSUME IInv, NEW p \in Processes, NEW i \in Slots, dispatch_window_close(p, i)
  PROVE  Good(svc', svc) /\ OwnedBy(svc', Running')
<1> DEFINE R == Running
           S == {i}
<1>1. Sound(svc) /\ OwnedBy(svc, R) /\ Running' = R
  BY RunningFacts DEF IInv, dispatch_window_close
<1>2. S \in SUBSET InUse(svc) /\ svc' = CloseWindows(svc, S)
  BY DEF dispatch_window_close
<1>3. /\ \A j \in InUse(svc) \ S : Win(svc, j).process_id \in R
      /\ svc.launch_focus \in R \cup {0}
  BY <1>1 DEF OwnedBy
<1> HIDE DEF S, R
<1>4. QED
  BY <1>1, <1>2, <1>3, CloseIsGood

\* Taking a key is good after any good routing.
LEMMA PopKeyEffect ==
  ASSUME NEW v, Sound(v), v.keys # <<>>
  PROVE  LET u == keyboard_try_pop_byte(v)
         IN  /\ Sound(u) /\ u.g_windows = v.g_windows /\ u.focused = v.focused
             /\ u.launch_focus = v.launch_focus /\ u.capture = v.capture
<1> DEFINE f == v.focused
           h == v.hidden_focused
           hid == v.windows_hidden
           p == v.launch_focus
           ks == Tail(v.keys)
           u == keyboard_try_pop_byte(v)
<1>1. Core(v) /\ v \in Services
  BY DEF Sound, Core
<1>2. u = FocusWritten(v, f, h, hid, p, ks)
  BY <1>1 DEF keyboard_try_pop_byte, FocusWritten, Services
<1>3. ks \in Seq(Handles) /\ \A k \in DOMAIN ks : ks[k] = f
  <2>1. v.keys \in Seq(Handles)
    BY <1>1 DEF Services
  <2>2. \A k \in DOMAIN v.keys : v.keys[k] = f
    BY <1>1 DEF Core, KeysBelongTo
  <2>3. QED
    BY <2>1, <2>2
<1>4. MayFocus(v, f, h, hid, p, ks)
  <2> HIDE DEF ks
  <2>1. QED
    BY <1>1, <1>3 DEF MayFocus, Core, Services, FocusNamesWindow
<1> HIDE DEF f, h, hid, p, ks, u
<1>5. /\ Sound(u) /\ u.g_windows = v.g_windows /\ SameGesture(u, v)
      /\ u.focused = f /\ u.launch_focus = p
  BY <1>1, <1>2, <1>4, FocusWriteKeeps
<1>6. QED
  BY <1>5 DEF f, p, u, SameGesture

LEMMA PollStep ==
  ASSUME IInv, NEW p \in Processes, NEW i \in Slots, NEW m \in Snapshots,
         dispatch_input_poll(p, i, m)
  PROVE  Good(svc', svc) /\ OwnedBy(svc', Running')
<1> DEFINE R == Running
           v == app_services_route_pointer(svc, m)
           d == dequeue_window_input(v, i)
           k == keyboard_try_pop_byte(v)
<1>1. Sound(svc) /\ OwnedBy(svc, R) /\ Running' = R
  BY RunningFacts DEF IInv, dispatch_input_poll
<1>2. Routed(v, svc)
  BY <1>1, SnapshotsAreMouseStates, RouteEffect
<1>3. \/ Win(v, i).input_queue # <<>> /\ svc' = d
      \/ v.keys # <<>> /\ svc' = k
      \/ svc' = v
  BY DEF dispatch_input_poll, Win
<1> HIDE DEF v, R
<1>4. Good(v, svc) /\ OwnedBy(v, R)
  BY <1>1, <1>2, RoutedIsGood
<1>5. CASE Win(v, i).input_queue # <<>> /\ svc' = d
  <2>1. Sound(v)
    BY <1>4 DEF Good
  <2>2. /\ Sound(d) /\ Kept(d, v) /\ SameDepth(d, v) /\ SameFocus(d, v)
        /\ SameGesture(d, v) /\ SameRest(d, v)
        /\ \A j \in Slots : Win(v, j).input_queue = <<"CLOSE">> =>
                              Win(d, j).input_queue \in {<<"CLOSE">>, <<>>}
    BY <1>5, <2>1, DequeueEffect
  <2> HIDE DEF d
  <2>3. CloseKept(d, svc)
    BY <1>2, <2>2 DEF Routed, CloseKept, Win
  <2>4. FocusFollowsPress(d, svc)
    BY <1>2, <2>2, TopTransfer DEF Routed, FocusFollowsPress, SameFocus, SameGesture
  <2>5. NotStolen(d, svc)
    BY <2>4 DEF FocusFollowsPress, NotStolen
  <2>6. OwnedBy(d, R)
    BY <1>4, <2>2, OwnedTransfer DEF OwnedBy, SameRest
  <2>7. QED
    BY <1>1, <1>5, <2>2, <2>3, <2>5, <2>6 DEF Good
<1>6. CASE v.keys # <<>> /\ svc' = k
  <2>1. Sound(v)
    BY <1>4 DEF Good
  <2>2. /\ Sound(k) /\ k.g_windows = v.g_windows /\ k.focused = v.focused
        /\ k.launch_focus = v.launch_focus /\ k.capture = v.capture
    BY <1>6, <2>1, PopKeyEffect
  <2> HIDE DEF k
  <2>3. Kept(k, v) /\ \A h : IsTop(v, h) => IsTop(k, h)
    BY <2>2, SameWindowsFacts
  <2>4. CloseKept(k, svc)
    BY <1>4, <2>2 DEF Good, CloseKept
  <2>5. FocusFollowsPress(k, svc)
    BY <1>2, <2>2, <2>3 DEF Routed, FocusFollowsPress
  <2>6. NotStolen(k, svc)
    BY <2>5 DEF FocusFollowsPress, NotStolen
  <2>7. OwnedBy(k, R)
    BY <1>4, <2>2, <2>3, OwnedTransfer DEF OwnedBy
  <2>8. QED
    BY <1>1, <1>6, <2>2, <2>4, <2>6, <2>7 DEF Good
<1>7. CASE svc' = v
  BY <1>1, <1>4, <1>7
<1>8. QED
  BY <1>3, <1>5, <1>6, <1>7

LEMMA RouteStep ==
  ASSUME IInv, NEW m \in Snapshots, RoutePointer(m)
  PROVE  Good(svc', svc) /\ OwnedBy(svc', Running')
<1>1. Sound(svc) /\ OwnedBy(svc, Running) /\ Running' = Running
  BY RunningFacts DEF IInv, RoutePointer
<1>2. Routed(svc', svc)
  BY <1>1, SnapshotsAreMouseStates, RouteEffect DEF RoutePointer
<1>3. QED
  BY <1>1, <1>2, RoutedIsGood

LEMMA RequestCloseStep ==
  ASSUME IInv, app_services_request_all_windows_close
  PROVE  Good(svc', svc) /\ OwnedBy(svc', Running')
<1> DEFINE u == queue_all_window_close_events(svc)
<1>1. Sound(svc) /\ OwnedBy(svc, Running) /\ Running' = Running /\ svc' = u
  BY RunningFacts DEF IInv, app_services_request_all_windows_close
<1>2. /\ Sound(u) /\ Kept(u, svc) /\ SameDepth(u, svc) /\ SameFocus(u, svc)
      /\ SameGesture(u, svc) /\ SameRest(u, svc)
      /\ \A j \in Slots :
           Win(svc, j).input_queue = <<"CLOSE">> => Win(u, j).input_queue = <<"CLOSE">>
  BY <1>1, CloseAllEffect
<1> HIDE DEF u
<1>3. CloseKept(u, svc)
  BY <1>2 DEF CloseKept, Win
<1>4. NotStolen(u, svc)
  BY <1>2, TopTransfer DEF NotStolen, SameFocus
<1>5. OwnedBy(u, Running)
  BY <1>1, <1>2, OwnedTransfer DEF OwnedBy, SameRest
<1>6. QED
  BY <1>1, <1>2, <1>3, <1>4, <1>5 DEF Good

LEMMA HiddenStep ==
  ASSUME IInv, NEW hidden \in BOOLEAN, app_services_set_windows_hidden(hidden)
  PROVE  Good(svc', svc) /\ OwnedBy(svc', Running')
<1> DEFINE R == Running
           f == IF hidden THEN 0
                ELSE IF svc.hidden_focused \in OpenHandles(svc) THEN svc.hidden_focused ELSE 0
           h == IF hidden THEN svc.focused ELSE 0
           ks == <<>>
           a == [keyboard_discard_pending(svc) EXCEPT !.launch_focus = 0,
                                                      !.windows_hidden = hidden]
<1>1. /\ Sound(svc) /\ OwnedBy(svc, R) /\ Running' = R /\ Core(svc) /\ svc \in Services
      /\ svc.desktop_active /\ svc.windows_hidden # hidden
      /\ FocusNamesWindow(svc) /\ svc.windows_hidden \in BOOLEAN
  BY RunningFacts DEF IInv, Sound, Core, Services, app_services_set_windows_hidden
<1>2. /\ a = [svc EXCEPT !.keys = <<>>, !.launch_focus = 0, !.windows_hidden = hidden]
      /\ a.g_windows = svc.g_windows /\ a.focused = svc.focused
      /\ a.hidden_focused = svc.hidden_focused
  BY <1>1 DEF keyboard_discard_pending, Services
<1>3. OpenHandles(a) = OpenHandles(svc)
  <2> HIDE DEF a
  <2>1. QED
    BY <1>2 DEF OpenHandles, InUse
<1>4. svc' = FocusWritten(svc, f, h, hidden, 0, ks)
  <2>1. svc' = IF hidden
               THEN [a EXCEPT !.hidden_focused = a.focused, !.focused = 0]
               ELSE [a EXCEPT !.focused = IF a.hidden_focused \in OpenHandles(a)
                                          THEN a.hidden_focused ELSE 0,
                              !.hidden_focused = 0]
    BY DEF app_services_set_windows_hidden
  <2> HIDE DEF a
  <2>2. svc' = [a EXCEPT !.focused = f, !.hidden_focused = h]
    <3>1. CASE hidden
      <4>1. svc' = [a EXCEPT !.hidden_focused = svc.focused, !.focused = 0]
        BY <1>2, <2>1, <3>1
      <4>2. [a EXCEPT !.hidden_focused = svc.focused, !.focused = 0] =
              [a EXCEPT !.focused = 0, !.hidden_focused = svc.focused]
        BY <1>1, <1>2 DEF Services
      <4>3. f = 0 /\ h = svc.focused
        BY <3>1
      <4>4. QED
        BY <4>1, <4>2, <4>3
    <3>2. CASE ~hidden
      <4>1. f = (IF a.hidden_focused \in OpenHandles(a) THEN a.hidden_focused ELSE 0) /\ h = 0
        BY <1>2, <1>3, <3>2
      <4> HIDE DEF f, h
      <4>2. QED
        BY <2>1, <3>2, <4>1
    <3>3. QED
      BY <3>1, <3>2
  <2> HIDE DEF f, h
  <2>3. QED
    BY <1>1, <1>2, <2>2 DEF FocusWritten, Services
<1>5. MayFocus(svc, f, h, hidden, 0, ks)
  <2>1. /\ f \in OpenHandles(svc) \cup {0} /\ h \in OpenHandles(svc) \cup {0}
        /\ hidden => f = 0
        /\ ~hidden => h = 0
    BY <1>1 DEF FocusNamesWindow
  <2>2. 0 \in 0 .. ProcessIdMax /\ ks \in Seq(Handles) /\ DOMAIN ks = {}
    BY AppWindowsAssumption
  <2> HIDE DEF f, h, ks
  <2>3. QED
    BY <1>1, <2>1, <2>2 DEF MayFocus
<1>6. f \in {0, svc.focused} \/ (svc.windows_hidden /\ f = svc.hidden_focused)
  BY <1>1
<1> HIDE DEF f, h, ks, R
<1>7. 0 \in R \cup {0}
  OBVIOUS
<1>8. QED
  BY <1>1, <1>4, <1>5, <1>6, <1>7, FocusWriteIsGood

LEMMA BlurStep ==
  ASSUME IInv, app_services_blur_keyboard_focus
  PROVE  Good(svc', svc) /\ OwnedBy(svc', Running')
<1> DEFINE R == Running
           hid == svc.windows_hidden
           ks == IF svc.focused # 0 \/ svc.hidden_focused # 0 THEN <<>> ELSE svc.keys
           a == [svc EXCEPT !.launch_focus = 0]
<1>1. /\ Sound(svc) /\ OwnedBy(svc, R) /\ Running' = R /\ Core(svc) /\ svc \in Services
  BY RunningFacts DEF IInv, Sound, Core, app_services_blur_keyboard_focus
<1>2. svc' = FocusWritten(svc, 0, 0, hid, 0, ks)
  <2>1. svc' = IF a.focused # 0 \/ a.hidden_focused # 0
               THEN [keyboard_discard_pending(a) EXCEPT !.focused = 0, !.hidden_focused = 0]
               ELSE a
    BY DEF app_services_blur_keyboard_focus
  <2>2. a.focused = svc.focused /\ a.hidden_focused = svc.hidden_focused
    BY <1>1 DEF Services
  <2>3. CASE svc.focused # 0 \/ svc.hidden_focused # 0
    <3>1. svc' = [keyboard_discard_pending(a) EXCEPT !.focused = 0, !.hidden_focused = 0]
      BY <2>1, <2>2, <2>3
    <3>2. ks = <<>>
      BY <2>3
    <3> HIDE DEF ks
    <3>3. QED
      BY <1>1, <3>1, <3>2 DEF keyboard_discard_pending, FocusWritten, Services
  <2>4. CASE ~(svc.focused # 0 \/ svc.hidden_focused # 0)
    <3>1. svc' = a /\ ks = svc.keys /\ svc.focused = 0 /\ svc.hidden_focused = 0
      BY <2>1, <2>2, <2>4
    <3> HIDE DEF ks
    <3>2. QED
      BY <1>1, <3>1 DEF FocusWritten, Services
  <2>5. QED
    BY <2>3, <2>4
<1>3. MayFocus(svc, 0, 0, hid, 0, ks)
  <2>1. hid \in BOOLEAN /\ svc.keys \in Seq(Handles) /\ 0 \in 0 .. ProcessIdMax
    BY <1>1, AppWindowsAssumption DEF Services
  <2>2. ks \in Seq(Handles) /\ \A k \in DOMAIN ks : ks[k] = 0
    <3>1. CASE ks = <<>>
      <4> HIDE DEF ks
      <4>1. QED
        BY <3>1
    <3>2. CASE ks = svc.keys /\ svc.focused = 0
      BY <1>1, <2>1, <3>2 DEF Core, KeysBelongTo
    <3>3. QED
      BY <3>1, <3>2
  <2> HIDE DEF ks, hid
  <2>3. QED
    BY <2>1, <2>2 DEF MayFocus
<1> HIDE DEF ks, hid, R
<1>4. QED
  BY <1>1, <1>2, <1>3, FocusWriteIsGood

LEMMA PushKeyStep ==
  ASSUME IInv, keyboard_push_byte
  PROVE  Good(svc', svc) /\ OwnedBy(svc', Running')
<1> DEFINE R == Running
           f == svc.focused
           h == svc.hidden_focused
           hid == svc.windows_hidden
           p == svc.launch_focus
           key == IF has_keyboard_focus(svc) THEN svc.focused ELSE 0
           ks == Append(svc.keys, key)
<1>1. /\ Sound(svc) /\ OwnedBy(svc, R) /\ Running' = R /\ Core(svc) /\ svc \in Services
  BY RunningFacts DEF IInv, Sound, Core, keyboard_push_byte
<1>2. key = f
  BY <1>1 DEF has_keyboard_focus, Core, FocusNamesWindow
<1>3. svc' = FocusWritten(svc, f, h, hid, p, ks)
  BY <1>1 DEF keyboard_push_byte, FocusWritten, Services
<1> HIDE DEF key
<1>4. ks \in Seq(Handles) /\ \A k \in DOMAIN ks : ks[k] = f
  <2>1. svc.keys \in Seq(Handles) /\ f \in Handles
    BY <1>1 DEF Services
  <2>2. \A k \in DOMAIN svc.keys : svc.keys[k] = f
    BY <1>1 DEF Core, KeysBelongTo
  <2> HIDE DEF f
  <2>3. QED
    BY <1>2, <2>1, <2>2
<1> HIDE DEF ks
<1>5. MayFocus(svc, f, h, hid, p, ks)
  BY <1>1, <1>4 DEF MayFocus, Core, Services, FocusNamesWindow
<1>6. f \in {0, svc.focused} /\ p \in R \cup {0}
  BY <1>1 DEF OwnedBy
<1> HIDE DEF f, h, hid, p, R
<1>7. QED
  BY <1>1, <1>3, <1>5, <1>6, FocusWriteIsGood

LEMMA ReadKeyStep ==
  ASSUME IInv, KernelReadsKey
  PROVE  Good(svc', svc) /\ OwnedBy(svc', Running')
<1>1. /\ Sound(svc) /\ OwnedBy(svc, Running) /\ Running' = Running
      /\ svc.keys # <<>> /\ svc' = keyboard_try_pop_byte(svc)
  BY RunningFacts DEF IInv, KernelReadsKey
<1>2. /\ Sound(svc') /\ svc'.g_windows = svc.g_windows /\ svc'.focused = svc.focused
      /\ svc'.launch_focus = svc.launch_focus
  BY <1>1, PopKeyEffect
<1>3. Kept(svc', svc) /\ CloseKept(svc', svc) /\ \A h : IsTop(svc, h) => IsTop(svc', h)
  BY <1>2, SameWindowsFacts
<1>4. NotStolen(svc', svc)
  BY <1>2, <1>3 DEF NotStolen
<1>5. OwnedBy(svc', Running)
  BY <1>1, <1>2, <1>3, OwnedTransfer DEF OwnedBy
<1>6. QED
  BY <1>1, <1>2, <1>3, <1>4, <1>5 DEF Good

\* The desktop comes and goes only while there is no window.
LEMMA NoWindowsFacts ==
  ASSUME NEW u \in Services, InUse(u) = {}, u.focused = 0, u.hidden_focused = 0, u.capture = 0,
         \A k \in DOMAIN u.keys : u.keys[k] = 0
  PROVE  Sound(u)
<1>1. FocusNamesWindow(u) /\ KeysBelongTo(u)
  BY DEF FocusNamesWindow, KeysBelongTo
<1>2. Numbered(u) /\ Attached(u) /\ WindowsNeedDesktop(u) /\ HeldDown(u) /\ PlacedBut(u, {})
  BY DEF Numbered, Attached, WindowsNeedDesktop, HeldDown, PlacedBut
<1>3. QED
  BY <1>1, <1>2 DEF Sound, Core

LEMMA NoWindowsNoFocus ==
  ASSUME NEW v, Sound(v), InUse(v) = {}
  PROVE  /\ v.focused = 0 /\ v.hidden_focused = 0 /\ v.capture = 0
         /\ \A k \in DOMAIN v.keys : v.keys[k] = 0
<1>1. OpenHandles(v) = {}
  BY DEF OpenHandles
<1>2. QED
  BY <1>1 DEF Sound, Core, FocusNamesWindow, KeysBelongTo

LEMMA ActivateStep ==
  ASSUME IInv, ActivateDesktop
  PROVE  Good(svc', svc) /\ OwnedBy(svc', Running')
<1>1. /\ Sound(svc) /\ OwnedBy(svc, Running) /\ Running' = Running /\ svc \in Services
      /\ InUse(svc) = {}
  BY RunningFacts DEF IInv, Sound, Core, WindowsNeedDesktop, ActivateDesktop
<1>2. /\ svc' \in Services /\ svc'.g_windows = svc.g_windows /\ svc'.focused = svc.focused
      /\ svc'.hidden_focused = svc.hidden_focused /\ svc'.capture = svc.capture
      /\ svc'.keys = svc.keys /\ svc'.launch_focus = svc.launch_focus
  BY <1>1 DEF ActivateDesktop, Services
<1>3. Kept(svc', svc) /\ CloseKept(svc', svc) /\ \A h : IsTop(svc, h) => IsTop(svc', h)
  BY <1>2, SameWindowsFacts
<1>4. InUse(svc') = {}
  BY <1>1, <1>3, KeptFacts
<1>5. Sound(svc')
  BY <1>1, <1>2, <1>4, NoWindowsFacts, NoWindowsNoFocus
<1>6. NotStolen(svc', svc)
  BY <1>2, <1>3 DEF NotStolen
<1>7. OwnedBy(svc', Running)
  BY <1>1, <1>2, <1>3, OwnedTransfer DEF OwnedBy
<1>8. QED
  BY <1>1, <1>3, <1>5, <1>6, <1>7 DEF Good

LEMMA DeactivateStep ==
  ASSUME IInv, DeactivateDesktop
  PROVE  Good(svc', svc) /\ OwnedBy(svc', Running')
<1> DEFINE v == [EndGesture(keyboard_discard_pending(svc)) EXCEPT
                   !.desktop_active = FALSE, !.mouse_initialized = FALSE,
                   !.focused = 0, !.hidden_focused = 0, !.launch_focus = 0,
                   !.windows_hidden = FALSE]
           a == [svc EXCEPT !.keys = <<>>, !.capture = 0, !.gesture_consumed = FALSE]
           u == queue_all_window_close_events(v)
<1>1. /\ Sound(svc) /\ OwnedBy(svc, Running) /\ Running' = Running /\ svc \in Services
      /\ InUse(svc) = {} /\ svc' = u
  BY RunningFacts DEF IInv, Sound, Core, DeactivateDesktop
<1>2. 0 \in Handles /\ 0 \in 0 .. ProcessIdMax /\ <<>> \in Seq(Handles)
  BY AppWindowsAssumption DEF Handles
<1>3. EndGesture(keyboard_discard_pending(svc)) = a
  BY <1>1 DEF EndGesture, keyboard_discard_pending, Services
<1>4. a \in Services /\ a.g_windows = svc.g_windows /\ a.keys = <<>> /\ a.capture = 0
  BY <1>1, <1>2 DEF Services
<1> HIDE DEF a
<1>5. /\ v \in Services /\ v.g_windows = svc.g_windows /\ v.keys = <<>> /\ v.capture = 0
      /\ v.focused = 0 /\ v.hidden_focused = 0 /\ v.launch_focus = 0
  BY <1>2, <1>3, <1>4, ZenonT(60) DEF Services
<1> HIDE DEF v
<1>6. InUse(v) = {}
  BY <1>1, <1>5 DEF InUse
<1>7. Sound(v)
  BY <1>5, <1>6, NoWindowsFacts
<1>8. /\ Sound(u) /\ Kept(u, v) /\ SameFocus(u, v) /\ SameRest(u, v)
      /\ \A j \in Slots :
           Win(v, j).input_queue = <<"CLOSE">> => Win(u, j).input_queue = <<"CLOSE">>
  BY <1>7, CloseAllEffect
<1> HIDE DEF u
<1>9. CloseKept(u, svc)
  BY <1>5, <1>8 DEF CloseKept, Win
<1>10. InUse(u) = {} /\ u.focused = 0 /\ u.launch_focus = 0
  BY <1>5, <1>6, <1>8, KeptFacts DEF SameFocus, SameRest
<1>11. NotStolen(u, svc)
  BY <1>10 DEF NotStolen
<1>12. OwnedBy(u, Running)
  BY <1>10 DEF OwnedBy
<1>13. QED
  BY <1>1, <1>8, <1>9, <1>11, <1>12 DEF Good

LEMMA StepIsGood ==
  ASSUME IInv, Next
  PROVE  Good(svc', svc) /\ OwnedBy(svc', Running')
<1>1. ASSUME NEW p \in Processes, NEW f \in BOOLEAN, Launch(p, f)
      PROVE  Good(svc', svc) /\ OwnedBy(svc', Running')
  BY <1>1, LaunchStep
<1>2. ASSUME NEW p \in Processes, app_services_release_process(p)
      PROVE  Good(svc', svc) /\ OwnedBy(svc', Running')
  BY <1>2, ReleaseStep
<1>3. ASSUME NEW p \in Processes, NEW b \in Buttons, dispatch_window_create(p, b)
      PROVE  Good(svc', svc) /\ OwnedBy(svc', Running')
  BY <1>3, CreateStep
<1>4. ASSUME NEW p \in Processes, NEW i \in Slots, dispatch_window_close(p, i)
      PROVE  Good(svc', svc) /\ OwnedBy(svc', Running')
  BY <1>4, CloseStep
<1>5. ASSUME NEW p \in Processes, NEW i \in Slots, NEW m \in Snapshots,
             dispatch_input_poll(p, i, m)
      PROVE  Good(svc', svc) /\ OwnedBy(svc', Running')
  BY <1>5, PollStep
<1>6. ASSUME NEW m \in Snapshots, RoutePointer(m)
      PROVE  Good(svc', svc) /\ OwnedBy(svc', Running')
  BY <1>6, RouteStep
<1>7. ASSUME NEW b \in BOOLEAN, app_services_set_windows_hidden(b)
      PROVE  Good(svc', svc) /\ OwnedBy(svc', Running')
  BY <1>7, HiddenStep
<1>8. CASE app_services_request_all_windows_close
  BY <1>8, RequestCloseStep
<1>9. CASE ActivateDesktop
  BY <1>9, ActivateStep
<1>10. CASE DeactivateDesktop
  BY <1>10, DeactivateStep
<1>11. CASE app_services_blur_keyboard_focus
  BY <1>11, BlurStep
<1>12. CASE keyboard_push_byte
  BY <1>12, PushKeyStep
<1>13. CASE KernelReadsKey
  BY <1>13, ReadKeyStep
<1>14. QED
  BY <1>1, <1>2, <1>3, <1>4, <1>5, <1>6, <1>7, <1>8, <1>9, <1>10, <1>11, <1>12, <1>13 DEF Next

LEMMA Inductive == IInv /\ [Next]_vars => IInv'
<1> SUFFICES ASSUME IInv, [Next]_vars PROVE IInv'
  OBVIOUS
<1>1. CASE Next
  <2>1. alive' \in [Processes -> {"new", "running", "ended"}]
    <3>1. \/ alive' = alive
          \/ \E p \in Processes : \/ alive' = [alive EXCEPT ![p] = "running"]
                                  \/ alive' = [alive EXCEPT ![p] = "ended"]
      BY <1>1 DEF Next, Launch, app_services_release_process, dispatch_window_create,
                  dispatch_window_close, dispatch_input_poll, RoutePointer,
                  app_services_request_all_windows_close, app_services_set_windows_hidden,
                  ActivateDesktop, DeactivateDesktop, app_services_blur_keyboard_focus,
                  keyboard_push_byte, KernelReadsKey
    <3>2. QED
      BY <3>1 DEF IInv
  <2>2. QED
    BY <1>1, <2>1, StepIsGood DEF IInv, Good
<1>2. CASE UNCHANGED vars
  BY <1>2 DEF vars, IInv, Sound, Core, Services, FocusNamesWindow, KeysBelongTo, Numbered,
              Attached, WindowsNeedDesktop, HeldDown, PlacedBut, OwnedBy, Running, InUse,
              OpenHandles, Win
<1>3. QED
  BY <1>1, <1>2

LEMMA AlwaysIInv == Spec => []IInv
BY InitIsSound, Inductive, PTL DEF Spec

\* The invariant says what the two properties say.
LEMMA IInvSuffices == IInv => NothingDangles /\ KeysBelongToFocus
<1> SUFFICES ASSUME IInv PROVE NothingDangles /\ KeysBelongToFocus
  OBVIOUS
<1>1. /\ Core(svc) /\ HeldDown(svc) /\ OwnedBy(svc, Running)
      /\ FocusNamesWindow(svc) /\ KeysBelongTo(svc)
  BY DEF IInv, Sound, Core
<1>2. OwnersAreAlive
  BY <1>1 DEF OwnersAreAlive, OwnedBy, Running, Win
<1>3. WindowsAreDistinct
  BY <1>1 DEF WindowsAreDistinct, Core, Numbered, Win
<1>4. DragHasCapture
  BY <1>1 DEF DragHasCapture, Core, Attached, HeldDown, Win
<1>5. QED
  BY <1>1, <1>2, <1>3, <1>4 DEF NothingDangles, KeysBelongToFocus

----------------------------------------------------------------------------
(* The theorems *)

\* However closes, exits, faults, presses, drags, Show Desktop and key interrupts
\* interleave, and also once the handles or the depths are used up, no static of
\* app_services.c names a closed window or a dead process, no two windows answer to
\* one handle or share a depth, and no window stays attached to the pointer.
THEOREM NoStaleReference == Spec => []NothingDangles
<1>1. IInv => NothingDangles
  BY IInvSuffices
<1>2. QED
  BY <1>1, AlwaysIInv, PTL

\* A key in the ring was typed for the window, or the desktop, that reads it next.
THEOREM KeysNeverChangeHands == Spec => []KeysBelongToFocus
<1>1. IInv => KeysBelongToFocus
  BY IInvSuffices
<1>2. QED
  BY <1>1, AlwaysIInv, PTL

\* A request to close stays in the queue of its window until the application takes
\* it: no button, no motion and no full queue displaces it.
THEOREM CloseRequestsSurvive == Spec => CloseRequestKept
<1>1. IInv /\ [Next]_vars =>
        [\A i \in Slots :
           /\ <<"CLOSE">> = svc.g_windows[i].input_queue
           /\ svc'.g_windows[i].handle = svc.g_windows[i].handle
           => svc'.g_windows[i].input_queue \in {<<"CLOSE">>, <<>>}]_svc
  BY StepIsGood DEF vars, Good, CloseKept
<1>2. QED
  BY <1>1, AlwaysIInv, PTL DEF Spec, CloseRequestKept

\* The keyboard focus moves to a window only by a press on it, by the grant of its
\* launch, when the focused window closes, or when Show Desktop ends; otherwise the
\* focused window stays where it is, in front if it was.
THEOREM FocusIsNotStolen == Spec => NoFocusStealing
<1>1. IInv /\ [Next]_vars =>
        [LET new == svc'.focused
             i == find_window_handle(svc', new)
         IN IF new = svc.focused
            THEN new # 0 /\ IsTop(svc, new) => IsTop(svc', new)
            ELSE \/ new = 0
                 \/ svc'.capture = new /\ svc.capture = 0
                 \/ svc.launch_focus = svc'.g_windows[i].process_id
                 \/ svc.focused # 0 /\ svc.focused \notin OpenHandles(svc')
                 \/ svc.windows_hidden /\ new = svc.hidden_focused]_svc
  BY StepIsGood DEF vars, Good, NotStolen
<1>2. QED
  BY <1>1, AlwaysIInv, PTL DEF Spec, NoFocusStealing
=============================================================================
