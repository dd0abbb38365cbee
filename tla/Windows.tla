------------------------------ MODULE Windows -------------------------------
(***************************************************************************)
(* The windows of the desktop (terminal_windows.cpp), the foreground that  *)
(* follows them (scheduler.cpp, process.cpp), and what of them is on the   *)
(* screen (gui.cpp, framebuffer.cpp).                                      *)
(*                                                                         *)
(* System calls and the mouse's interrupt handler run with interrupts      *)
(* disabled and are one step each.  scheduler_set_foreground, which the    *)
(* shell and the editor call as a function, can be interrupted anywhere:   *)
(* before it activates the window, and inside activate_process, by the     *)
(* mouse or by a switch to another process.  set_foreground_done is an     *)
(* activation that nothing comes into; one that something comes into goes  *)
(* on in the focus_ steps, single accesses to the stack between which      *)
(* everything else may happen, and `torn' remembers it.  Windows are only  *)
(* made in system calls: a program prints before it draws.  A framebuffer  *)
(* is there, otherwise there are no windows.                               *)
(*                                                                         *)
(* The screen is abstracted to the picture of each window, that is the     *)
(* frame it was last drawn with, and to pictures that were left behind.    *)
(* Between two events of the mouse lie the ones on the way from one point  *)
(* to the other: they change nothing that the last one does not set again, *)
(* and without the button nothing but the cursor.                          *)
(***************************************************************************)
EXTENDS Integers, Sequences, FiniteSets, SequencesExt

CONSTANTS Process,             \* the processes that are ever started
          Shell,               \* the one that runs from the start
          NULL,
          MAX_WINDOWS,
          MAX_PROCESSES,       \* depth of foreground_stack
          ScreenWidth, ScreenHeight,
          FONT_WIDTH, FONT_HEIGHT,
          VGA_WIDTH, VGA_HEIGHT,
          FRAME_BORDER, TITLE_BAR_HEIGHT, CONTENT_PADDING_X, CONTENT_PADDING_BOTTOM,
          INITIAL_FRAME_X, INITIAL_FRAME_Y, CASCADE_STEP_X, CASCADE_STEP_Y,
          RESIZE_MARGIN, MIN_VISIBLE_COLUMNS, MIN_VISIBLE_ROWS,
          CLOSE_BUTTON_SIZE, CLOSE_BUTTON_MARGIN,
          Points,              \* bound: where the mouse reports itself
          Origins,             \* bound: where programs move their windows
          MAX_EVENTS           \* bound: mouse events with the button down, windows
                               \* raised or moved by programs, interrupted activations twice

padding_w == 2 * FRAME_BORDER + 2 * CONTENT_PADDING_X
padding_h == 2 * FRAME_BORDER + TITLE_BAR_HEIGHT + CONTENT_PADDING_BOTTOM
min_frame_width == MIN_VISIBLE_COLUMNS * FONT_WIDTH + padding_w
min_frame_height == MIN_VISIBLE_ROWS * FONT_HEIGHT + padding_h

ASSUME WindowsAssumption ==
    /\ Shell \in Process /\ NULL \notin Process
    /\ MAX_WINDOWS \in Nat \ {0} /\ MAX_PROCESSES \in Nat \ {0}
    /\ ScreenWidth \in Nat /\ ScreenHeight \in Nat
    /\ FONT_WIDTH \in Nat \ {0} /\ FONT_HEIGHT \in Nat \ {0}
    /\ VGA_WIDTH \in Nat /\ VGA_HEIGHT \in Nat
    /\ FRAME_BORDER \in Nat /\ TITLE_BAR_HEIGHT \in Nat
    /\ CONTENT_PADDING_X \in Nat /\ CONTENT_PADDING_BOTTOM \in Nat
    /\ INITIAL_FRAME_X \in Nat /\ INITIAL_FRAME_Y \in Nat
    /\ CASCADE_STEP_X \in Nat /\ CASCADE_STEP_Y \in Nat
    /\ RESIZE_MARGIN \in Nat /\ CLOSE_BUTTON_SIZE \in Nat /\ CLOSE_BUTTON_MARGIN \in Nat
    /\ MIN_VISIBLE_COLUMNS \in 1 .. VGA_WIDTH /\ MIN_VISIBLE_ROWS \in 1 .. VGA_HEIGHT
    /\ VGA_WIDTH * FONT_WIDTH + padding_w <= ScreenWidth
    /\ VGA_HEIGHT * FONT_HEIGHT + padding_h <= ScreenHeight
    /\ 2 * RESIZE_MARGIN <= min_frame_width /\ 2 * RESIZE_MARGIN <= min_frame_height
    /\ \A p \in Points : p.x \in 0 .. ScreenWidth - 1 /\ p.y \in 0 .. ScreenHeight - 1
    /\ \A p \in Origins : p.x \in Int /\ p.y \in Int
    /\ MAX_EVENTS \in Nat

VARIABLES desk,      \* windows, stack, grabs, foreground and screen, see Desk
          mouse,     \* g_cursor: position and left button
          calls,     \* of scheduler_set_foreground, to come or under way
          halfway,   \* calls that were interrupted in activate_process
          torn,      \* history: there was such a call
          started,   \* processes that were ever started
          lingering, \* the running process, when it was killed under way
          astray,    \* history: a window came up that is not the foreground's
          late,      \* history: processes that opened a window when dead
          moved,     \* history: a program moved a window that the mouse holds
          events

vars == <<desk, mouse, calls, halfway, torn, lingering, started, astray, late, moved, events>>

Slot == 0 .. MAX_WINDOWS - 1
INVALID_SLOT == -1
Edge == {"left", "right", "top", "bottom"}

FreeWindow == [in_use |-> FALSE, owner |-> NULL, x |-> 0, y |-> 0,
               columns |-> VGA_WIDTH, rows |-> VGA_HEIGHT]
NoGrab == [on |-> FALSE, slot |-> INVALID_SLOT, dx |-> 0, dy |-> 0]
Blank == [x |-> 0, y |-> 0, width |-> 0, height |-> 0]
NoResize == [on |-> FALSE, slot |-> INVALID_SLOT, edges |-> {},
             cursor_x |-> 0, cursor_y |-> 0, frame |-> Blank]

Window == [in_use : BOOLEAN, owner : Process \cup {NULL}, x : Int, y : Int,
           columns : 1 .. VGA_WIDTH, rows : 1 .. VGA_HEIGHT]
Frame == [x : Int, y : Int, width : Nat, height : Nat]

\* What the window manager and the scheduler keep, and what is on the screen.
Desk ==
    [win : [Slot -> Window], count : 0 .. MAX_WINDOWS,
     z : Seq(Slot), active : Slot \cup {INVALID_SLOT},
     drag : [on : BOOLEAN, slot : Slot \cup {INVALID_SLOT}, dx : Int, dy : Int],
     resize : [on : BOOLEAN, slot : Slot \cup {INVALID_SLOT}, edges : SUBSET Edge,
               cursor_x : Int, cursor_y : Int, frame : Frame],
     foreground : Process \cup {NULL}, stack : Seq(Process), alive : SUBSET Process,
     picture : [Slot -> Frame], residue : SUBSET Frame, on_top : Slot \cup {INVALID_SLOT},
     cursor_drawn : BOOLEAN, ghost : BOOLEAN]

frame_width(w) == w.columns * FONT_WIDTH + padding_w
frame_height(w) == w.rows * FONT_HEIGHT + padding_h
FrameOf(w) == [x |-> w.x, y |-> w.y, width |-> frame_width(w), height |-> frame_height(w)]

Least(a, b) == IF a < b THEN a ELSE b
Most(a, b) == IF a < b THEN b ELSE a
AtLeastZero(a) == Most(a, 0)
clamp_u32(value, low, high) == Most(low, Least(value, high))

-----------------------------------------------------------------------------
(* Slots and the stack: state in, state out.                               *)

window_slot_valid(k, slot) == slot \in Slot /\ k.win[slot].in_use

\* Positions count from 1; 0 when the slot is not in the stack.
find_stack_position(k, slot) ==
    LET at == {i \in DOMAIN k.z : k.z[i] = slot}
    IN  IF at = {} THEN 0 ELSE CHOOSE i \in at : \A j \in at : i <= j

push_slot_to_top(k, slot) ==
    LET i == find_stack_position(k, slot)
    IN  IF slot \notin Slot \/ (i = 0 /\ Len(k.z) >= MAX_WINDOWS) THEN k
        ELSE [k EXCEPT !.z = Append(IF i = 0 THEN @ ELSE RemoveAt(@, i), slot)]

remove_slot_from_stack(k, slot) ==
    LET i == find_stack_position(k, slot)
    IN  IF i = 0 THEN k ELSE [k EXCEPT !.z = RemoveAt(@, i)]

FreeSlots(k) == {slot \in Slot : ~k.win[slot].in_use}

release_window_slot(k, slot) ==
    [k EXCEPT !.win[slot] = FreeWindow, !.count = IF @ > 0 THEN @ - 1 ELSE @]

\* Each process has at most one window; slots are searched from the first on.
find_window_index(k, p) ==
    LET own == {slot \in Slot : k.win[slot].in_use /\ k.win[slot].owner = p}
    IN  IF own = {} THEN INVALID_SLOT ELSE CHOOSE s \in own : \A t \in own : s <= t

stop_dragging(k) == [k EXCEPT !.drag = NoGrab]
stop_resizing(k) == [k EXCEPT !.resize = NoResize]

-----------------------------------------------------------------------------
(* The screen.                                                             *)

Overlap(a, b) ==
    /\ a.x < b.x + b.width /\ b.x < a.x + a.width
    /\ a.y < b.y + b.height /\ b.y < a.y + a.height

\* A frame that is drawn begins as a copy of what is displayed: with the mouse
\* cursor still on it (ensure_frame_started) a copy of the cursor stays behind.
StartFrame(k) == [k EXCEPT !.ghost = @ \/ k.cursor_drawn]

\* suspend_mouse_cursor, restore_cursor_background
begin_window_redraw(k) == [k EXCEPT !.cursor_drawn = FALSE]

\* framebuffer::present, render_mouse_cursor
end_window_redraw(k) == [k EXCEPT !.cursor_drawn = TRUE]

\* Erases a picture, and a part of every other one that it touches.
fill_background_rect(k, frame) ==
    [StartFrame(k) EXCEPT
        !.residue = @ \ {frame},
        !.picture = [s \in Slot |-> IF @[s] = frame THEN Blank
                                    ELSE IF Overlap(@[s], frame)
                                         THEN [@[s] EXCEPT !.width = 0]
                                    ELSE @[s]]]

\* The slot that is drawn last, when one is.
DrawnLast(k) ==
    LET drawn == SelectSeq(k.z, LAMBDA s : window_slot_valid(k, s))
    IN  IF window_slot_valid(k, k.active) THEN k.active
        ELSE IF drawn # << >> THEN Last(drawn) ELSE k.on_top

\* The windows of the stack from the bottom up, the active one last.
DrawStack(k) ==
    LET drawn == {s \in ToSet(k.z) : window_slot_valid(k, s)}
    IN  IF k.z = << >> THEN end_window_redraw(k)
        ELSE end_window_redraw([StartFrame(k) EXCEPT
                 !.residue = @ \cup {k.picture[s] : s \in {t \in drawn :
                                  k.picture[t].width # 0 /\ k.picture[t] # FrameOf(k.win[t])}},
                 !.picture = [s \in Slot |-> IF s \in drawn THEN FrameOf(k.win[s]) ELSE @[s]],
                 !.on_top = DrawnLast(k)])

draw_windows(k) == DrawStack(begin_window_redraw(k))

\* The background of the whole screen, then the windows.
draw_workspace(k) ==
    LET b == begin_window_redraw(k)
    IN  end_window_redraw(draw_windows([b EXCEPT !.residue = {}, !.ghost = FALSE,
                                                 !.on_top = INVALID_SLOT,
                                                 !.picture = [s \in Slot |-> Blank]]))

-----------------------------------------------------------------------------
(* Opening, focusing and closing.                                          *)

\* Mutant: the grabs are not looked at.
close_window_slot_KeepsGrabs(k, slot) ==
    LET left == release_window_slot(remove_slot_from_stack(k, slot), slot)
    IN  IF ~window_slot_valid(k, slot) THEN k
        ELSE draw_workspace([left EXCEPT !.active = IF left.z = << >> THEN INVALID_SLOT
                                                     ELSE Last(left.z)])

close_window_slot(k, slot) ==
    LET let_go == IF k.drag.on /\ k.drag.slot = slot THEN stop_dragging(k) ELSE k
        dropped == IF k.resize.on /\ k.resize.slot = slot THEN stop_resizing(let_go) ELSE let_go
        left == release_window_slot(remove_slot_from_stack(dropped, slot), slot)
    IN  IF ~window_slot_valid(k, slot) THEN k
        ELSE draw_workspace([left EXCEPT !.active = IF left.z = << >> THEN INVALID_SLOT
                                                     ELSE Last(left.z)])

\* Mutant: the window becomes active where it is in the stack.
focus_window_StaysBelow(k, slot) ==
    LET focused == [k EXCEPT !.active = slot,
                             !.z = IF \E i \in DOMAIN @ : @[i] = slot THEN @
                                   ELSE Append(@, slot)]
    IN  IF ~window_slot_valid(k, slot) THEN k
        ELSE IF k.active # slot THEN draw_windows(focused) ELSE focused

focus_window(k, slot) ==
    LET focused == [push_slot_to_top(k, slot) EXCEPT !.active = slot]
    IN  IF ~window_slot_valid(k, slot) THEN k
        ELSE IF k.active # slot THEN draw_windows(focused) ELSE focused

activate_process(k, p) == focus_window(k, find_window_index(k, p))

apply_visible_dimensions(w, columns, rows) ==
    [w EXCEPT !.columns = clamp_u32(columns, MIN_VISIBLE_COLUMNS, VGA_WIDTH),
              !.rows = clamp_u32(rows, MIN_VISIBLE_ROWS, VGA_HEIGHT)]

\* Mutant: a frame may reach over the right or the lower border.
ClampedTo_Unbounded(at, size, limit) == IF size >= limit THEN 0 ELSE at

\* clamp_frame, in one direction
ClampedTo(at, size, limit) ==
    IF size >= limit THEN 0 ELSE IF at + size > limit THEN limit - size ELSE at

MovedTo(w, x, y) ==
    [w EXCEPT !.x = ClampedTo(x, frame_width(w), ScreenWidth),
              !.y = ClampedTo(y, frame_height(w), ScreenHeight)]

\* A slot that allocate_window_slot took for process p, as large as it may be.
NewWindow(p) ==
    [apply_visible_dimensions(FreeWindow, VGA_WIDTH, VGA_HEIGHT) EXCEPT
        !.in_use = TRUE, !.owner = p]

\* Mutant: the count is not looked at, and the last slot is used again.
request_new_window_WhenFull(k, p) ==
    LET slot == IF FreeSlots(k) = {} THEN MAX_WINDOWS - 1
                ELSE CHOOSE s \in FreeSlots(k) : \A t \in FreeSlots(k) : s <= t
        placed == MovedTo(NewWindow(p), INITIAL_FRAME_X + Len(k.z) * CASCADE_STEP_X,
                                        INITIAL_FRAME_Y + Len(k.z) * CASCADE_STEP_Y)
    IN  IF find_window_index(k, p) # INVALID_SLOT THEN activate_process(k, p)
        ELSE focus_window([k EXCEPT !.win[slot] = placed, !.count = @ + 1], slot)

\* A process that has a window gets it to the front; a new one is cascaded by
\* the number of windows there are.
request_new_window(k, p) ==
    LET slot == CHOOSE s \in FreeSlots(k) : \A t \in FreeSlots(k) : s <= t
        placed == MovedTo(NewWindow(p), INITIAL_FRAME_X + Len(k.z) * CASCADE_STEP_X,
                                        INITIAL_FRAME_Y + Len(k.z) * CASCADE_STEP_Y)
    IN  IF find_window_index(k, p) # INVALID_SLOT THEN activate_process(k, p)
        ELSE IF k.count >= MAX_WINDOWS \/ FreeSlots(k) = {} THEN k
        ELSE focus_window([k EXCEPT !.win[slot] = placed, !.count = @ + 1], slot)

set_active_window_origin(k, p, x, y) ==
    LET slot == find_window_index(k, p)
        offset_x == FRAME_BORDER + CONTENT_PADDING_X
        offset_y == FRAME_BORDER + TITLE_BAR_HEIGHT
    IN  IF slot = INVALID_SLOT THEN k
        ELSE draw_windows([k EXCEPT !.win[slot] =
                 MovedTo(@, AtLeastZero(x - offset_x), AtLeastZero(y - offset_y))])

\* Mutant: a dead process keeps its window.
on_process_exit_Never(k, p) == k

on_process_exit(k, p) == close_window_slot(k, find_window_index(k, p))

-----------------------------------------------------------------------------
(* scheduler.cpp, process.cpp: the foreground.                             *)

switch_foreground(k, next) == activate_process([k EXCEPT !.foreground = next], next)

RememberForeground(k) ==
    IF k.foreground # NULL /\ Len(k.stack) < MAX_PROCESSES
    THEN [k EXCEPT !.stack = Append(@, k.foreground)] ELSE k

scheduler_set_foreground(k, p) ==
    IF k.foreground = p THEN k ELSE switch_foreground(RememberForeground(k), p)

\* Mutant: the window of the heir is not activated.
scheduler_restore_foreground_Silent(k, p) ==
    IF p # k.foreground THEN k
    ELSE IF k.stack = << >> THEN [k EXCEPT !.foreground = NULL]
    ELSE [k EXCEPT !.stack = Front(@), !.foreground = Last(k.stack)]

scheduler_restore_foreground(k, p) ==
    IF p # k.foreground THEN k
    ELSE IF k.stack = << >> THEN switch_foreground(k, NULL)
    ELSE switch_foreground([k EXCEPT !.stack = Front(@)], Last(k.stack))

kill_process(k, p) ==
    scheduler_restore_foreground(on_process_exit([k EXCEPT !.alive = @ \ {p}], p), p)

-----------------------------------------------------------------------------
(* The mouse.                                                              *)

Inside(w, x, y) ==
    /\ x >= w.x /\ x - w.x < frame_width(w)
    /\ y >= w.y /\ y - w.y < frame_height(w)

OnCloseButton(w, x, y) ==
    LET inner == frame_width(w) - 2 * FRAME_BORDER
        left == w.x + FRAME_BORDER + inner - CLOSE_BUTTON_MARGIN - CLOSE_BUTTON_SIZE
        top == w.y + FRAME_BORDER + ((TITLE_BAR_HEIGHT - CLOSE_BUTTON_SIZE) \div 2)
    IN  /\ inner > CLOSE_BUTTON_SIZE + CLOSE_BUTTON_MARGIN
        /\ x >= left /\ x < left + CLOSE_BUTTON_SIZE
        /\ y >= top /\ y < top + CLOSE_BUTTON_SIZE

ResizeEdges(w, x, y) ==
    {e \in Edge :
        \/ e = "left" /\ x - w.x < RESIZE_MARGIN
        \/ e = "right" /\ w.x + frame_width(w) - x <= RESIZE_MARGIN
        \/ e = "top" /\ y - w.y < RESIZE_MARGIN /\ y - w.y <= FRAME_BORDER + 4
        \/ e = "bottom" /\ w.y + frame_height(w) - y <= RESIZE_MARGIN}

OnTitleBar(w, y) == y - w.y < FRAME_BORDER + TITLE_BAR_HEIGHT

\* Mutant: the stack is searched from the bottom up.
hit_test_window_BottomFirst(k, x, y) ==
    LET hits == {i \in DOMAIN k.z : window_slot_valid(k, k.z[i]) /\ Inside(k.win[k.z[i]], x, y)}
    IN  IF hits = {} THEN INVALID_SLOT ELSE k.z[CHOOSE i \in hits : \A j \in hits : i <= j]

\* The active window first, then the others from the top of the stack down.
hit_test_window(k, x, y) ==
    LET hits == {i \in DOMAIN k.z : window_slot_valid(k, k.z[i]) /\ Inside(k.win[k.z[i]], x, y)}
    IN  IF k.z # << >> /\ window_slot_valid(k, k.active) /\ Inside(k.win[k.active], x, y)
        THEN k.active
        ELSE IF hits = {} THEN INVALID_SLOT
        ELSE k.z[CHOOSE i \in hits : \A j \in hits : j <= i]

begin_resize(k, slot, edges, x, y) ==
    [k EXCEPT !.resize = [on |-> TRUE, slot |-> slot, edges |-> edges,
                          cursor_x |-> x, cursor_y |-> y, frame |-> FrameOf(k.win[slot])]]

\* Mutant: the near edge follows the mouse, the rounding moves the far one.
Resized_NearFollows(start, size, delta, near, far, least, limit, cell, padding, cells_min, cells_max) ==
    LET end == start + size
        low == IF near THEN Least(AtLeastZero(start + delta), end - least) ELSE start
        high == IF far THEN Most(Least(end + delta, limit), low + least) ELSE end
        cells == clamp_u32((high - low - padding) \div cell, cells_min, cells_max)
    IN  [cells |-> cells, at |-> ClampedTo(low, cells * cell + padding, limit)]

\* update_resize, in one direction: the frame began at start with a size; delta
\* moves its near edge, its far edge or none.  The sides are kept on the screen
\* and apart, the size is rounded down to cells, and a near edge that moves is
\* put where it leaves the far one in place.
Resized(start, size, delta, near, far, least, limit, cell, padding, cells_min, cells_max) ==
    LET end == start + size
        low == IF near THEN Least(AtLeastZero(start + delta), end - least) ELSE start
        high == IF far THEN Most(Least(end + delta, limit), low + least) ELSE end
        \* neither side may be past the screen
        low2 == IF high > limit THEN AtLeastZero(limit - least) ELSE low
        high2 == Least(high, limit)
        width == Most(high2 - low2, least)
        right == IF high2 - low2 < least /\ ~near THEN low2 + width ELSE high2
        left == IF high2 - low2 < least /\ near THEN high2 - width ELSE low2
        fitting == IF limit > padding THEN (limit - padding) \div cell ELSE cells_min
        cells == clamp_u32(AtLeastZero(width - padding) \div cell, cells_min,
                           Most(cells_min, Least(fitting, cells_max)))
        final == cells * cell + padding
    IN  [cells |-> cells,
         at |-> ClampedTo(IF near /\ ~far THEN AtLeastZero(right - final) ELSE AtLeastZero(left),
                          final, limit)]

ResizedAcross(r, x) ==
    Resized(r.frame.x, r.frame.width, x - r.cursor_x, "left" \in r.edges, "right" \in r.edges,
            min_frame_width, ScreenWidth, FONT_WIDTH, padding_w, MIN_VISIBLE_COLUMNS, VGA_WIDTH)

ResizedDown(r, y) ==
    Resized(r.frame.y, r.frame.height, y - r.cursor_y, "top" \in r.edges, "bottom" \in r.edges,
            min_frame_height, ScreenHeight, FONT_HEIGHT, padding_h, MIN_VISIBLE_ROWS, VGA_HEIGHT)

\* The window that is resized, for the mouse at x, y.
ResizeResult(k, x, y) ==
    [apply_visible_dimensions(k.win[k.resize.slot], ResizedAcross(k.resize, x).cells,
                                                    ResizedDown(k.resize, y).cells)
        EXCEPT !.x = ResizedAcross(k.resize, x).at, !.y = ResizedDown(k.resize, y).at]

\* Mutant: what the window uncovers is not painted over.
update_resize_LeavesOld(k, x, y) ==
    LET slot == k.resize.slot
        w == ResizeResult(k, x, y)
    IN  IF ~window_slot_valid(k, slot) \/ w = k.win[slot] THEN k
        ELSE draw_windows([k EXCEPT !.win[slot] = w])

update_resize(k, x, y) ==
    LET slot == k.resize.slot
        w == ResizeResult(k, x, y)
    IN  IF ~window_slot_valid(k, slot) \/ w = k.win[slot] THEN k
        ELSE draw_windows(fill_background_rect([k EXCEPT !.win[slot] = w], FrameOf(k.win[slot])))

\* The window the mouse holds follows it, up to the borders of the screen.
DragResult(k, x, y) ==
    MovedTo(k.win[k.drag.slot], AtLeastZero(x - k.drag.dx), AtLeastZero(y - k.drag.dy))

update_drag(k, x, y) ==
    LET slot == k.drag.slot
        w == DragResult(k, x, y)
    IN  IF ~window_slot_valid(k, slot) \/ w = k.win[slot] THEN k
        ELSE draw_windows([fill_background_rect(k, FrameOf(k.win[slot])) EXCEPT !.win[slot] = w])

\* A press on a window: its owner becomes the foreground process.
Focused(k, slot) ==
    IF k.foreground # k.win[slot].owner
    THEN scheduler_set_foreground(k, k.win[slot].owner) ELSE focus_window(k, slot)

ClosesAt(k, x, y) ==
    LET slot == hit_test_window(k, x, y)
    IN  slot # INVALID_SLOT /\ OnCloseButton(k.win[slot], x, y)

\* A press anywhere but on a close button.  What is dragged is the active window.
Pressed(k, x, y) ==
    LET slot == hit_test_window(k, x, y)
        f == Focused(k, slot)
        edges == ResizeEdges(k.win[slot], x, y)
        w == f.win[f.active]
    IN  IF slot = INVALID_SLOT THEN stop_resizing(stop_dragging(k))
        ELSE IF edges # {} THEN begin_resize(stop_dragging(f), slot, edges, x, y)
        ELSE IF ~window_slot_valid(f, f.active) THEN f
        ELSE IF OnTitleBar(k.win[slot], y)
             THEN [stop_resizing(f) EXCEPT !.drag = [on |-> TRUE, slot |-> f.active,
                                                     dx |-> x - w.x, dy |-> y - w.y]]
        ELSE stop_resizing(stop_dragging(f))

\* The rest of the handler: a window that is resized is not also dragged when the
\* resizing changed anything.
Follow(k, x, y, down) ==
    LET held == IF k.resize.on /\ ~down THEN stop_resizing(k) ELSE k
        resized == IF held.resize.on THEN update_resize(held, x, y) ELSE held
    IN  IF resized # held \/ ~held.drag.on THEN resized ELSE update_drag(held, x, y)

windows_handle_mouse_event(k, x, y, down, changed) ==
    IF changed /\ down /\ ClosesAt(k, x, y)
    THEN LET slot == hit_test_window(k, x, y)
             f == stop_resizing(stop_dragging(Focused(k, slot)))
         IN  kill_process(f, k.win[slot].owner)
    ELSE Follow(IF changed /\ down THEN Pressed(k, x, y)
                ELSE IF changed THEN stop_resizing(stop_dragging(k)) ELSE k, x, y, down)

\* gui.cpp: the cursor is taken off the screen when it changes.
gui_handle_mouse_event(k, x, y, down) ==
    LET same == mouse = [x |-> x, y |-> y, down |-> down]
        cleared == IF same THEN k ELSE begin_window_redraw(k)
    IN  end_window_redraw(windows_handle_mouse_event(cleared, x, y, down, down # mouse.down))

-----------------------------------------------------------------------------
(* Actions.                                                                *)

\* Where the mouse is matters only while its button is down.
ButtonUp == [x |-> 0, y |-> 0, down |-> FALSE]

\* Process p will call scheduler_set_foreground(q).
Call(p, q) == [by |-> p, of |-> q, inside |-> FALSE]

\* kernel_main: the shell has its window, and nobody the foreground yet.
Booted ==
    request_new_window(
        [win |-> [s \in Slot |-> FreeWindow], count |-> 0, z |-> << >>, active |-> INVALID_SLOT,
         drag |-> NoGrab, resize |-> NoResize,
         foreground |-> NULL, stack |-> << >>, alive |-> {Shell},
         picture |-> [s \in Slot |-> Blank], residue |-> {}, on_top |-> INVALID_SLOT,
         cursor_drawn |-> TRUE, ghost |-> FALSE], Shell)

Init ==
    /\ desk = draw_workspace(Booted)
    /\ mouse = ButtonUp
    /\ calls = {Call(Shell, Shell)} /\ lingering = {}
    /\ halfway = {} /\ torn = FALSE
    /\ started = {Shell}
    /\ astray = FALSE /\ late = {} /\ moved = FALSE
    /\ events = 0

Running(p) == p \in desk.alive \cup lingering

\* A process that is to make itself the foreground prints before it does; all
\* other calls come first.
Free(p) ==
    /\ \A c \in calls : c.by = p => c.of = p /\ ~c.inside
    /\ \A h \in halfway : h.by # p

\* sys_start_process
start_process ==
    /\ \E p \in Process, q \in Process :
           /\ Running(p) /\ Free(p) /\ q \notin started
           /\ started' = started \cup {q}
           /\ desk' = [desk EXCEPT !.alive = @ \cup {q}]
    /\ UNCHANGED <<mouse, calls, halfway, torn, lingering, astray, late, moved, events>>

\* cmd_edit: both the shell and the editor will make the editor the foreground.
cmd_edit ==
    /\ Running(Shell) /\ \A c \in calls \cup halfway : c.by # Shell
    /\ \E q \in Process \ started :
           /\ started' = started \cup {q}
           /\ desk' = [desk EXCEPT !.alive = @ \cup {q}]
           /\ calls' = calls \cup {Call(Shell, q), Call(q, q)}
    /\ UNCHANGED <<mouse, halfway, torn, lingering, astray, late, moved, events>>

\* sys_console_write (write_text) of a process without a window.
open_window(p) ==
    /\ Running(p) /\ Free(p)
    /\ find_window_index(desk, p) = INVALID_SLOT
    /\ desk' = request_new_window(desk, p)
    /\ LET opened == find_window_index(desk', p) # INVALID_SLOT
       IN  /\ astray' = (astray \/ (opened /\ desk.foreground # p))
           /\ late' = IF opened /\ p \notin desk.alive THEN late \cup {p} ELSE late
    /\ UNCHANGED <<mouse, calls, halfway, torn, lingering, started, moved, events>>

\* process_command: GUI_COMMAND_REQUEST_NEW_WINDOW of a process that has one
gui_command_new_window(p) ==
    /\ Running(p) /\ Free(p)
    /\ find_window_index(desk, p) # INVALID_SLOT
    /\ desk' = draw_workspace(request_new_window(desk, p))
    /\ astray' = (astray \/ desk.foreground # p)
    /\ events < MAX_EVENTS /\ events' = events + 1
    /\ UNCHANGED <<mouse, calls, halfway, torn, lingering, started, late, moved>>

\* process_command: GUI_COMMAND_REDRAW
gui_command_redraw ==
    /\ desk' = draw_workspace(desk)
    /\ UNCHANGED <<mouse, calls, halfway, torn, lingering, started, astray, late, moved, events>>

\* process_command: GUI_COMMAND_SET_TERMINAL_ORIGIN
gui_command_origin(p) ==
    /\ Running(p) /\ Free(p) /\ events < MAX_EVENTS
    /\ \E o \in Origins :
           desk' = draw_workspace(set_active_window_origin(desk, p, o.x, o.y))
    /\ moved' = (moved \/ \E g \in {desk.drag, desk.resize} :
                             g.on /\ g.slot = find_window_index(desk, p))
    /\ events' = events + 1
    /\ UNCHANGED <<mouse, calls, halfway, torn, lingering, started, astray, late>>

\* scheduler_set_foreground, called by a process: up to the focus events ...
set_foreground_begin ==
    /\ \E c \in calls :
           /\ Running(c.by) /\ ~c.inside /\ \A h \in halfway : h.by # c.by
           /\ c.by = c.of => find_window_index(desk, c.by) # INVALID_SLOT \/ FreeSlots(desk) = {}
           /\ IF desk.foreground = c.of
              THEN calls' = calls \ {c} /\ UNCHANGED desk
              ELSE /\ desk' = [RememberForeground(desk) EXCEPT !.foreground = c.of]
                   /\ calls' = (calls \ {c}) \cup {[c EXCEPT !.inside = TRUE]}
    /\ UNCHANGED <<mouse, halfway, torn, lingering, started, astray, late, moved, events>>

\* ... and the window, whoever has the foreground by then, when nothing comes into
\* activate_process.
set_foreground_done ==
    /\ \E c \in calls :
           /\ Running(c.by) /\ c.inside
           /\ desk' = activate_process(desk, c.of)
           /\ calls' = calls \ {c}
           /\ astray' = (astray \/ desk.foreground # c.of)
    /\ UNCHANGED <<mouse, halfway, torn, lingering, started, late, moved, events>>

\* Something does: activate_process has found the window, and focus_window that
\* it is there.
set_foreground_interrupted ==
    /\ \E c \in calls :
           LET slot == find_window_index(desk, c.of)
           IN  /\ Running(c.by) /\ c.inside /\ slot # INVALID_SLOT
               /\ calls' = calls \ {c}
               /\ halfway' = halfway \cup {[by |-> c.by, slot |-> slot, at |-> "checked",
                                            position |-> 0, redraw |-> FALSE]}
               /\ astray' = (astray \/ desk.foreground # c.of)
    /\ torn' = TRUE
    /\ events + 1 < MAX_EVENTS /\ events' = events + 2
    /\ UNCHANGED <<desk, mouse, lingering, started, late, moved>>

\* A step of an interrupted activation h, which is at h2 after it.
Onward(h, h2) == halfway' = (halfway \ {h}) \cup {h2}

\* previous_active is read, and push_slot_to_top finds the slot in the stack.
focus_position(h) ==
    /\ h.at = "checked"
    /\ Onward(h, [h EXCEPT !.at = "pushing", !.redraw = desk.active # h.slot,
                           !.position = find_stack_position(desk, h.slot)])
    /\ UNCHANGED desk

\* One turn of the loop that closes the gap.
focus_shift(h) ==
    /\ h.at = "pushing" /\ h.position > 0 /\ h.position < Len(desk.z)
    /\ desk' = [desk EXCEPT !.z[h.position] = desk.z[h.position + 1]]
    /\ Onward(h, [h EXCEPT !.position = @ + 1])

\* The slot is put on top: over the last entry, or over the word in front of
\* g_z_order when the stack has become empty; as a new entry when it was not found.
focus_put(h) ==
    /\ h.at = "pushing" /\ (h.position > 0 => h.position >= Len(desk.z))
    /\ desk' = [desk EXCEPT !.z =
                  IF h.position > 0
                  THEN IF @ = << >> THEN @ ELSE [@ EXCEPT ![Len(@)] = h.slot]
                  ELSE IF Len(@) < MAX_WINDOWS THEN Append(@, h.slot) ELSE @]
    /\ Onward(h, [h EXCEPT !.at = "pushed", !.position = 0])

\* g_active_slot is set, and draw_windows begins.
focus_active(h) ==
    /\ h.at = "pushed"
    /\ \/ /\ h.redraw
          /\ desk' = begin_window_redraw([desk EXCEPT !.active = h.slot])
          /\ Onward(h, [h EXCEPT !.at = "drawing"])
       \/ /\ ~h.redraw
          /\ desk' = [desk EXCEPT !.active = h.slot]
          /\ halfway' = halfway \ {h}

\* draw_windows ends, with a cursor on the screen when the mouse has put it there;
\* it need only have moved.
focus_draw(h) ==
    /\ h.at = "drawing"
    /\ desk' \in {DrawStack(desk), DrawStack(end_window_redraw(desk))}
    /\ halfway' = halfway \ {h}

\* The rest of an interrupted activation, one access at a time.
focus_window_resumed ==
    /\ \E h \in halfway :
           /\ Running(h.by)
           /\ \/ focus_position(h) \/ focus_shift(h) \/ focus_put(h)
              \/ focus_active(h) \/ focus_draw(h)
    /\ UNCHANGED <<mouse, calls, torn, lingering, started, astray, late, moved, events>>

sys_exit(p) ==
    /\ Running(p) /\ \A c \in calls \cup halfway : c.by # p
    /\ desk' = kill_process(desk, p)
    /\ lingering' = lingering \ {p}
    /\ UNCHANGED <<mouse, calls, halfway, torn, started, astray, late, moved, events>>

\* handle_packet.  A process whose window is closed may be the one that was
\* interrupted: it goes on until the next switch.
mouse_event ==
    /\ \E p \in Points, down \in BOOLEAN :
           LET press == down /\ ~mouse.down
               closed == IF press /\ ClosesAt(desk, p.x, p.y)
                         THEN {desk.win[hit_test_window(desk, p.x, p.y)].owner} ELSE {}
           IN  /\ down \/ mouse.down
               /\ down => events < MAX_EVENTS
               /\ events' = IF down THEN events + 1 ELSE events
               /\ desk' = gui_handle_mouse_event(desk, p.x, p.y, down)
               /\ mouse' = IF down THEN [x |-> p.x, y |-> p.y, down |-> TRUE] ELSE ButtonUp
               /\ lingering' \in {lingering, IF lingering = {} THEN closed ELSE lingering}
               /\ calls' = {c \in calls : c.by \notin closed \/ c.by \in lingering'}
               /\ halfway' = {h \in halfway : h.by \notin closed \/ h.by \in lingering'}
               /\ astray' = IF press /\ closed = {}
                               /\ hit_test_window(desk, p.x, p.y) # INVALID_SLOT
                            THEN FALSE ELSE astray
    /\ UNCHANGED <<torn, started, late, moved>>

\* The scheduler takes a dead process off the CPU for good, wherever it was.
context_switch ==
    /\ lingering # {}
    /\ astray' = (astray \/ \E c \in calls : c.by \in lingering /\ c.inside)
    /\ calls' = {c \in calls : c.by \notin lingering}
    /\ halfway' = {h \in halfway : h.by \notin lingering}
    /\ lingering' = {}
    /\ UNCHANGED <<desk, mouse, torn, started, late, moved, events>>

Next ==
    \/ start_process
    \/ cmd_edit
    \/ \E p \in Process : open_window(p)
    \/ \E p \in Process : gui_command_new_window(p)
    \/ gui_command_redraw
    \/ \E p \in Process : gui_command_origin(p)
    \/ set_foreground_begin
    \/ set_foreground_done
    \/ set_foreground_interrupted
    \/ focus_window_resumed
    \/ \E p \in Process : sys_exit(p)
    \/ mouse_event
    \/ context_switch

Spec == Init /\ [][Next]_vars

-----------------------------------------------------------------------------
(* Properties.                                                             *)

\* Type correctness of the slots, stack, grabs, foreground and screen; there are
\* never more windows than slots (allocate_window_slot, request_new_window).
TypeOK ==
    /\ desk \in Desk
    /\ Len(desk.z) <= MAX_WINDOWS /\ Len(desk.stack) <= MAX_PROCESSES
    /\ desk.alive \subseteq started
    /\ mouse \in [x : Int, y : Int, down : BOOLEAN]
    /\ calls \subseteq [by : Process, of : Process, inside : BOOLEAN]
    /\ halfway \subseteq [by : Process, slot : Slot, at : {"checked", "pushing", "pushed", "drawing"},
                          position : 0 .. MAX_WINDOWS, redraw : BOOLEAN]
    /\ started \subseteq Process /\ lingering \subseteq started /\ late \subseteq Process
    /\ events \in 0 .. MAX_EVENTS

\* g_window_count is the number of windows in use and no process has two, whatever
\* comes into an activation.  As long as nothing did, g_z_order holds each window
\* in use once and nothing else, and the active window is the top one: what
\* opening, clicking, exits and the close button do to the slots, the stack and
\* g_active_slot never drifts apart.
StackIsExact ==
    LET used == {s \in Slot : desk.win[s].in_use}
    IN  /\ desk.count = Cardinality(used)
        /\ \A s, t \in used : desk.win[s].owner = desk.win[t].owner => s = t
        /\ ~torn => /\ ToSet(desk.z) = used /\ IsInjective(desk.z)
                    /\ desk.active = IF desk.z = << >> THEN INVALID_SLOT ELSE Last(desk.z)

\* A window that the mouse drags or resizes exists, is held only while the button
\* is down and only in one way: a window that goes away while it is held (its
\* process exits) takes the grab with it, so that the window which gets the slot
\* next is not torn along.
GrabsAreLive ==
    /\ \A g \in {desk.drag, desk.resize} :
           g.on => window_slot_valid(desk, g.slot) /\ mouse.down
    /\ ~(desk.drag.on /\ desk.resize.on)

\* Whatever is dragged, resized, opened or moved by a program, and in whichever
\* order, each frame stays on the screen (clamp_frame) and shows at least the
\* minimum of columns and rows.
FramesFit ==
    \A s \in Slot : desk.win[s].in_use =>
        LET w == desk.win[s]
        IN  /\ w.x >= 0 /\ w.x + frame_width(w) <= ScreenWidth
            /\ w.y >= 0 /\ w.y + frame_height(w) <= ScreenHeight
            /\ w.columns >= MIN_VISIBLE_COLUMNS /\ w.rows >= MIN_VISIBLE_ROWS

\* Resizing moves only the edges that are held: the opposite ones stay where
\* they were when the button went down, although the size is rounded to cells
\* and limited on both sides (update_resize).
ResizeStep ==
    desk.resize.on /\ desk'.resize = desk.resize /\ mouse' # mouse =>
        LET f == desk.resize.frame
            w == desk'.win[desk.resize.slot]
            held == desk'.resize.edges
        IN  w # desk.win[desk.resize.slot]
            => /\ IF "left" \in held THEN w.x + frame_width(w) = f.x + f.width ELSE w.x = f.x
               /\ IF "top" \in held THEN w.y + frame_height(w) = f.y + f.height ELSE w.y = f.y
               /\ held \cap {"left", "right"} = {} => frame_width(w) = f.width
               /\ held \cap {"top", "bottom"} = {} => frame_height(w) = f.height

\* Each step of a resizing is such a step: update_resize leaves the edges that are
\* not held where they were.
ResizeAnchors == [][ResizeStep]_vars

\* A press on the topmost window under the mouse makes its owner the foreground
\* process and brings it to the top before anything else; on the title bar it is
\* that window which is held, on the close button it is that owner which ends.  As
\* long as no activation was interrupted: the stack may be anything then.
ClickStep ==
    ~torn /\ ~mouse.down /\ mouse'.down => \A i \in DOMAIN desk.z :
        LET s == desk.z[i]
            w == desk.win[s]
            x == mouse'.x
            y == mouse'.y
            topmost == /\ Inside(w, x, y)
                       /\ \A j \in DOMAIN desk.z : j > i => ~Inside(desk.win[desk.z[j]], x, y)
        IN  topmost
            => IF OnCloseButton(w, x, y)
               THEN desk'.alive = desk.alive \ {w.owner} /\ ~desk'.win[s].in_use
               ELSE /\ desk'.foreground = w.owner /\ desk'.active = s /\ Last(desk'.z) = s
                    /\ \A g \in {desk'.drag, desk'.resize} : g.on => g.slot = s
                    /\ OnTitleBar(w, y) => desk'.drag.on \/ desk'.resize.on

\* Each press of the button is such a step: windows_handle_mouse_event acts on the
\* topmost window under the mouse.
ClickTakesFocus == [][ClickStep]_vars

\* The keyboard goes where the eye is: when the foreground process has a window,
\* that window is the active one, through clicks, exits and the return of the
\* foreground to an earlier process.  Excepted: a process that is not the
\* foreground opened or raised its own window, or scheduler_set_foreground was
\* overtaken by a click or by the close button before it activated the window; the
\* next click puts that right.  Excepted for good: something came into an activation.
FocusAgrees ==
    ~astray /\ ~torn /\ (\A c \in calls : ~c.inside) =>
        LET slot == find_window_index(desk, desk.foreground)
        IN  desk.foreground # NULL /\ slot # INVALID_SLOT => desk.active = slot

\* A window belongs to a living process, unless the process was killed by its
\* close button while it ran and printed again before the next switch.
DeadOwnNoWindow ==
    \A s \in Slot : desk.win[s].in_use => desk.win[s].owner \in desk.alive \cup late

\* What is on the screen is what the state says: every window where it is and in
\* its size, nothing left of a place it was in, the active one in front of all,
\* and the mouse cursor drawn once; excepted for the cursor: a program moved the
\* window the mouse holds, and the mouse reported itself without having moved.  As
\* long as nothing came into an activation and its redraw.
ScreenIsCurrent ==
    ~torn =>
        /\ \A s \in Slot :
               desk.picture[s] = IF desk.win[s].in_use THEN FrameOf(desk.win[s]) ELSE Blank
        /\ desk.residue = {}
        /\ desk.on_top = desk.active
        /\ desk.cursor_drawn
        /\ desk.ghost => moved
=============================================================================
