---------------------------- MODULE WindowsProofs ----------------------------
(***************************************************************************)
(* Theorems about Windows for every number of windows and processes, every *)
(* screen and font and every place of the mouse.                           *)
(***************************************************************************)
EXTENDS Windows, DataLemmas

-----------------------------------------------------------------------------
(* The inductive invariant, as predicates on the state of the desktop      *)

Used(k) == {s \in Slot : k.win[s].in_use}

Top(z) == IF z = << >> THEN INVALID_SLOT ELSE Last(z)

\* Windows in use, stack, count and active slot agree.
Exact(k) ==
    /\ ToSet(k.z) = Used(k) /\ IsInjective(k.z)
    /\ k.count = Cardinality(Used(k)) /\ Len(k.z) = k.count
    /\ \A s, t \in Used(k) : k.win[s].owner = k.win[t].owner => s = t
    /\ k.active = Top(k.z)

\* A frame that is on the screen and large enough.
Fits(w) ==
    /\ w.x >= 0 /\ w.x + frame_width(w) <= ScreenWidth
    /\ w.y >= 0 /\ w.y + frame_height(w) <= ScreenHeight
    /\ w.columns >= MIN_VISIBLE_COLUMNS /\ w.rows >= MIN_VISIBLE_ROWS

AllFit(k) == \A s \in Used(k) : Fits(k.win[s])

\* The frame a resizing began with was that of a window, and no two opposite
\* edges are held.
ResizeOK(r) ==
    /\ \E w \in Window : Fits(w) /\ r.frame = FrameOf(w)
    /\ ~({"left", "right"} \subseteq r.edges) /\ ~({"top", "bottom"} \subseteq r.edges)

\* What the mouse holds is a window in use, held in one way.
Held(k) ==
    /\ k.drag.on => k.drag.slot \in Used(k)
    /\ k.resize.on => k.resize.slot \in Used(k) /\ ResizeOK(k.resize)
    /\ ~(k.drag.on /\ k.resize.on)

Good(k) ==
    /\ k \in Desk
    /\ Len(k.stack) <= MAX_PROCESSES
    /\ Exact(k)
    /\ AllFit(k)
    /\ Held(k)

Owners(k) == {k.win[s].owner : s \in Used(k)}

\* The window of the foreground process, if it has one, is the active one.
Agrees(k) ==
    \A s \in Used(k) : k.foreground # NULL /\ k.win[s].owner = k.foreground => k.active = s

\* The screen shows the windows; the cursor is left aside.
Shown(k) ==
    /\ \A s \in Slot : k.picture[s] = IF s \in Used(k) THEN FrameOf(k.win[s]) ELSE Blank
    /\ k.residue = {} /\ k.on_top = k.active

\* The held window is already where the mouse at x, y puts it.
Settled(k, x, y) ==
    /\ k.drag.on => k.win[k.drag.slot] = DragResult(k, x, y)
    /\ k.resize.on => k.win[k.resize.slot] = ResizeResult(k, x, y)

\* Type correctness, but for the interrupted activations.
Typed ==
    /\ desk \in Desk
    /\ Len(desk.z) <= MAX_WINDOWS /\ Len(desk.stack) <= MAX_PROCESSES
    /\ desk.alive \subseteq started
    /\ mouse \in [x : Int, y : Int, down : BOOLEAN]
    /\ calls \subseteq [by : Process, of : Process, inside : BOOLEAN]
    /\ started \subseteq Process /\ lingering \subseteq started /\ late \subseteq Process
    /\ events \in 0 .. MAX_EVENTS

\* What every step keeps that comes into no activation.
IInv ==
    /\ Typed
    /\ Good(desk)
    /\ Owners(desk) \subseteq (desk.alive \cup late) \cap started
    /\ desk.drag.on \/ desk.resize.on => mouse.down
    /\ ~astray /\ (\A c \in calls : ~c.inside) => Agrees(desk)
    /\ Shown(desk) /\ desk.cursor_drawn
    /\ desk.ghost \/ ~Settled(desk, mouse.x, mouse.y) => moved

-----------------------------------------------------------------------------
(* Frames                                                                  *)

LEMMA ProductMonotonic ==
  ASSUME NEW a \in Nat, NEW b \in Nat, a <= b, NEW c \in Nat
  PROVE  a * c <= b * c /\ a * c \in Nat
OBVIOUS

LEMMA Paddings ==
  /\ padding_w \in Nat /\ padding_h \in Nat
  /\ min_frame_width \in Nat /\ min_frame_height \in Nat
<1>1. padding_w \in Nat /\ padding_h \in Nat
  BY WindowsAssumption DEF padding_w, padding_h
<1>2. MIN_VISIBLE_COLUMNS * FONT_WIDTH \in Nat /\ MIN_VISIBLE_ROWS * FONT_HEIGHT \in Nat
  BY ProductMonotonic, WindowsAssumption
<1>3. QED
  BY <1>1, <1>2 DEF min_frame_width, min_frame_height

\* A window of legal size fits the screen.
LEMMA FrameSize ==
  ASSUME NEW w \in Window
  PROVE  /\ frame_width(w) \in 0 .. ScreenWidth /\ frame_height(w) \in 0 .. ScreenHeight
         /\ FrameOf(w) \in Frame
         /\ w.columns >= MIN_VISIBLE_COLUMNS => frame_width(w) >= min_frame_width
         /\ w.rows >= MIN_VISIBLE_ROWS => frame_height(w) >= min_frame_height
<1>1. w.columns \in 1 .. VGA_WIDTH /\ w.rows \in 1 .. VGA_HEIGHT /\ w.x \in Int /\ w.y \in Int
  BY DEF Window
<1>2. w.columns * FONT_WIDTH <= VGA_WIDTH * FONT_WIDTH /\ w.columns * FONT_WIDTH \in Nat
  BY <1>1, ProductMonotonic, WindowsAssumption
<1>3. w.rows * FONT_HEIGHT <= VGA_HEIGHT * FONT_HEIGHT /\ w.rows * FONT_HEIGHT \in Nat
  BY <1>1, ProductMonotonic, WindowsAssumption
<1>4. w.columns >= MIN_VISIBLE_COLUMNS => MIN_VISIBLE_COLUMNS * FONT_WIDTH <= w.columns * FONT_WIDTH
  BY <1>1, ProductMonotonic, WindowsAssumption
<1>5. w.rows >= MIN_VISIBLE_ROWS => MIN_VISIBLE_ROWS * FONT_HEIGHT <= w.rows * FONT_HEIGHT
  BY <1>1, ProductMonotonic, WindowsAssumption
<1>6. VGA_WIDTH * FONT_WIDTH \in Nat /\ VGA_HEIGHT * FONT_HEIGHT \in Nat
  BY ProductMonotonic, WindowsAssumption
<1>6a. MIN_VISIBLE_COLUMNS * FONT_WIDTH \in Nat /\ MIN_VISIBLE_ROWS * FONT_HEIGHT \in Nat
  BY ProductMonotonic, WindowsAssumption
<1>7. frame_width(w) \in 0 .. ScreenWidth
  BY <1>2, <1>6, Paddings, WindowsAssumption DEF frame_width
<1>8. frame_height(w) \in 0 .. ScreenHeight
  BY <1>3, <1>6, Paddings, WindowsAssumption DEF frame_height
<1>9. FrameOf(w) \in Frame
  BY <1>1, <1>7, <1>8 DEF FrameOf, Frame
<1>10. w.columns >= MIN_VISIBLE_COLUMNS => frame_width(w) >= min_frame_width
  BY <1>2, <1>4, <1>6a, Paddings DEF frame_width, min_frame_width
<1>11. w.rows >= MIN_VISIBLE_ROWS => frame_height(w) >= min_frame_height
  BY <1>3, <1>5, <1>6a, Paddings DEF frame_height, min_frame_height
<1>12. QED
  BY <1>7, <1>8, <1>9, <1>10, <1>11

\* clamp_frame keeps what is not past the near border on the screen.
LEMMA ClampedFits ==
  ASSUME NEW at \in Nat, NEW limit \in Nat, NEW size \in 0 .. limit
  PROVE  /\ ClampedTo(at, size, limit) \in Nat
         /\ ClampedTo(at, size, limit) + size <= limit
         /\ at + size <= limit => ClampedTo(at, size, limit) = at
BY DEF ClampedTo

\* apply_visible_dimensions makes the size legal.
LEMMA DimensionsLegal ==
  ASSUME NEW w \in Window, NEW columns \in Int, NEW rows \in Int
  PROVE  LET d == apply_visible_dimensions(w, columns, rows)
         IN  /\ d \in Window /\ d.in_use = w.in_use /\ d.owner = w.owner
             /\ d.columns = clamp_u32(columns, MIN_VISIBLE_COLUMNS, VGA_WIDTH)
             /\ d.rows = clamp_u32(rows, MIN_VISIBLE_ROWS, VGA_HEIGHT)
             /\ d.columns >= MIN_VISIBLE_COLUMNS /\ d.rows >= MIN_VISIBLE_ROWS
<1> DEFINE d == apply_visible_dimensions(w, columns, rows)
           c == clamp_u32(columns, MIN_VISIBLE_COLUMNS, VGA_WIDTH)
           r == clamp_u32(rows, MIN_VISIBLE_ROWS, VGA_HEIGHT)
<1>1. c \in MIN_VISIBLE_COLUMNS .. VGA_WIDTH /\ r \in MIN_VISIBLE_ROWS .. VGA_HEIGHT
  BY WindowsAssumption DEF clamp_u32, Most, Least
<1>2. c \in 1 .. VGA_WIDTH /\ r \in 1 .. VGA_HEIGHT
      /\ c >= MIN_VISIBLE_COLUMNS /\ r >= MIN_VISIBLE_ROWS
  BY <1>1, WindowsAssumption
<1>3. d = [w EXCEPT !.columns = c, !.rows = r]
  BY DEF apply_visible_dimensions
<1> HIDE DEF c, r, d
<1>4. d \in Window
  BY <1>2, <1>3 DEF Window
<1>5. d.owner = w.owner /\ d.columns = c /\ d.rows = r
  BY <1>3 DEF Window
<1>6. d.in_use = w.in_use
  BY <1>3 DEF Window
<1>7. QED
  BY <1>2, <1>4, <1>5, <1>6 DEF c, r, d

\* A window of legal size that is moved to where the near borders allow.
LEMMA MovedFits ==
  ASSUME NEW w \in Window, NEW x \in Nat, NEW y \in Nat
  PROVE  LET m == MovedTo(w, x, y)
         IN  /\ m \in Window
             /\ m.in_use = w.in_use /\ m.owner = w.owner
             /\ m.columns = w.columns /\ m.rows = w.rows
             /\ m.x = ClampedTo(x, frame_width(w), ScreenWidth)
             /\ m.y = ClampedTo(y, frame_height(w), ScreenHeight)
             /\ w.columns >= MIN_VISIBLE_COLUMNS /\ w.rows >= MIN_VISIBLE_ROWS => Fits(m)
<1> DEFINE m == MovedTo(w, x, y)
           at_x == ClampedTo(x, frame_width(w), ScreenWidth)
           at_y == ClampedTo(y, frame_height(w), ScreenHeight)
<1>1. frame_width(w) \in 0 .. ScreenWidth /\ frame_height(w) \in 0 .. ScreenHeight
  BY FrameSize
<1>2. at_x \in Nat /\ at_x + frame_width(w) <= ScreenWidth
  BY <1>1, ClampedFits, WindowsAssumption
<1>3. at_y \in Nat /\ at_y + frame_height(w) <= ScreenHeight
  BY <1>1, ClampedFits, WindowsAssumption
<1>4. m = [w EXCEPT !.x = at_x, !.y = at_y]
  BY DEF MovedTo
<1> HIDE DEF m, at_x, at_y
<1>5. /\ m \in Window /\ m.in_use = w.in_use /\ m.owner = w.owner
      /\ m.columns = w.columns /\ m.rows = w.rows /\ m.x = at_x /\ m.y = at_y
  <2>1. at_x \in Int /\ at_y \in Int
    BY <1>2, <1>3
  <2>2. m \in Window
    BY <2>1, <1>4 DEF Window
  <2>3. m.owner = w.owner /\ m.columns = w.columns /\ m.rows = w.rows /\ m.x = at_x /\ m.y = at_y
    BY <1>4 DEF Window
  <2>4. m.in_use = w.in_use
    BY <1>4 DEF Window
  <2>5. QED
    BY <2>2, <2>3, <2>4
<1>6. frame_width(m) = frame_width(w) /\ frame_height(m) = frame_height(w)
  BY <1>5 DEF frame_width, frame_height
<1>7. w.columns >= MIN_VISIBLE_COLUMNS /\ w.rows >= MIN_VISIBLE_ROWS => Fits(m)
  BY <1>2, <1>3, <1>5, <1>6 DEF Fits
<1>8. QED
  BY <1>5, <1>7 DEF m, at_x, at_y

-----------------------------------------------------------------------------
(* What drawing changes                                                    *)

\* Everything but the screen.
Same(j, k) ==
    /\ j.win = k.win /\ j.count = k.count /\ j.z = k.z /\ j.active = k.active
    /\ j.drag = k.drag /\ j.resize = k.resize
    /\ j.foreground = k.foreground /\ j.stack = k.stack /\ j.alive = k.alive

\* The pictures that drawing a window elsewhere leaves behind.
Left(k) ==
    {k.picture[s] : s \in {t \in Used(k) : k.picture[t].width # 0 /\ k.picture[t] # FrameOf(k.win[t])}}

\* What draw_windows makes of the screen.
Drawn(j, k) ==
    /\ j.picture = [s \in Slot |-> IF s \in Used(k) THEN FrameOf(k.win[s]) ELSE k.picture[s]]
    /\ j.residue = k.residue \cup Left(k)
    /\ j.on_top = IF k.z = << >> THEN k.on_top ELSE k.active
    /\ j.cursor_drawn = TRUE
    /\ j.ghost = k.ghost

LEMMA BeginRedraw ==
  ASSUME NEW k \in Desk
  PROVE  LET b == begin_window_redraw(k)
         IN  /\ b \in Desk /\ Same(b, k)
             /\ b.picture = k.picture /\ b.residue = k.residue /\ b.on_top = k.on_top
             /\ b.cursor_drawn = FALSE /\ b.ghost = k.ghost
<1> DEFINE b == begin_window_redraw(k)
<1>1. b = [k EXCEPT !.cursor_drawn = FALSE]
  BY DEF begin_window_redraw
<1> HIDE DEF b
<1>2. b \in Desk
  BY <1>1 DEF Desk
<1>3. Same(b, k) /\ b.picture = k.picture /\ b.residue = k.residue /\ b.on_top = k.on_top
  BY <1>1 DEF Desk, Same
<1>4. b.cursor_drawn = FALSE
  BY <1>1 DEF Desk
<1>5. b.ghost = k.ghost
  BY <1>1 DEF Desk
<1>6. QED
  BY <1>2, <1>3, <1>4, <1>5 DEF b

LEMMA EndRedraw ==
  ASSUME NEW k \in Desk
  PROVE  LET b == end_window_redraw(k)
         IN  /\ b \in Desk /\ Same(b, k)
             /\ b.picture = k.picture /\ b.residue = k.residue /\ b.on_top = k.on_top
             /\ b.cursor_drawn = TRUE /\ b.ghost = k.ghost
<1> DEFINE b == end_window_redraw(k)
<1>1. b = [k EXCEPT !.cursor_drawn = TRUE]
  BY DEF end_window_redraw
<1> HIDE DEF b
<1>2. b \in Desk
  BY <1>1 DEF Desk
<1>3. Same(b, k) /\ b.picture = k.picture /\ b.residue = k.residue /\ b.on_top = k.on_top
  BY <1>1 DEF Desk, Same
<1>4. b.cursor_drawn = TRUE
  BY <1>1 DEF Desk
<1>5. b.ghost = k.ghost
  BY <1>1 DEF Desk
<1>6. QED
  BY <1>2, <1>3, <1>4, <1>5 DEF b

LEMMA StartFrameEffect ==
  ASSUME NEW k \in Desk
  PROVE  LET b == StartFrame(k)
         IN  /\ b \in Desk /\ Same(b, k)
             /\ b.picture = k.picture /\ b.residue = k.residue /\ b.on_top = k.on_top
             /\ b.cursor_drawn = k.cursor_drawn
             /\ b.ghost = (k.ghost \/ k.cursor_drawn)
<1> DEFINE b == StartFrame(k)
<1>1. b = [k EXCEPT !.ghost = k.ghost \/ k.cursor_drawn]
  BY DEF StartFrame
<1> HIDE DEF b
<1>2. b \in Desk
  BY <1>1 DEF Desk
<1>3. Same(b, k) /\ b.picture = k.picture /\ b.residue = k.residue /\ b.on_top = k.on_top
  BY <1>1 DEF Desk, Same
<1>4. b.ghost = (k.ghost \/ k.cursor_drawn)
  BY <1>1 DEF Desk
<1>5. b.cursor_drawn = k.cursor_drawn
  BY <1>1 DEF Desk
<1>6. QED
  BY <1>2, <1>3, <1>4, <1>5 DEF b

\* draw_windows draws the windows in use, when the stack is theirs.
LEMMA DrawWindows ==
  ASSUME NEW k \in Desk, Exact(k)
  PROVE  LET j == draw_windows(k)
         IN  j \in Desk /\ Same(j, k) /\ Drawn(j, k)
<1> DEFINE b == begin_window_redraw(k)
           f == StartFrame(b)
           drawn == {s \in ToSet(k.z) : window_slot_valid(k, s)}
           res == {k.picture[s] : s \in {t \in drawn :
                       k.picture[t].width # 0 /\ k.picture[t] # FrameOf(k.win[t])}}
           top == DrawnLast(b)
           d == [f EXCEPT !.residue = @ \cup res,
                          !.picture = [s \in Slot |-> IF s \in drawn THEN FrameOf(k.win[s]) ELSE @[s]],
                          !.on_top = top]
           pic == [s \in Slot |-> IF s \in drawn THEN FrameOf(k.win[s]) ELSE k.picture[s]]
<1>1. drawn = Used(k)
  BY DEF Exact, Used, window_slot_valid
<1>2. /\ b \in Desk /\ Same(b, k) /\ b.picture = k.picture /\ b.residue = k.residue
      /\ b.on_top = k.on_top /\ b.cursor_drawn = FALSE /\ b.ghost = k.ghost
  BY BeginRedraw
<1>2a. /\ b.z = k.z /\ b.win = k.win /\ b.active = k.active /\ b.picture = k.picture
       /\ \A s : window_slot_valid(b, s) = window_slot_valid(k, s)
  <2> HIDE DEF b
  <2>1. b.z = k.z /\ b.win = k.win /\ b.active = k.active /\ b.picture = k.picture
    BY <1>2 DEF Same
  <2>2. QED
    BY <2>1 DEF window_slot_valid
<1>2b. draw_windows(k) = DrawStack(b)
  BY DEF draw_windows
<1>3. CASE k.z = << >>
  <2>1. draw_windows(k) = end_window_redraw(b)
    <3> HIDE DEF b
    <3>1. QED
      BY <1>2a, <1>2b, <1>3 DEF DrawStack
  <2>2. Used(k) = {}
    BY <1>3 DEF Exact, ToSet
  <2>3. pic = k.picture
    BY <1>1, <2>2 DEF Desk
  <2>4. Left(k) = {}
    BY <2>2 DEF Left
  <2> HIDE DEF b, pic, drawn
  <2>5. draw_windows(k) \in Desk /\ Same(draw_windows(k), b)
        /\ draw_windows(k).picture = k.picture /\ draw_windows(k).residue = k.residue
        /\ draw_windows(k).on_top = k.on_top
    BY <1>2, <2>1, EndRedraw
  <2>6. draw_windows(k).cursor_drawn = TRUE /\ draw_windows(k).ghost = k.ghost
    BY <1>2, <2>1, EndRedraw
  <2>7. Same(draw_windows(k), k)
    BY <1>2, <2>5 DEF Same
  <2>8. Drawn(draw_windows(k), k)
    BY <1>1, <1>3, <2>3, <2>4, <2>5, <2>6 DEF Drawn, pic
  <2>9. QED
    BY <2>5, <2>7, <2>8
<1>4. CASE k.z # << >>
  <2>1. draw_windows(k) = end_window_redraw(d)
    <3> DEFINE db == {s \in ToSet(b.z) : window_slot_valid(b, s)}
               rb == {b.picture[s] : s \in {t \in db :
                          b.picture[t].width # 0 /\ b.picture[t] # FrameOf(b.win[t])}}
    <3>1. draw_windows(k)
            = end_window_redraw([f EXCEPT !.residue = @ \cup rb,
                  !.picture = [s \in Slot |-> IF s \in db THEN FrameOf(b.win[s]) ELSE @[s]],
                  !.on_top = top])
      <4> HIDE DEF b, top
      <4>1. QED
        BY <1>2a, <1>2b, <1>4 DEF DrawStack, top
    <3>2. db = drawn /\ b.win = k.win
      <4> HIDE DEF b
      <4>1. QED
        BY <1>2a
    <3>3. rb = res
      <4> HIDE DEF b, db, drawn
      <4>1. QED
        BY <1>2a, <3>2
    <3> HIDE DEF b, top, f, db, drawn, rb, res
    <3>4. QED
      BY <3>1, <3>2, <3>3
  <2>2. /\ f \in Desk /\ Same(f, b) /\ f.picture = k.picture /\ f.residue = k.residue
        /\ f.ghost = k.ghost
    <3> HIDE DEF b
    <3>1. /\ f \in Desk /\ Same(f, b) /\ f.picture = k.picture /\ f.residue = k.residue
      BY <1>2, StartFrameEffect
    <3>2. f.ghost = (b.ghost \/ b.cursor_drawn)
      BY <1>2, StartFrameEffect
    <3>3. b.ghost \in BOOLEAN
      BY <1>2 DEF Desk
    <3>4. QED
      BY <1>2, <3>1, <3>2, <3>3
  <2>3. top = k.active /\ top \in Slot \cup {INVALID_SLOT}
    <3>1. Len(k.z) \in 1 .. Len(k.z) /\ Last(k.z) = k.z[Len(k.z)]
      BY <1>4 DEF Desk, Last
    <3>2. Last(k.z) \in ToSet(k.z) /\ k.active = Last(k.z)
      BY <1>4, <3>1 DEF ToSet, Exact, Top, Desk
    <3>3. window_slot_valid(k, k.active)
      BY <3>2 DEF Exact, Used, window_slot_valid
    <3>4. top = k.active
      <4> HIDE DEF b
      <4>1. QED
        BY <1>2a, <3>3 DEF DrawnLast
    <3>5. QED
      BY <3>2, <3>4 DEF Exact, Used
  <2>4. res \subseteq Frame /\ res = Left(k)
    BY <1>1 DEF Desk, Used, Left
  <2>5. pic \in [Slot -> Frame]
    <3>1. \A s \in Slot : FrameOf(k.win[s]) \in Frame /\ k.picture[s] \in Frame
      BY FrameSize DEF Desk
    <3>2. QED
      BY <3>1
  <2>6. d = [f EXCEPT !.residue = k.residue \cup res, !.picture = pic, !.on_top = k.active]
    BY <2>2, <2>3 DEF Desk
  <2>7. k.residue \cup res \in SUBSET Frame /\ k.active \in Slot \cup {INVALID_SLOT}
    BY <2>4 DEF Desk
  <2> HIDE DEF f, d, res, pic, top, drawn, b
  <2>8. d \in Desk
    BY <2>2, <2>5, <2>6, <2>7 DEF Desk
  <2>9. Same(d, f) /\ d.residue = k.residue \cup res /\ d.picture = pic /\ d.on_top = k.active
    BY <2>2, <2>6 DEF Desk, Same
  <2>10. d.ghost = k.ghost
    BY <2>2, <2>6 DEF Desk
  <2>11. /\ draw_windows(k) \in Desk /\ Same(draw_windows(k), d)
         /\ draw_windows(k).picture = pic /\ draw_windows(k).residue = k.residue \cup res
         /\ draw_windows(k).on_top = k.active
    BY <2>1, <2>8, <2>9, EndRedraw
  <2>12. draw_windows(k).cursor_drawn = TRUE /\ draw_windows(k).ghost = k.ghost
    BY <2>1, <2>8, <2>10, EndRedraw
  <2>13. Same(draw_windows(k), k)
    BY <1>2, <2>2, <2>9, <2>11 DEF Same
  <2>14. Drawn(draw_windows(k), k)
    BY <1>1, <1>4, <2>4, <2>11, <2>12 DEF Drawn, pic
  <2>15. QED
    BY <2>11, <2>13, <2>14
<1>5. QED
  BY <1>3, <1>4

\* What depends on the windows, the grabs and the foreground alone.
LEMMA SameMeans ==
  ASSUME NEW j, NEW k, Same(j, k)
  PROVE  /\ Used(j) = Used(k) /\ Owners(j) = Owners(k)
         /\ Exact(k) => Exact(j)
         /\ AllFit(k) => AllFit(j)
         /\ Held(k) => Held(j)
         /\ Agrees(k) => Agrees(j)
         /\ \A x, y : Settled(k, x, y) => Settled(j, x, y)
<1>1. Used(j) = Used(k)
  BY DEF Same, Used
<1>2. Owners(j) = Owners(k)
  BY <1>1 DEF Same, Owners
<1>3. Exact(k) => Exact(j)
  BY <1>1 DEF Same, Exact
<1>4. (AllFit(k) => AllFit(j)) /\ (Held(k) => Held(j)) /\ (Agrees(k) => Agrees(j))
  BY <1>1 DEF Same, AllFit, Held, Agrees
<1>5. \A x, y : Settled(k, x, y) => Settled(j, x, y)
  BY DEF Same, Settled, DragResult, ResizeResult
<1>6. QED
  BY <1>1, <1>2, <1>3, <1>4, <1>5

LEMMA SameGood ==
  ASSUME NEW j \in Desk, NEW k, Good(k), Same(j, k)
  PROVE  Good(j)
BY SameMeans DEF Good, Same

\* draw_workspace shows what there is, whatever was on the screen before.
LEMMA DrawWorkspace ==
  ASSUME NEW k \in Desk, Exact(k)
  PROVE  LET j == draw_workspace(k)
         IN  j \in Desk /\ Same(j, k) /\ Shown(j) /\ j.ghost = FALSE /\ j.cursor_drawn = TRUE
<1> DEFINE b == begin_window_redraw(k)
           c == [b EXCEPT !.residue = {}, !.ghost = FALSE, !.on_top = INVALID_SLOT,
                          !.picture = [s \in Slot |-> Blank]]
           d == draw_windows(c)
           j == draw_workspace(k)
<1>1. b \in Desk /\ Same(b, k)
  BY BeginRedraw
<1>2. [s \in Slot |-> Blank] \in [Slot -> Frame]
  BY DEF Blank, Frame
<1> HIDE DEF b
<1>3. c \in Desk
  BY <1>1, <1>2 DEF Desk
<1>4. Same(c, b) /\ c.residue = {} /\ c.on_top = INVALID_SLOT /\ c.picture = [s \in Slot |-> Blank]
  BY <1>1 DEF Desk, Same
<1>5. c.ghost = FALSE
  BY <1>1 DEF Desk
<1>6. j = end_window_redraw(d)
  BY DEF draw_workspace, b
<1> HIDE DEF c, j
<1>7. Same(c, k)
  BY <1>1, <1>4 DEF Same
<1>8. Exact(c) /\ Used(c) = Used(k)
  BY <1>7, SameMeans
<1>9. d \in Desk /\ Same(d, c) /\ Drawn(d, c)
  BY <1>3, <1>8, DrawWindows
<1> HIDE DEF d
<1>10. /\ j \in Desk /\ Same(j, d)
       /\ j.picture = d.picture /\ j.residue = d.residue /\ j.on_top = d.on_top
  BY <1>6, <1>9, EndRedraw
<1>11. j.cursor_drawn = TRUE /\ j.ghost = FALSE
  BY <1>5, <1>6, <1>9, EndRedraw DEF Drawn
<1>12. Same(j, k) /\ Used(j) = Used(k)
  <2>1. Same(j, k)
    BY <1>7, <1>9, <1>10 DEF Same
  <2>2. QED
    BY <2>1, SameMeans
<1>13. j.residue = {}
  <2>1. Left(c) = {}
    BY <1>4 DEF Left, Used, Blank
  <2>2. QED
    BY <1>4, <1>9, <1>10, <2>1 DEF Drawn
<1>14. j.on_top = j.active
  BY <1>4, <1>7, <1>9, <1>10, <1>12 DEF Drawn, Same, Exact, Top
<1>15. \A s \in Slot : j.picture[s] = IF s \in Used(j) THEN FrameOf(j.win[s]) ELSE Blank
  BY <1>4, <1>7, <1>8, <1>9, <1>10, <1>12 DEF Drawn, Same
<1>16. QED
  BY <1>10, <1>11, <1>12, <1>13, <1>14, <1>15 DEF Shown, j

-----------------------------------------------------------------------------
(* The stack, and bringing a window to the front                           *)

\* A screen on which drawing the windows leaves nothing wrong.
Ready(k) ==
    /\ \A s \in Used(k) : k.picture[s] = FrameOf(k.win[s]) \/ k.picture[s].width = 0
    /\ \A s \in Slot \ Used(k) : k.picture[s] = Blank
    /\ k.residue = {}
    /\ k.z = << >> => k.on_top = k.active

LEMMA DrawnIsShown ==
  ASSUME NEW k \in Desk, NEW j, Ready(k), Same(j, k), Drawn(j, k)
  PROVE  Shown(j)
<1>1. Used(j) = Used(k)
  BY SameMeans
<1>2. j.residue = {}
  BY DEF Drawn, Ready, Left
<1>3. j.on_top = j.active
  BY DEF Drawn, Ready, Same
<1>4. \A s \in Slot : j.picture[s] = IF s \in Used(j) THEN FrameOf(j.win[s]) ELSE Blank
  BY <1>1 DEF Drawn, Ready, Same
<1>5. QED
  BY <1>2, <1>3, <1>4 DEF Shown

LEMMA ShownIsReady ==
  ASSUME NEW k, Shown(k)
  PROVE  Ready(k)
BY DEF Shown, Ready, Used

LEMMA StackPosition ==
  ASSUME NEW k \in Desk, NEW slot
  PROVE  /\ slot \in ToSet(k.z) => /\ find_stack_position(k, slot) \in 1 .. Len(k.z)
                                   /\ k.z[find_stack_position(k, slot)] = slot
         /\ slot \notin ToSet(k.z) => find_stack_position(k, slot) = 0
<1> DEFINE at == {i \in DOMAIN k.z : k.z[i] = slot}
<1>1. k.z \in Seq(Slot) /\ at \subseteq 1 .. Len(k.z) /\ at \in SUBSET Nat
  BY DEF Desk
<1>2. CASE slot \notin ToSet(k.z)
  BY <1>1, <1>2 DEF find_stack_position, ToSet
<1>3. CASE slot \in ToSet(k.z)
  <2>1. at # {}
    BY <1>3 DEF ToSet
  <2>2. \E i \in at : \A j \in at : i <= j
    BY <1>1, <2>1, LeastExists
  <2>3. find_stack_position(k, slot) = CHOOSE i \in at : \A j \in at : i <= j
    BY <2>1 DEF find_stack_position
  <2>4. find_stack_position(k, slot) \in at
    BY <2>2, <2>3
  <2>5. QED
    BY <1>1, <1>3, <2>4
<1>4. QED
  BY <1>2, <1>3

LEMMA UsedIsFinite ==
  ASSUME NEW k
  PROVE  IsFiniteSet(Used(k)) /\ Cardinality(Used(k)) \in Nat /\ Cardinality(Used(k)) <= MAX_WINDOWS
<1>1. IsFiniteSet(Slot) /\ Cardinality(Slot) = MAX_WINDOWS
  BY FS_Interval, WindowsAssumption DEF Slot
<1>2. Used(k) \in SUBSET Slot
  BY DEF Used
<1>3. QED
  BY <1>1, <1>2, FS_Subset, FS_CardinalityType

\* As Exact, but the window in slot may not be in the stack yet.
Opening(k, slot) ==
    /\ slot \in Used(k)
    /\ ToSet(k.z) \cup {slot} = Used(k) /\ IsInjective(k.z)
    /\ k.count = Cardinality(Used(k))
    /\ Len(k.z) = IF slot \in ToSet(k.z) THEN k.count ELSE k.count - 1
    /\ \A s, t \in Used(k) : k.win[s].owner = k.win[t].owner => s = t
    /\ k.active = Top(k.z)

LEMMA PushSlot ==
  ASSUME NEW k \in Desk, NEW slot, Opening(k, slot)
  PROVE  LET z == push_slot_to_top(k, slot).z
         IN  /\ z \in Seq(Slot) /\ z # << >> /\ Last(z) = slot
             /\ ToSet(z) = Used(k) /\ IsInjective(z)
             /\ Len(z) = k.count
             /\ push_slot_to_top(k, slot) = [k EXCEPT !.z = z]
<1> DEFINE i == find_stack_position(k, slot)
           rest == IF i = 0 THEN k.z ELSE RemoveAt(k.z, i)
           z == Append(rest, slot)
<1>1. slot \in Slot /\ k.z \in Seq(Slot) /\ k.count \in 0 .. MAX_WINDOWS
  BY DEF Opening, Used, Desk
<1>2. /\ rest \in Seq(Slot) /\ Len(rest) = k.count - 1
      /\ ToSet(rest) = Used(k) \ {slot} /\ IsInjective(rest)
  <2>1. CASE slot \in ToSet(k.z)
    <3>1. i \in 1 .. Len(k.z) /\ k.z[i] = slot /\ rest = RemoveAt(k.z, i)
      BY <2>1, StackPosition
    <3> HIDE DEF i
    <3>2. RemoveAt(k.z, i) \in Seq(Slot) /\ Len(RemoveAt(k.z, i)) = Len(k.z) - 1
      BY <1>1, <3>1, RemoveAtElements
    <3>3. ToSet(RemoveAt(k.z, i)) = ToSet(k.z) \ {slot} /\ IsInjective(RemoveAt(k.z, i))
      BY <1>1, <3>1, RemoveAtSet DEF Opening
    <3>4. ToSet(k.z) = Used(k) /\ Len(k.z) = k.count
      BY <2>1 DEF Opening
    <3> HIDE DEF rest
    <3>5. QED
      BY <3>1, <3>2, <3>3, <3>4
  <2>2. CASE slot \notin ToSet(k.z)
    <3>1. i = 0 /\ rest = k.z
      BY <2>2, StackPosition
    <3> HIDE DEF i, rest
    <3>2. QED
      BY <1>1, <2>2, <3>1 DEF Opening
  <2>3. QED
    BY <2>1, <2>2
<1>3. ~(slot \notin Slot \/ (i = 0 /\ Len(k.z) >= MAX_WINDOWS))
  <2>1. i = 0 => Len(k.z) = k.count - 1
    BY <1>2
  <2> HIDE DEF i
  <2>2. QED
    BY <1>1, <2>1, WindowsAssumption
<1>4. push_slot_to_top(k, slot) = [k EXCEPT !.z = z]
  BY <1>3 DEF push_slot_to_top
<1> HIDE DEF rest, i
<1>5. slot \notin ToSet(rest)
  BY <1>2
<1>6. ToSet(z) = Used(k) /\ IsInjective(z)
  <2>1. ToSet(z) = ToSet(rest) \cup {slot} /\ IsInjective(z)
    BY <1>1, <1>2, <1>5, AppendSet
  <2>2. slot \in Used(k)
    BY DEF Opening
  <2> HIDE DEF z
  <2>3. QED
    BY <1>2, <2>1, <2>2
<1>7. z \in Seq(Slot) /\ Len(z) = k.count /\ z # << >> /\ Last(z) = slot
  BY <1>1, <1>2 DEF Last
<1> HIDE DEF z
<1>8. push_slot_to_top(k, slot).z = z
  BY <1>4 DEF Desk
<1>9. QED
  BY <1>4, <1>6, <1>7, <1>8

\* focus_window brings a window that exists to the top and makes it active.
LEMMA FocusWindow ==
  ASSUME NEW k \in Desk, NEW slot, Opening(k, slot)
  PROVE  LET j == focus_window(k, slot)
         IN  /\ j \in Desk /\ Exact(j) /\ j.active = slot /\ Last(j.z) = slot
             /\ j.win = k.win /\ j.count = k.count /\ j.drag = k.drag /\ j.resize = k.resize
             /\ j.foreground = k.foreground /\ j.stack = k.stack /\ j.alive = k.alive
             /\ j.ghost = k.ghost /\ (k.cursor_drawn => j.cursor_drawn)
             /\ k.active # slot /\ Ready(k) => Shown(j)
             /\ k.active = slot /\ Shown(k) => Shown(j)
<1> DEFINE p == push_slot_to_top(k, slot)
           z == p.z
           f == [p EXCEPT !.active = slot]
           j == focus_window(k, slot)
<1>1. /\ z \in Seq(Slot) /\ z # << >> /\ Last(z) = slot
      /\ ToSet(z) = Used(k) /\ IsInjective(z) /\ Len(z) = k.count
      /\ p = [k EXCEPT !.z = z]
  BY PushSlot
<1>2. slot \in Slot /\ window_slot_valid(k, slot)
  BY DEF Opening, Used, window_slot_valid
<1>3. j = IF k.active # slot THEN draw_windows(f) ELSE f
  BY <1>2 DEF focus_window
<1> HIDE DEF z, p, j
<1>4. f \in Desk
  BY <1>1, <1>2 DEF Desk
<1>5. /\ f.z = z /\ f.active = slot /\ f.win = k.win /\ f.count = k.count /\ f.drag = k.drag
      /\ f.resize = k.resize /\ f.foreground = k.foreground /\ f.stack = k.stack
      /\ f.alive = k.alive /\ f.picture = k.picture /\ f.residue = k.residue /\ f.on_top = k.on_top
  BY <1>1, <1>2 DEF Desk
<1>6. f.ghost = k.ghost
  BY <1>1, <1>2 DEF Desk
<1>7. f.cursor_drawn = k.cursor_drawn
  BY <1>1, <1>2 DEF Desk
<1> HIDE DEF f
<1>8. Used(f) = Used(k)
  BY <1>5 DEF Used
<1>9. Exact(f)
  BY <1>1, <1>5, <1>8 DEF Exact, Opening, Top
<1>10. CASE k.active # slot
  <2>1. j \in Desk /\ Same(j, f) /\ Drawn(j, f)
    BY <1>3, <1>4, <1>9, <1>10, DrawWindows
  <2>2. Exact(j)
    BY <1>9, <2>1, SameMeans
  <2>3. Ready(k) => Ready(f)
    BY <1>1, <1>5, <1>8 DEF Ready
  <2>4. Ready(k) => Shown(j)
    BY <1>4, <2>1, <2>3, DrawnIsShown
  <2>5. j.ghost = k.ghost /\ j.cursor_drawn
    BY <1>6, <2>1 DEF Drawn
  <2>6. QED
    BY <1>1, <1>5, <1>10, <2>1, <2>2, <2>4, <2>5 DEF Same, j
<1>11. CASE k.active = slot
  <2>1. j = f
    BY <1>3, <1>11
  <2>2. Shown(k) => Shown(f)
    BY <1>5, <1>8, <1>11 DEF Shown
  <2>3. QED
    BY <1>1, <1>4, <1>5, <1>6, <1>7, <1>9, <1>11, <2>1, <2>2 DEF j
<1>12. QED
  BY <1>10, <1>11

\* Everything but the order of the windows and the pictures.
SameButOrder(j, k) ==
    /\ j.win = k.win /\ j.count = k.count /\ j.drag = k.drag /\ j.resize = k.resize
    /\ j.foreground = k.foreground /\ j.stack = k.stack /\ j.alive = k.alive /\ j.ghost = k.ghost

LEMMA ReorderedMeans ==
  ASSUME NEW j \in Desk, NEW k, Good(k), Exact(j), SameButOrder(j, k)
  PROVE  /\ Good(j) /\ Used(j) = Used(k) /\ Owners(j) = Owners(k)
         /\ \A x, y : Settled(k, x, y) => Settled(j, x, y)
<1>1. Used(j) = Used(k)
  BY DEF SameButOrder, Used
<1>2. Owners(j) = Owners(k)
  BY <1>1 DEF SameButOrder, Owners
<1>3. Good(j)
  BY <1>1 DEF Good, SameButOrder, AllFit, Held
<1>4. \A x, y : Settled(k, x, y) => Settled(j, x, y)
  BY DEF SameButOrder, Settled, DragResult, ResizeResult
<1>5. QED
  BY <1>1, <1>2, <1>3, <1>4

\* find_window_index finds the window of a process if it has one.
LEMMA FindWindow ==
  ASSUME NEW k, NEW p
  PROVE  LET slot == find_window_index(k, p)
         IN  /\ p \notin Owners(k) => slot = INVALID_SLOT
             /\ p \in Owners(k) => slot \in Used(k) /\ k.win[slot].owner = p /\ slot # INVALID_SLOT
             /\ Exact(k) => \A s \in Used(k) : k.win[s].owner = p => slot = s
<1> DEFINE own == {s \in Slot : k.win[s].in_use /\ k.win[s].owner = p}
           slot == find_window_index(k, p)
<1>1. own \in SUBSET Nat /\ own \subseteq Used(k)
  BY WindowsAssumption DEF Slot, Used
<1>2. own = {} <=> p \notin Owners(k)
  BY DEF Owners, Used
<1>3. CASE own = {}
  BY <1>2, <1>3 DEF find_window_index, Used
<1>4. CASE own # {}
  <2>1. \E i \in own : \A j \in own : i <= j
    BY <1>1, <1>4, LeastExists
  <2>2. slot = CHOOSE i \in own : \A j \in own : i <= j
    BY <1>4 DEF find_window_index
  <2>3. slot \in own
    BY <2>1, <2>2
  <2> HIDE DEF slot
  <2>4. slot \in Used(k) /\ k.win[slot].owner = p /\ slot # INVALID_SLOT
    BY <1>1, <2>3, WindowsAssumption DEF INVALID_SLOT
  <2>5. Exact(k) => \A s \in Used(k) : k.win[s].owner = p => slot = s
    BY <2>4 DEF Exact
  <2>6. QED
    BY <1>2, <1>4, <2>4, <2>5 DEF slot
<1>5. QED
  BY <1>3, <1>4

\* terminal_windows::activate_process: the window of p, if it has one, is the
\* active one afterwards.
LEMMA ActivateProcess ==
  ASSUME NEW k, Good(k), NEW p
  PROVE  LET j == activate_process(k, p)
         IN  /\ Good(j) /\ SameButOrder(j, k) /\ (k.cursor_drawn => j.cursor_drawn)
             /\ \A s \in Used(j) : j.win[s].owner = p => j.active = s /\ Last(j.z) = s
             /\ Shown(k) => Shown(j)
             /\ p \notin Owners(k) => j = k
<1> DEFINE slot == find_window_index(k, p)
           j == activate_process(k, p)
<1>1. k \in Desk /\ Exact(k)
  BY DEF Good
<1>2. j = focus_window(k, slot)
  BY DEF activate_process
<1>3. CASE p \notin Owners(k)
  <2>1. slot = INVALID_SLOT
    BY <1>3, FindWindow
  <2>2. ~window_slot_valid(k, slot)
    BY <2>1, WindowsAssumption DEF window_slot_valid, INVALID_SLOT, Slot
  <2>3. j = k
    BY <1>2, <2>2 DEF focus_window
  <2> HIDE DEF j
  <2>4. QED
    BY <1>3, <2>3 DEF SameButOrder, Owners, j
<1>4. CASE p \in Owners(k)
  <2>1. slot \in Used(k) /\ \A s \in Used(k) : k.win[s].owner = p => slot = s
    BY <1>1, <1>4, FindWindow
  <2> HIDE DEF slot
  <2>2. Opening(k, slot)
    BY <1>1, <2>1 DEF Exact, Opening
  <2>3. /\ j \in Desk /\ Exact(j) /\ j.active = slot /\ Last(j.z) = slot /\ SameButOrder(j, k)
    BY <1>1, <1>2, <2>2, FocusWindow DEF SameButOrder
  <2>4. (Shown(k) => Shown(j)) /\ (k.cursor_drawn => j.cursor_drawn)
    BY <1>1, <1>2, <2>2, FocusWindow, ShownIsReady
  <2> HIDE DEF j
  <2>5. Good(j) /\ Used(j) = Used(k)
    BY <2>3, ReorderedMeans
  <2>6. \A s \in Used(j) : j.win[s].owner = p => j.active = s /\ Last(j.z) = s
    BY <2>1, <2>3, <2>5 DEF SameButOrder
  <2>7. QED
    BY <1>4, <2>3, <2>4, <2>5, <2>6 DEF j
<1>5. QED
  BY <1>3, <1>4

-----------------------------------------------------------------------------
(* Closing and opening windows                                             *)

LEMMA SlotValid ==
  ASSUME NEW k, NEW slot
  PROVE  window_slot_valid(k, slot) <=> slot \in Used(k)
BY DEF window_slot_valid, Used

LEMMA RemoveSlot ==
  ASSUME NEW k \in Desk, Exact(k), NEW slot \in Used(k)
  PROVE  LET z == remove_slot_from_stack(k, slot).z
         IN  /\ remove_slot_from_stack(k, slot) = [k EXCEPT !.z = z]
             /\ z \in Seq(Slot) /\ Len(z) = k.count - 1
             /\ ToSet(z) = Used(k) \ {slot} /\ IsInjective(z)
             /\ k.active # slot => Top(z) = k.active
<1> DEFINE i == find_stack_position(k, slot)
           z == RemoveAt(k.z, i)
<1>1. slot \in ToSet(k.z) /\ k.z \in Seq(Slot) /\ IsInjective(k.z)
  BY DEF Exact, Desk
<1>2. i \in 1 .. Len(k.z) /\ k.z[i] = slot
  BY <1>1, StackPosition
<1>3. remove_slot_from_stack(k, slot) = [k EXCEPT !.z = z]
  BY <1>2 DEF remove_slot_from_stack
<1> HIDE DEF i
<1>4. /\ z \in Seq(Slot) /\ Len(z) = Len(k.z) - 1
      /\ \A j \in 1 .. Len(k.z) - 1 : z[j] = k.z[IF j < i THEN j ELSE j + 1]
  BY <1>1, <1>2, RemoveAtElements
<1>5. ToSet(z) = ToSet(k.z) \ {slot} /\ IsInjective(z)
  BY <1>1, <1>2, RemoveAtSet
<1> HIDE DEF z
<1>6. ASSUME k.active # slot
      PROVE  Top(z) = k.active
  <2>1. k.z # << >> /\ k.active = k.z[Len(k.z)]
    BY <1>1, <1>2 DEF Exact, Top, Last
  <2>2. i < Len(k.z)
    BY <1>1, <1>2, <1>6, <2>1
  <2>3. Len(z) \in 1 .. Len(k.z) - 1 /\ z[Len(z)] = k.z[Len(k.z)]
    BY <1>1, <1>2, <1>4, <2>2
  <2>4. z # << >>
    BY <1>4, <2>3
  <2>5. QED
    BY <2>1, <2>3, <2>4 DEF Top, Last
<1>7. remove_slot_from_stack(k, slot).z = z
  BY <1>3 DEF Desk
<1>8. QED
  BY <1>3, <1>4, <1>5, <1>6, <1>7 DEF Exact

\* close_window_slot: the window, its place in the stack and the mouse's grab of
\* it go together, and the screen is drawn anew.
LEMMA CloseWindow ==
  ASSUME NEW k, Good(k), NEW slot \in Used(k)
  PROVE  LET j == close_window_slot(k, slot)
         IN  /\ Good(j) /\ Shown(j) /\ j.ghost = FALSE /\ j.cursor_drawn = TRUE
             /\ Used(j) = Used(k) \ {slot} /\ \A s \in Used(j) : j.win[s] = k.win[s]
             /\ j.foreground = k.foreground /\ j.stack = k.stack /\ j.alive = k.alive
             /\ j.drag \in {k.drag, NoGrab} /\ j.resize \in {k.resize, NoResize}
             /\ k.active # slot => j.active = k.active
<1> DEFINE a == IF k.drag.on /\ k.drag.slot = slot THEN stop_dragging(k) ELSE k
           b == IF k.resize.on /\ k.resize.slot = slot THEN stop_resizing(a) ELSE a
           r == remove_slot_from_stack(b, slot)
           l == release_window_slot(r, slot)
           m == [l EXCEPT !.active = Top(l.z)]
           j == close_window_slot(k, slot)
<1>1. k \in Desk /\ Exact(k) /\ AllFit(k) /\ Held(k) /\ slot \in Slot /\ Len(k.stack) <= MAX_PROCESSES
  BY DEF Good, Used
<1>2. j = draw_workspace(m)
  BY SlotValid DEF close_window_slot, Top
<1> HIDE DEF j
<1>3. NoGrab \in [on : BOOLEAN, slot : Slot \cup {INVALID_SLOT}, dx : Int, dy : Int]
  BY DEF NoGrab
<1>4. NoResize \in [on : BOOLEAN, slot : Slot \cup {INVALID_SLOT}, edges : SUBSET Edge,
                    cursor_x : Int, cursor_y : Int, frame : Frame]
  BY DEF NoResize, Blank, Frame
<1>5. /\ a \in Desk /\ a.drag = IF k.drag.on /\ k.drag.slot = slot THEN NoGrab ELSE k.drag
      /\ a.win = k.win /\ a.count = k.count /\ a.z = k.z /\ a.active = k.active
      /\ a.resize = k.resize
      /\ a.foreground = k.foreground /\ a.stack = k.stack /\ a.alive = k.alive
  BY <1>1, <1>3 DEF Desk, stop_dragging
<1> HIDE DEF a
<1>6. /\ b \in Desk /\ b.resize = IF k.resize.on /\ k.resize.slot = slot THEN NoResize ELSE k.resize
      /\ b.win = k.win /\ b.count = k.count /\ b.z = k.z /\ b.active = k.active
      /\ b.drag = a.drag
      /\ b.foreground = k.foreground /\ b.stack = k.stack /\ b.alive = k.alive
  BY <1>4, <1>5 DEF Desk, stop_resizing
<1> HIDE DEF b
<1>7. Used(b) = Used(k) /\ Exact(b)
  BY <1>1, <1>6 DEF Used, Exact
<1>8. /\ r = [b EXCEPT !.z = r.z]
      /\ r.z \in Seq(Slot) /\ Len(r.z) = k.count - 1
      /\ ToSet(r.z) = Used(k) \ {slot} /\ IsInjective(r.z)
      /\ k.active # slot => Top(r.z) = k.active
  BY <1>6, <1>7, RemoveSlot
<1>9. /\ r \in Desk /\ r.win = k.win /\ r.count = k.count /\ r.resize = b.resize /\ r.drag = b.drag
      /\ r.foreground = k.foreground /\ r.stack = k.stack /\ r.alive = k.alive
  <2> HIDE DEF r
  <2>1. QED
    BY <1>6, <1>8 DEF Desk
<1>10. k.count = Cardinality(Used(k)) /\ k.count \in 1 .. MAX_WINDOWS
       /\ Cardinality(Used(k) \ {slot}) = k.count - 1
  <2>1. IsFiniteSet(Used(k)) /\ Cardinality(Used(k)) \in Nat /\ Used(k) # {}
    BY UsedIsFinite
  <2>2. Cardinality(Used(k)) # 0
    BY <2>1, FS_EmptySet
  <2>3. Cardinality(Used(k) \ {slot}) = Cardinality(Used(k)) - 1
    BY <2>1, FS_RemoveElement
  <2>4. k.count = Cardinality(Used(k)) /\ k.count \in 0 .. MAX_WINDOWS
    BY <1>1 DEF Exact, Desk
  <2>5. QED
    BY <2>1, <2>2, <2>3, <2>4
<1> HIDE DEF r
<1>11. l = [r EXCEPT !.win = [k.win EXCEPT ![slot] = FreeWindow], !.count = k.count - 1]
  <2>1. r.count > 0 /\ r.count = k.count /\ r.win = k.win
    BY <1>9, <1>10
  <2>2. l = [r EXCEPT !.win = [r.win EXCEPT ![slot] = FreeWindow],
                      !.count = IF r.count > 0 THEN r.count - 1 ELSE r.count]
    BY DEF release_window_slot
  <2> HIDE DEF l
  <2>3. QED
    BY <2>1, <2>2
<1>12. [k.win EXCEPT ![slot] = FreeWindow] \in [Slot -> Window] /\ k.count - 1 \in 0 .. MAX_WINDOWS
  <2>1. FreeWindow \in Window
    BY WindowsAssumption DEF FreeWindow, Window
  <2>2. k.win \in [Slot -> Window]
    BY <1>1 DEF Desk
  <2>3. [k.win EXCEPT ![slot] = FreeWindow] \in [Slot -> Window]
    BY <1>1, <2>1, <2>2
  <2>4. k.count - 1 \in 0 .. MAX_WINDOWS
    BY <1>10, WindowsAssumption
  <2>5. QED
    BY <2>3, <2>4
<1>13. /\ l \in Desk /\ l.win = [k.win EXCEPT ![slot] = FreeWindow] /\ l.count = k.count - 1
       /\ l.z = r.z /\ l.drag = b.drag /\ l.resize = b.resize
       /\ l.foreground = k.foreground /\ l.stack = k.stack /\ l.alive = k.alive
  <2> HIDE DEF l
  <2>1. QED
    BY <1>9, <1>11, <1>12 DEF Desk
<1> HIDE DEF l
<1>14. Top(l.z) \in Slot \cup {INVALID_SLOT}
  BY <1>8, <1>13 DEF Top, Last
<1>15. /\ m \in Desk /\ m.win = [k.win EXCEPT ![slot] = FreeWindow] /\ m.count = k.count - 1
       /\ m.z = r.z /\ m.drag = b.drag /\ m.resize = b.resize /\ m.active = Top(r.z)
       /\ m.foreground = k.foreground /\ m.stack = k.stack /\ m.alive = k.alive
  BY <1>13, <1>14 DEF Desk
<1> HIDE DEF m
<1>16. Used(m) = Used(k) \ {slot} /\ \A s \in Used(m) : m.win[s] = k.win[s]
  <2>1. \A s \in Slot \ {slot} : m.win[s] = k.win[s]
    BY <1>1, <1>15 DEF Desk
  <2>2. m.win[slot].in_use = FALSE
    BY <1>1, <1>15 DEF Desk, FreeWindow
  <2>3. QED
    BY <2>1, <2>2 DEF Used
<1>17. Exact(m)
  BY <1>1, <1>8, <1>10, <1>15, <1>16 DEF Exact
<1>18. AllFit(m)
  BY <1>1, <1>16 DEF AllFit
<1>19. m.drag \in {k.drag, NoGrab} /\ m.resize \in {k.resize, NoResize}
  BY <1>5, <1>6, <1>15
<1>20. Held(m)
  <2>1. m.drag.on => m.drag = k.drag /\ k.drag.slot # slot
    BY <1>5, <1>6, <1>15 DEF NoGrab
  <2>2. m.resize.on => m.resize = k.resize /\ k.resize.slot # slot
    BY <1>5, <1>6, <1>15 DEF NoResize
  <2>3. QED
    BY <1>1, <1>16, <2>1, <2>2 DEF Held
<1>21. Good(m)
  BY <1>1, <1>15, <1>17, <1>18, <1>20 DEF Good
<1>22. j \in Desk /\ Same(j, m) /\ Shown(j) /\ j.ghost = FALSE /\ j.cursor_drawn = TRUE
  BY <1>2, <1>15, <1>17, DrawWorkspace
<1>23. Good(j) /\ Used(j) = Used(m)
  BY <1>21, <1>22, SameGood, SameMeans
<1>24. QED
  BY <1>8, <1>15, <1>16, <1>19, <1>22, <1>23 DEF Same, j

\* A held window that does not change stays where the mouse put it.
LEMMA SettledKept ==
  ASSUME NEW j, NEW k, Held(j), Held(k), NEW x, NEW y, Settled(k, x, y),
         j.drag \in {k.drag, NoGrab}, j.resize \in {k.resize, NoResize},
         \A s \in Used(j) \cap Used(k) : j.win[s] = k.win[s]
  PROVE  Settled(j, x, y)
<1>1. ASSUME j.drag.on
      PROVE  j.win[j.drag.slot] = DragResult(j, x, y)
  <2>1. j.drag = k.drag /\ j.drag.slot \in Used(j) \cap Used(k)
    BY <1>1 DEF Held, NoGrab
  <2>2. QED
    BY <1>1, <2>1 DEF Settled, DragResult
<1>2. ASSUME j.resize.on
      PROVE  j.win[j.resize.slot] = ResizeResult(j, x, y)
  <2>1. j.resize = k.resize /\ j.resize.slot \in Used(j) \cap Used(k)
    BY <1>2 DEF Held, NoResize
  <2>2. QED
    BY <1>2, <2>1 DEF Settled, ResizeResult
<1>3. QED
  BY <1>1, <1>2 DEF Settled

\* The window that request_new_window makes for process p.
LEMMA FreshWindow ==
  ASSUME NEW p \in Process, NEW x \in Nat, NEW y \in Nat
  PROVE  LET w == MovedTo(NewWindow(p), x, y)
         IN  w \in Window /\ w.in_use /\ w.owner = p /\ Fits(w)
<1> DEFINE fresh == NewWindow(p)
           d == apply_visible_dimensions(FreeWindow, VGA_WIDTH, VGA_HEIGHT)
<1>1. clamp_u32(VGA_WIDTH, MIN_VISIBLE_COLUMNS, VGA_WIDTH) = VGA_WIDTH
      /\ clamp_u32(VGA_HEIGHT, MIN_VISIBLE_ROWS, VGA_HEIGHT) = VGA_HEIGHT
  BY WindowsAssumption DEF clamp_u32, Most, Least
<1>2. d \in Window /\ d.columns = VGA_WIDTH /\ d.rows = VGA_HEIGHT
  <2>1. FreeWindow \in Window
    BY WindowsAssumption DEF FreeWindow, Window
  <2>2. QED
    BY <1>1, <2>1, DimensionsLegal, WindowsAssumption
<1>2a. fresh = [d EXCEPT !.in_use = TRUE, !.owner = p]
  BY DEF NewWindow
<1> HIDE DEF fresh, d
<1>3. fresh \in Window /\ fresh.owner = p /\ fresh.columns = VGA_WIDTH /\ fresh.rows = VGA_HEIGHT
  BY <1>2, <1>2a DEF Window
<1>4. fresh.in_use = TRUE
  BY <1>2, <1>2a DEF Window
<1>5. fresh.columns >= MIN_VISIBLE_COLUMNS /\ fresh.rows >= MIN_VISIBLE_ROWS
  BY <1>3, WindowsAssumption
<1>6. MovedTo(fresh, x, y) \in Window /\ MovedTo(fresh, x, y).owner = p /\ Fits(MovedTo(fresh, x, y))
  BY <1>3, <1>5, MovedFits
<1>7. MovedTo(fresh, x, y).in_use = fresh.in_use
  BY <1>3, MovedFits
<1>8. QED
  BY <1>4, <1>6, <1>7 DEF fresh

\* request_new_window for a process without a window: there is no room, or the
\* window is on the screen, on top and active.
LEMMA RequestWindow ==
  ASSUME NEW k, Good(k), NEW p \in Process, p \notin Owners(k)
  PROVE  LET j == request_new_window(k, p)
         IN  \/ j = k
             \/ /\ Good(j) /\ j.ghost = k.ghost /\ (Shown(k) => Shown(j))
                /\ (k.cursor_drawn => j.cursor_drawn)
                /\ j.drag = k.drag /\ j.resize = k.resize
                /\ j.foreground = k.foreground /\ j.stack = k.stack /\ j.alive = k.alive
                /\ Used(j) = Used(k) \cup {j.active} /\ j.active \notin Used(k)
                /\ j.win[j.active].owner = p
                /\ \A s \in Used(k) : j.win[s] = k.win[s]
<1> DEFINE slot == CHOOSE s \in FreeSlots(k) : \A t \in FreeSlots(k) : s <= t
           x == INITIAL_FRAME_X + Len(k.z) * CASCADE_STEP_X
           y == INITIAL_FRAME_Y + Len(k.z) * CASCADE_STEP_Y
           placed == MovedTo(NewWindow(p), x, y)
           o == [k EXCEPT !.win[slot] = placed, !.count = @ + 1]
           j == request_new_window(k, p)
<1>1. k \in Desk /\ Exact(k) /\ AllFit(k) /\ Held(k) /\ Len(k.stack) <= MAX_PROCESSES
  BY DEF Good
<1>2. find_window_index(k, p) = INVALID_SLOT
  BY FindWindow
<1>3. CASE k.count >= MAX_WINDOWS \/ FreeSlots(k) = {}
  BY <1>2, <1>3 DEF request_new_window
<1>4. CASE ~(k.count >= MAX_WINDOWS \/ FreeSlots(k) = {})
  <2>1. j = focus_window(o, slot)
    BY <1>2, <1>4 DEF request_new_window
  <2>2. slot \in Slot \ Used(k)
    <3>1. FreeSlots(k) \in SUBSET Nat /\ FreeSlots(k) # {} /\ FreeSlots(k) = Slot \ Used(k)
      BY <1>4, WindowsAssumption DEF FreeSlots, Slot, Used
    <3>2. \E s \in FreeSlots(k) : \A t \in FreeSlots(k) : s <= t
      BY <3>1, LeastExists
    <3>3. QED
      BY <3>1, <3>2
  <2>3. x \in Nat /\ y \in Nat
    <3>1. Len(k.z) \in Nat
      BY <1>1 DEF Desk
    <3>2. Len(k.z) * CASCADE_STEP_X \in Nat /\ Len(k.z) * CASCADE_STEP_Y \in Nat
      BY <3>1, ProductMonotonic, WindowsAssumption
    <3>3. QED
      BY <3>2, WindowsAssumption
  <2> HIDE DEF slot, x, y, j
  <2>4. placed \in Window /\ placed.in_use /\ placed.owner = p /\ Fits(placed)
    BY <2>3, FreshWindow
  <2> HIDE DEF placed
  <2>5. k.win \in [Slot -> Window] /\ k.count \in 0 .. MAX_WINDOWS - 1
    BY <1>1, <1>4, WindowsAssumption DEF Desk
  <2>6. [k.win EXCEPT ![slot] = placed] \in [Slot -> Window] /\ k.count + 1 \in 0 .. MAX_WINDOWS
    BY <2>2, <2>4, <2>5, WindowsAssumption
  <2>7. /\ o = [k EXCEPT !.win = [k.win EXCEPT ![slot] = placed], !.count = k.count + 1]
    OBVIOUS
  <2> HIDE DEF o
  <2>8. /\ o \in Desk /\ o.win = [k.win EXCEPT ![slot] = placed] /\ o.count = k.count + 1
        /\ o.z = k.z /\ o.active = k.active /\ o.drag = k.drag /\ o.resize = k.resize
        /\ o.foreground = k.foreground /\ o.stack = k.stack /\ o.alive = k.alive
        /\ o.picture = k.picture /\ o.residue = k.residue /\ o.on_top = k.on_top
    BY <1>1, <2>6, <2>7 DEF Desk
  <2>9. o.ghost = k.ghost
    BY <1>1, <2>7 DEF Desk
  <2>9a. o.cursor_drawn = k.cursor_drawn
    BY <1>1, <2>7 DEF Desk
  <2>10. o.win[slot] = placed /\ \A s \in Slot \ {slot} : o.win[s] = k.win[s]
    BY <2>2, <2>5, <2>8
  <2>11. Used(o) = Used(k) \cup {slot} /\ \A s \in Used(k) : o.win[s] = k.win[s]
    BY <2>2, <2>4, <2>10 DEF Used
  <2>12. Cardinality(Used(o)) = Cardinality(Used(k)) + 1
    BY <2>2, <2>11, UsedIsFinite, FS_AddElement
  <2>13. Opening(o, slot)
    <3>1. ToSet(o.z) = Used(k) /\ IsInjective(o.z) /\ slot \notin ToSet(o.z)
      BY <1>1, <2>2, <2>8 DEF Exact
    <3>2. o.count = Cardinality(Used(o)) /\ Len(o.z) = o.count - 1
      BY <1>1, <2>5, <2>8, <2>12 DEF Exact
    <3>3. \A s, t \in Used(o) : o.win[s].owner = o.win[t].owner => s = t
      <4>1. \A s \in Used(k) : k.win[s].owner # p
        BY DEF Owners
      <4>2. \A s, t \in Used(k) : k.win[s].owner = k.win[t].owner => s = t
        BY <1>1 DEF Exact
      <4>3. QED
        BY <2>4, <2>10, <2>11, <4>1, <4>2
    <3>4. QED
      BY <1>1, <2>8, <2>11, <3>1, <3>2, <3>3 DEF Exact, Opening
  <2>14. k.active # slot
    BY <1>1, <2>2, <2>5 DEF Exact, Top, Last, ToSet, Desk, INVALID_SLOT, Slot
  <2>15. /\ j \in Desk /\ Exact(j) /\ j.active = slot
         /\ j.win = o.win /\ j.drag = o.drag /\ j.resize = o.resize
         /\ j.foreground = o.foreground /\ j.stack = o.stack /\ j.alive = o.alive
         /\ j.ghost = o.ghost /\ (o.cursor_drawn => j.cursor_drawn) /\ (Ready(o) => Shown(j))
    BY <2>1, <2>8, <2>13, <2>14, FocusWindow
  <2>16. Used(j) = Used(o)
    BY <2>15 DEF Used
  <2>17. AllFit(j)
    BY <1>1, <2>4, <2>10, <2>11, <2>15, <2>16 DEF AllFit
  <2>18. Held(j)
    BY <1>1, <2>8, <2>11, <2>15, <2>16 DEF Held
  <2>19. Shown(k) => Ready(o)
    <3> SUFFICES ASSUME Shown(k) PROVE Ready(o)
      OBVIOUS
    <3>1. \A s \in Used(k) : o.picture[s] = FrameOf(o.win[s])
      BY <2>8, <2>11 DEF Shown, Used
    <3>2. o.picture[slot].width = 0
      BY <2>2, <2>8 DEF Shown, Blank
    <3>3. \A s \in Slot \ Used(o) : o.picture[s] = Blank
      BY <2>8, <2>11 DEF Shown
    <3>4. QED
      BY <2>8, <2>11, <3>1, <3>2, <3>3 DEF Shown, Ready
  <2>20. Good(j)
    BY <1>1, <2>8, <2>15, <2>17, <2>18 DEF Good
  <2>21. QED
    BY <2>2, <2>4, <2>8, <2>9, <2>9a, <2>10, <2>11, <2>15, <2>16, <2>19, <2>20 DEF j
<1>5. QED
  BY <1>3, <1>4

-----------------------------------------------------------------------------
(* Moving and resizing windows                                             *)

\* The window w is one that the window in slot may become.
MayBecome(k, slot, w) ==
    /\ slot \in Used(k) /\ w \in Window /\ Fits(w)
    /\ w.in_use = k.win[slot].in_use /\ w.owner = k.win[slot].owner

Replaced(m, k, slot, w) ==
    /\ m.win = [k.win EXCEPT ![slot] = w]
    /\ m.count = k.count /\ m.z = k.z /\ m.active = k.active
    /\ m.drag = k.drag /\ m.resize = k.resize /\ m.stack = k.stack

\* A window that gets another place or size.
LEMMA ReplaceWindow ==
  ASSUME NEW k, Good(k), NEW slot, NEW w, MayBecome(k, slot, w), NEW m \in Desk, Replaced(m, k, slot, w)
  PROVE  /\ Good(m) /\ Used(m) = Used(k) /\ Owners(m) = Owners(k)
         /\ m.win[slot] = w /\ \A s \in Slot \ {slot} : m.win[s] = k.win[s]
         /\ \A s \in Used(k) : m.win[s].owner = k.win[s].owner
<1>1. k \in Desk /\ Exact(k) /\ AllFit(k) /\ Held(k) /\ Len(k.stack) <= MAX_PROCESSES
  BY DEF Good
<1>2. k.win \in [Slot -> Window] /\ slot \in Slot /\ m.win = [k.win EXCEPT ![slot] = w]
  BY <1>1 DEF Desk, Used, MayBecome, Replaced
<1>3. m.win[slot] = w /\ \A s \in Slot \ {slot} : m.win[s] = k.win[s]
  BY <1>2
<1>4. \A s \in Slot : m.win[s].owner = k.win[s].owner
  BY <1>3 DEF MayBecome
<1>4a. \A s \in Slot : m.win[s].in_use = k.win[s].in_use
  BY <1>3 DEF MayBecome
<1>5. Used(m) = Used(k)
  BY <1>4a DEF Used
<1>6. Owners(m) = Owners(k)
  BY <1>4, <1>5 DEF Owners, Used
<1>7. Exact(m)
  <2>1. Used(k) \subseteq Slot
    BY DEF Used
  <2>2. QED
    BY <1>1, <1>4, <1>5, <2>1 DEF Exact, Replaced
<1>8. AllFit(m)
  BY <1>1, <1>3, <1>5 DEF AllFit, Used, MayBecome
<1>9. Held(m)
  BY <1>1, <1>5 DEF Held, Replaced
<1>10. QED
  BY <1>1, <1>3, <1>4, <1>5, <1>6, <1>7, <1>8, <1>9 DEF Good, Used, Replaced

\* fill_background_rect over the frame of a window erases that picture, and
\* leaves every other one whole or to be drawn again.
LEMMA FillBackground ==
  ASSUME NEW k \in Desk, AllFit(k), NEW slot \in Used(k), Shown(k)
  PROVE  LET e == fill_background_rect(k, FrameOf(k.win[slot]))
         IN  /\ e \in Desk /\ Same(e, k)
             /\ e.residue = {} /\ e.on_top = k.on_top
             /\ e.ghost = (k.ghost \/ k.cursor_drawn)
             /\ e.picture[slot].width = 0
             /\ \A s \in Used(k) : e.picture[s] = FrameOf(k.win[s]) \/ e.picture[s].width = 0
             /\ \A s \in Slot \ Used(k) : e.picture[s] = Blank
<1> DEFINE frame == FrameOf(k.win[slot])
           f == StartFrame(k)
           pic == [s \in Slot |-> IF k.picture[s] = frame THEN Blank
                                  ELSE IF Overlap(k.picture[s], frame)
                                       THEN [k.picture[s] EXCEPT !.width = 0]
                                  ELSE k.picture[s]]
           e == fill_background_rect(k, frame)
<1>1. slot \in Slot /\ k.win[slot] \in Window
  BY DEF Used, Desk
<1>2. /\ f \in Desk /\ Same(f, k) /\ f.picture = k.picture /\ f.residue = k.residue /\ f.on_top = k.on_top
  BY StartFrameEffect
<1>3. f.ghost = (k.ghost \/ k.cursor_drawn)
  BY StartFrameEffect
<1>4. e = [f EXCEPT !.residue = f.residue \ {frame},
                    !.picture = [s \in Slot |-> IF f.picture[s] = frame THEN Blank
                                                ELSE IF Overlap(f.picture[s], frame)
                                                     THEN [f.picture[s] EXCEPT !.width = 0]
                                                ELSE f.picture[s]]]
  BY DEF fill_background_rect
<1>5. e = [f EXCEPT !.residue = {}, !.picture = pic]
  <2>1. f.residue \ {frame} = {}
    BY <1>2 DEF Shown
  <2> HIDE DEF e, f
  <2>2. QED
    BY <1>2, <1>4, <2>1
<1>6. pic \in [Slot -> Frame]
  <2>1. Blank \in Frame /\ \A s \in Slot : k.picture[s] \in Frame
    BY DEF Blank, Frame, Desk
  <2>2. \A s \in Slot : [k.picture[s] EXCEPT !.width = 0] \in Frame
    BY <2>1 DEF Frame
  <2>3. QED
    BY <2>1, <2>2
<1> HIDE DEF e, f
<1>7. e \in Desk /\ e.picture = pic
  <2> HIDE DEF pic
  <2>1. QED
    BY <1>2, <1>5, <1>6 DEF Desk
<1>8. Same(e, k) /\ e.residue = {} /\ e.on_top = k.on_top
  <2> HIDE DEF pic
  <2>1. QED
    BY <1>2, <1>5 DEF Desk, Same
<1>9. e.ghost = (k.ghost \/ k.cursor_drawn)
  <2> HIDE DEF pic
  <2>1. e.ghost = f.ghost
    BY <1>2, <1>5 DEF Desk
  <2>2. QED
    BY <1>3, <2>1
<1>10. k.picture[slot] = frame /\ frame.x \in Nat /\ frame.width \in Nat
  <2>1. k.picture[slot] = frame
    BY <1>1 DEF Shown
  <2>2. frame \in Frame /\ frame.x = k.win[slot].x
    BY <1>1, FrameSize DEF FrameOf
  <2>3. k.win[slot].x >= 0
    BY DEF AllFit, Fits
  <2>4. QED
    BY <2>1, <2>2, <2>3 DEF Frame
<1>11. e.picture[slot].width = 0
  BY <1>1, <1>7, <1>10 DEF Blank
<1>12. ASSUME NEW s \in Used(k)
       PROVE  e.picture[s] = FrameOf(k.win[s]) \/ e.picture[s].width = 0
  <2>1. s \in Slot /\ k.picture[s] = FrameOf(k.win[s]) /\ k.picture[s] \in Frame
    BY DEF Shown, Used, Desk
  <2>2. e.picture[s] \in {Blank, [k.picture[s] EXCEPT !.width = 0], k.picture[s]}
    BY <1>7, <2>1
  <2>3. Blank.width = 0 /\ [k.picture[s] EXCEPT !.width = 0].width = 0
    BY <2>1 DEF Blank, Frame
  <2>4. QED
    BY <2>1, <2>2, <2>3
<1>13. ASSUME NEW s \in Slot \ Used(k)
       PROVE  e.picture[s] = Blank
  <2>1. k.picture[s] = Blank
    BY DEF Shown
  <2>2. ~Overlap(Blank, frame)
    BY <1>10 DEF Overlap, Blank
  <2>3. QED
    BY <1>7, <2>1, <2>2
<1>14. QED
  BY <1>7, <1>8, <1>9, <1>11, <1>12, <1>13 DEF e

\* What update_drag and update_resize do with a window that changes: the others
\* stay, the screen shows it, and what is under a drawn cursor gets a ghost.
Changed(j, k, slot, w) ==
    /\ Good(j) /\ Used(j) = Used(k) /\ Owners(j) = Owners(k)
    /\ j.win[slot] = w /\ \A s \in Slot \ {slot} : j.win[s] = k.win[s]
    /\ \A s \in Used(k) : j.win[s].owner = k.win[s].owner
    /\ j.count = k.count /\ j.z = k.z /\ j.active = k.active
    /\ j.drag = k.drag /\ j.resize = k.resize
    /\ j.foreground = k.foreground /\ j.stack = k.stack /\ j.alive = k.alive
    /\ Shown(j) /\ j.cursor_drawn
    /\ j.ghost = (k.ghost \/ k.cursor_drawn)

\* The order of erasing and replacing is the one of update_drag.
LEMMA ErasedAndDrawn ==
  ASSUME NEW k, Good(k), Shown(k), NEW slot, NEW w, MayBecome(k, slot, w)
  PROVE  Changed(draw_windows([fill_background_rect(k, FrameOf(k.win[slot])) EXCEPT !.win[slot] = w]),
                 k, slot, w)
<1> DEFINE e == fill_background_rect(k, FrameOf(k.win[slot]))
           m == [e EXCEPT !.win[slot] = w]
           j == draw_windows(m)
<1>1. k \in Desk /\ Exact(k) /\ AllFit(k) /\ Held(k) /\ slot \in Slot
      /\ slot \in Used(k) /\ w \in Window
  BY DEF Good, Used, MayBecome
<1>2. /\ e \in Desk /\ Same(e, k) /\ e.residue = {} /\ e.on_top = k.on_top
      /\ e.picture[slot].width = 0
      /\ \A s \in Used(k) : e.picture[s] = FrameOf(k.win[s]) \/ e.picture[s].width = 0
      /\ \A s \in Slot \ Used(k) : e.picture[s] = Blank
  BY <1>1, FillBackground
<1>3. e.ghost = (k.ghost \/ k.cursor_drawn)
  BY <1>1, FillBackground
<1> HIDE DEF e
<1>4. [k.win EXCEPT ![slot] = w] \in [Slot -> Window]
  BY <1>1 DEF Desk
<1>5. m = [e EXCEPT !.win = [k.win EXCEPT ![slot] = w]]
  BY <1>2 DEF Same
<1> HIDE DEF m
<1>6. /\ m \in Desk /\ m.win = [k.win EXCEPT ![slot] = w]
      /\ m.count = e.count /\ m.z = e.z /\ m.active = e.active /\ m.drag = e.drag
      /\ m.resize = e.resize /\ m.foreground = e.foreground /\ m.stack = e.stack
      /\ m.alive = e.alive /\ m.picture = e.picture /\ m.residue = e.residue /\ m.on_top = e.on_top
  BY <1>2, <1>4, <1>5 DEF Desk
<1>7. m.ghost = e.ghost
  BY <1>2, <1>5 DEF Desk
<1>8. /\ Good(m) /\ Used(m) = Used(k) /\ Owners(m) = Owners(k)
      /\ m.win[slot] = w /\ \A s \in Slot \ {slot} : m.win[s] = k.win[s]
      /\ \A s \in Used(k) : m.win[s].owner = k.win[s].owner
  <2>1. Replaced(m, k, slot, w)
    BY <1>2, <1>6 DEF Same, Replaced
  <2>2. m \in Desk
    BY <1>6
  <2>3. QED
    BY <2>1, <2>2, ReplaceWindow
<1>9. Ready(m)
  <2>1. \A s \in Used(m) : m.picture[s] = FrameOf(m.win[s]) \/ m.picture[s].width = 0
    BY <1>2, <1>6, <1>8 DEF Used
  <2>2. m.z = << >> => m.on_top = m.active
    BY <1>2, <1>6 DEF Shown, Same
  <2>3. QED
    BY <1>2, <1>6, <1>8, <2>1, <2>2 DEF Ready
<1>10. j \in Desk /\ Same(j, m) /\ Drawn(j, m)
  BY <1>6, <1>8, DrawWindows DEF Good
<1> HIDE DEF j
<1>11. Shown(j)
  BY <1>6, <1>9, <1>10, DrawnIsShown
<1>12. Good(j) /\ Used(j) = Used(k) /\ Owners(j) = Owners(k)
  BY <1>8, <1>10, SameGood, SameMeans
<1>13. j.cursor_drawn /\ j.ghost = (k.ghost \/ k.cursor_drawn)
  BY <1>3, <1>7, <1>10 DEF Drawn
<1>14. Changed(j, k, slot, w)
  BY <1>2, <1>6, <1>8, <1>10, <1>11, <1>12, <1>13 DEF Changed, Same
<1>15. QED
  BY <1>14 DEF j, m, e

\* The order of update_resize.
LEMMA ReplacedAndDrawn ==
  ASSUME NEW k, Good(k), Shown(k), NEW slot, NEW w, MayBecome(k, slot, w)
  PROVE  Changed(draw_windows(fill_background_rect([k EXCEPT !.win[slot] = w], FrameOf(k.win[slot]))),
                 k, slot, w)
<1> DEFINE frame == FrameOf(k.win[slot])
           one == fill_background_rect([k EXCEPT !.win[slot] = w], frame)
           two == [fill_background_rect(k, frame) EXCEPT !.win[slot] = w]
<1>1. k \in Desk
  BY DEF Good
<1>2. one = two
  BY <1>1 DEF fill_background_rect, StartFrame, Desk
<1>3. QED
  BY <1>2, ErasedAndDrawn

\* Rounding down to cells.
LEMMA Rounding ==
  ASSUME NEW n \in Nat, NEW cell \in Nat \ {0}
  PROVE  /\ n \div cell \in Nat /\ (n \div cell) * cell <= n
         /\ \A m \in Nat : m * cell <= n => m <= n \div cell
<1> DEFINE q == n \div cell
<1>1. q \in Nat /\ q * cell <= n /\ n < q * cell + cell
  OBVIOUS
<1> HIDE DEF q
<1>2. ASSUME NEW m \in Nat, m * cell <= n
      PROVE  m <= q
  <2> SUFFICES ASSUME m > q PROVE FALSE
    BY <1>1
  <2>1. (q + 1) * cell <= m * cell
    BY <1>1, ProductMonotonic
  <2>2. (q + 1) * cell = q * cell + cell
    BY <1>1
  <2>3. q * cell \in Int /\ m * cell \in Int
    BY <1>1
  <2>4. QED
    BY <1>1, <1>2, <2>1, <2>2, <2>3
<1>3. QED
  BY <1>1, <1>2 DEF q

\* The numbers that Resized is called with, in one direction.
Sized(start, size, delta, near, far, least, limit, cell, padding, cells_min, cells_max) ==
    /\ start \in Int /\ size \in Int /\ delta \in Int /\ near \in BOOLEAN /\ far \in BOOLEAN
    /\ limit \in Nat /\ cell \in Nat \ {0} /\ padding \in Nat
    /\ cells_max \in Nat /\ cells_min \in 1 .. cells_max
    /\ least = cells_min * cell + padding /\ cells_max * cell + padding <= limit

\* The frame lies on the screen, holds whole cells and is held at one side at most.
Anchored(start, size, near, far, limit, cell, padding, cells_min, cells_max) ==
    /\ start >= 0 /\ start + size <= limit /\ ~(near /\ far)
    /\ \E had \in cells_min .. cells_max : size = had * cell + padding

\* Whatever the mouse does, update_resize leaves a size between the limits and a
\* place on the screen.
LEMMA ResizedFits ==
  ASSUME NEW start, NEW size, NEW delta, NEW near, NEW far, NEW least, NEW limit, NEW cell,
         NEW padding, NEW cells_min, NEW cells_max,
         Sized(start, size, delta, near, far, least, limit, cell, padding, cells_min, cells_max)
  PROVE  LET r == Resized(start, size, delta, near, far, least, limit, cell, padding, cells_min, cells_max)
         IN  /\ r.cells \in cells_min .. cells_max
             /\ r.at \in Nat /\ r.at + (r.cells * cell + padding) <= limit
<1> DEFINE end == start + size
           low == IF near THEN Least(AtLeastZero(start + delta), end - least) ELSE start
           high == IF far THEN Most(Least(end + delta, limit), low + least) ELSE end
           low2 == IF high > limit THEN AtLeastZero(limit - least) ELSE low
           high2 == Least(high, limit)
           width == Most(high2 - low2, least)
           right == IF high2 - low2 < least /\ ~near THEN low2 + width ELSE high2
           left == IF high2 - low2 < least /\ near THEN high2 - width ELSE low2
           fitting == IF limit > padding THEN (limit - padding) \div cell ELSE cells_min
           q == AtLeastZero(width - padding) \div cell
           cells == clamp_u32(q, cells_min, Most(cells_min, Least(fitting, cells_max)))
           final == cells * cell + padding
           near_at == IF near /\ ~far THEN AtLeastZero(right - final) ELSE AtLeastZero(left)
           at == ClampedTo(near_at, final, limit)
           r == Resized(start, size, delta, near, far, least, limit, cell, padding, cells_min, cells_max)
<1>0. /\ start \in Int /\ size \in Int /\ delta \in Int /\ near \in BOOLEAN /\ far \in BOOLEAN
      /\ least \in Nat /\ limit \in Nat /\ cell \in Nat \ {0} /\ padding \in Nat
      /\ cells_max \in Nat /\ cells_min \in 1 .. cells_max
      /\ cells_max * cell + padding <= limit
  <2>1. cells_min \in Nat => cells_min * cell \in Nat
    BY ProductMonotonic DEF Sized
  <2>2. QED
    BY <2>1 DEF Sized
<1> USE <1>0
<1>1. low \in Int
  BY DEF Least, AtLeastZero, Most
<1> HIDE DEF low
<1>2. high \in Int
  BY <1>1 DEF Least, Most
<1> HIDE DEF high
<1>3. low2 \in Int /\ high2 \in Int
  BY <1>1, <1>2 DEF Least, Most, AtLeastZero
<1> HIDE DEF low2, high2
<1>4. width \in Int /\ AtLeastZero(width - padding) \in Nat
  BY <1>3 DEF Most, AtLeastZero
<1> HIDE DEF width
<1>5. left \in Int /\ right \in Int
  BY <1>3, <1>4
<1> HIDE DEF left, right
<1>6. q \in Nat
  BY <1>4, Rounding
<1>7. fitting \in Nat
  BY Rounding
<1> HIDE DEF q, fitting
<1>8. cells \in cells_min .. cells_max
  BY <1>6, <1>7 DEF clamp_u32, Most, Least
<1> HIDE DEF cells
<1>9. final \in 0 .. limit
  <2>1. cells * cell <= cells_max * cell /\ cells * cell \in Nat /\ cells_max * cell \in Nat
    BY <1>8, ProductMonotonic
  <2>2. QED
    BY <2>1
<1> HIDE DEF final
<1>10. near_at \in Nat
  BY <1>5, <1>9 DEF AtLeastZero, Most
<1> HIDE DEF near_at
<1>11. at \in Nat /\ at + final <= limit
  BY <1>9, <1>10, ClampedFits
<1> HIDE DEF at
<1>12. r = [cells |-> cells, at |-> at]
  BY DEF Resized, at, near_at, final, cells, fitting, q, left, right, width, low2, high2, high, low
<1> HIDE DEF r
<1>13. r.cells = cells /\ r.at = at
  BY <1>12
<1>14. QED
  BY <1>8, <1>11, <1>13 DEF r, final

\* Of a frame that lies on the screen and holds whole cells, update_resize moves
\* only the edge that is held.
LEMMA ResizedAnchors ==
  ASSUME NEW start, NEW size, NEW delta, NEW near, NEW far, NEW least, NEW limit, NEW cell,
         NEW padding, NEW cells_min, NEW cells_max,
         Sized(start, size, delta, near, far, least, limit, cell, padding, cells_min, cells_max),
         Anchored(start, size, near, far, limit, cell, padding, cells_min, cells_max)
  PROVE  LET r == Resized(start, size, delta, near, far, least, limit, cell, padding, cells_min, cells_max)
             final == r.cells * cell + padding
         IN  /\ IF near THEN r.at + final = start + size ELSE r.at = start
             /\ (~near /\ ~far) \/ delta = 0 => final = size
<1> DEFINE end == start + size
           low == IF near THEN Least(AtLeastZero(start + delta), end - least) ELSE start
           high == IF far THEN Most(Least(end + delta, limit), low + least) ELSE end
           low2 == IF high > limit THEN AtLeastZero(limit - least) ELSE low
           high2 == Least(high, limit)
           width == Most(high2 - low2, least)
           right == IF high2 - low2 < least /\ ~near THEN low2 + width ELSE high2
           left == IF high2 - low2 < least /\ near THEN high2 - width ELSE low2
           fitting == IF limit > padding THEN (limit - padding) \div cell ELSE cells_min
           q == AtLeastZero(width - padding) \div cell
           cells == clamp_u32(q, cells_min, Most(cells_min, Least(fitting, cells_max)))
           final == cells * cell + padding
           near_at == IF near /\ ~far THEN AtLeastZero(right - final) ELSE AtLeastZero(left)
           at == ClampedTo(near_at, final, limit)
           r == Resized(start, size, delta, near, far, least, limit, cell, padding, cells_min, cells_max)
<1>0. /\ start \in Nat /\ size \in Int /\ delta \in Int /\ near \in BOOLEAN /\ far \in BOOLEAN
      /\ limit \in Nat /\ cell \in Nat \ {0} /\ padding \in Nat
      /\ cells_max \in Nat /\ cells_min \in 1 .. cells_max
      /\ least = cells_min * cell + padding /\ cells_max * cell + padding <= limit
      /\ start + size <= limit /\ ~(near /\ far)
  BY DEF Sized, Anchored
<1>0a. PICK had \in cells_min .. cells_max : size = had * cell + padding
  BY DEF Anchored
<1> USE <1>0, <1>0a
<1>1. /\ had * cell \in Nat /\ cells_min * cell \in Nat /\ cells_max * cell \in Nat
      /\ cells_min * cell <= had * cell /\ cells_min * cell > 0
  <2>1. /\ had * cell \in Nat /\ cells_min * cell \in Nat /\ cells_max * cell \in Nat
        /\ cells_min * cell <= had * cell /\ 1 * cell <= cells_min * cell
    BY ProductMonotonic
  <2>2. 1 * cell = cell
    OBVIOUS
  <2>3. QED
    BY <2>1, <2>2
<1>2. /\ size \in Nat /\ least \in Nat /\ least <= size /\ least > padding /\ end \in Nat /\ end <= limit
      /\ limit > padding
  BY <1>1
\* The sides, before rounding.
<1>3. low \in 0 .. end - least /\ (~near \/ delta = 0 => low = start)
  BY <1>2 DEF Least, AtLeastZero, Most
<1> HIDE DEF low
<1>4. high \in low + least .. limit /\ (~far \/ (delta = 0 /\ low = start) => high = end)
  BY <1>2, <1>3 DEF Least, Most
<1> HIDE DEF high
<1>5. low2 = low /\ high2 = high
  BY <1>2, <1>3, <1>4 DEF Least
<1> HIDE DEF low2, high2
<1>6. width = high - low /\ left = low /\ right = high
  BY <1>2, <1>3, <1>4, <1>5 DEF Most
<1> HIDE DEF width, left, right
\* The rounded size is not larger, and exact when no side is held.
<1>7. width \in Nat /\ width - padding \in Nat /\ AtLeastZero(width - padding) = width - padding
      /\ cells_min * cell <= width - padding /\ width <= limit
  BY <1>1, <1>2, <1>3, <1>4, <1>6 DEF AtLeastZero, Most
<1>8a. q \in Nat /\ q * cell <= width - padding /\ \A m \in Nat : m * cell <= width - padding => m <= q
  <2> DEFINE n == width - padding
  <2>1. n \in Nat /\ q = n \div cell
    BY <1>7
  <2> HIDE DEF n, q
  <2>2. n \div cell \in Nat /\ (n \div cell) * cell <= n /\ \A m \in Nat : m * cell <= n => m <= n \div cell
    BY <2>1, Rounding
  <2>3. QED
    BY <2>1, <2>2 DEF n
<1>10a. fitting \in Nat /\ \A m \in Nat : m * cell <= limit - padding => m <= fitting
  <2> DEFINE n == limit - padding
  <2>1. n \in Nat /\ fitting = n \div cell
    BY <1>2
  <2> HIDE DEF n, fitting
  <2>2. n \div cell \in Nat /\ \A m \in Nat : m * cell <= n => m <= n \div cell
    BY <2>1, Rounding
  <2>3. QED
    BY <2>1, <2>2 DEF n
<1> HIDE DEF q, fitting
<1>8. q \in Nat /\ q * cell <= width - padding /\ q >= cells_min
  BY <1>7, <1>8a
<1>9a. (~near /\ ~far) \/ delta = 0 => low = start /\ high = end
  BY <1>3, <1>4
<1>9. low = start /\ high = end => q >= had
  <2>1. low = start /\ high = end => had * cell <= width - padding
    BY <1>1, <1>2, <1>6
  <2>2. QED
    BY <1>8a, <2>1
<1>10. fitting \in Nat /\ fitting >= had
  <2>1. limit - padding \in Nat /\ had * cell <= limit - padding
    BY <1>1, <1>2
  <2>2. QED
    BY <1>10a, <2>1
<1>11. cells \in cells_min .. cells_max /\ cells <= q /\ (q >= had => cells >= had)
  BY <1>8, <1>10 DEF clamp_u32, Most, Least
<1> HIDE DEF cells
<1>12. cells * cell \in Nat /\ cells * cell <= q * cell
  BY <1>8, <1>11, ProductMonotonic
<1>12a. q * cell \in Int
  BY <1>8
<1>13. final \in Nat /\ final <= width
  BY <1>7, <1>8, <1>12, <1>12a
<1>14. low = start /\ high = end => final = size
  <2>1. low = start /\ high = end => width = size
    BY <1>2, <1>6
  <2>2. low = start /\ high = end => had * cell <= cells * cell
    BY <1>9, <1>11, ProductMonotonic
  <2>3. QED
    BY <1>1, <1>12, <1>13, <2>1, <2>2
<1> HIDE DEF final
<1>15. IF near THEN near_at = end - final ELSE near_at = start
  BY <1>2, <1>3, <1>4, <1>6, <1>13 DEF AtLeastZero, Most
<1>16. near_at \in Nat /\ near_at + final <= limit /\ final \in 0 .. limit
  BY <1>2, <1>3, <1>4, <1>6, <1>7, <1>13, <1>15
<1> HIDE DEF near_at
<1>17. at = near_at
  BY <1>16, ClampedFits
<1> HIDE DEF at
<1>18. r = [cells |-> cells, at |-> at]
  BY DEF Resized, at, near_at, final, cells, fitting, q, left, right, width, low2, high2, high, low
<1> HIDE DEF r
<1>19. r.cells = cells /\ r.at = at
  BY <1>18
<1>20. IF near THEN r.at + final = start + size ELSE r.at = start
  BY <1>2, <1>13, <1>15, <1>17, <1>19
<1>21. r.cells * cell + padding = final
  BY <1>19 DEF final
<1>22. QED
  BY <1>9a, <1>14, <1>20, <1>21 DEF r

\* Where the drag puts a window is a legal place, and putting it there again
\* changes nothing.
LEMMA DragResultOK ==
  ASSUME NEW k, Good(k), k.drag.on, NEW x \in Int, NEW y \in Int
  PROVE  /\ MayBecome(k, k.drag.slot, DragResult(k, x, y))
         /\ \A j : j.drag = k.drag /\ j.win[k.drag.slot] = DragResult(k, x, y)
                       => DragResult(j, x, y) = DragResult(k, x, y)
<1> DEFINE slot == k.drag.slot
           w == k.win[slot]
           a == AtLeastZero(x - k.drag.dx)
           b == AtLeastZero(y - k.drag.dy)
           m == MovedTo(w, a, b)
<1>1. slot \in Used(k) /\ slot \in Slot /\ w \in Window /\ Fits(w)
  BY DEF Good, Held, Used, AllFit, Desk
<1>2. k.drag.dx \in Int /\ k.drag.dy \in Int
  BY DEF Good, Desk
<1>3. a \in Nat /\ b \in Nat
  BY <1>2 DEF AtLeastZero, Most
<1>4. DragResult(k, x, y) = m
  BY DEF DragResult
<1> HIDE DEF a, b, w
<1>5. w.columns >= MIN_VISIBLE_COLUMNS /\ w.rows >= MIN_VISIBLE_ROWS
  BY <1>1 DEF Fits
<1>6. /\ m \in Window /\ m.owner = w.owner /\ m.columns = w.columns /\ m.rows = w.rows
      /\ m.x = ClampedTo(a, frame_width(w), ScreenWidth)
      /\ m.y = ClampedTo(b, frame_height(w), ScreenHeight) /\ Fits(m)
  BY <1>1, <1>3, <1>5, MovedFits
<1>7. m.in_use = w.in_use
  BY <1>1, <1>3, MovedFits
<1> HIDE DEF m
<1>8. MayBecome(k, slot, m)
  BY <1>1, <1>6, <1>7 DEF MayBecome, w
<1>9. MovedTo(m, a, b) = m
  <2>1. frame_width(m) = frame_width(w) /\ frame_height(m) = frame_height(w)
    BY <1>6 DEF frame_width, frame_height
  <2>2. MovedTo(m, a, b) = [m EXCEPT !.x = m.x, !.y = m.y]
    BY <1>6, <2>1 DEF MovedTo
  <2>3. QED
    BY <1>6, <2>2 DEF Window
<1>10. ASSUME NEW j, j.drag = k.drag, j.win[slot] = m
       PROVE  DragResult(j, x, y) = m
  BY <1>9, <1>10 DEF DragResult, a, b
<1>11. QED
  BY <1>4, <1>8, <1>10

\* update_drag: the window is where the mouse holds it, and on the screen.
LEMMA UpdateDrag ==
  ASSUME NEW k, Good(k), Shown(k), k.drag.on, NEW x \in Int, NEW y \in Int
  PROVE  LET j == update_drag(k, x, y)
             slot == k.drag.slot
         IN  /\ \/ j = k /\ k.win[slot] = DragResult(k, x, y)
                \/ Changed(j, k, slot, DragResult(k, x, y)) /\ k.win[slot] # DragResult(k, x, y)
             /\ Settled(j, x, y)
<1> DEFINE slot == k.drag.slot
           w == DragResult(k, x, y)
           j == update_drag(k, x, y)
<1>1. MayBecome(k, slot, w)
  BY DragResultOK
<1>2. window_slot_valid(k, slot)
  BY <1>1, SlotValid DEF MayBecome
<1>3. \/ j = k /\ k.win[slot] = w
      \/ Changed(j, k, slot, w) /\ k.win[slot] # w
  <2>1. CASE w = k.win[slot]
    BY <1>2, <2>1 DEF update_drag
  <2>2. CASE w # k.win[slot]
    BY <1>1, <1>2, <2>2, ErasedAndDrawn DEF update_drag
  <2>3. QED
    BY <2>1, <2>2
<1> HIDE DEF w, j
<1>4. j.drag = k.drag /\ j.win[slot] = w /\ j.resize = k.resize
  BY <1>3 DEF Changed
<1>5. DragResult(j, x, y) = w
  BY <1>4, DragResultOK DEF w
<1>6. Settled(j, x, y)
  BY <1>4, <1>5 DEF Settled, Good, Held
<1>7. QED
  BY <1>3, <1>6 DEF w, j

\* What update_resize computes, across and down.
LEMMA ResizedBoth ==
  ASSUME NEW k, Good(k), k.resize.on, NEW x \in Int, NEW y \in Int
  PROVE  LET h == ResizedAcross(k.resize, x)
             v == ResizedDown(k.resize, y)
         IN  /\ h.cells \in MIN_VISIBLE_COLUMNS .. VGA_WIDTH /\ h.at \in Nat
             /\ h.at + (h.cells * FONT_WIDTH + padding_w) <= ScreenWidth
             /\ v.cells \in MIN_VISIBLE_ROWS .. VGA_HEIGHT /\ v.at \in Nat
             /\ v.at + (v.cells * FONT_HEIGHT + padding_h) <= ScreenHeight
<1> DEFINE r == k.resize
<1>1. r.frame \in Frame /\ r.cursor_x \in Int /\ r.cursor_y \in Int
  BY DEF Good, Desk
<1>2. r.frame.x \in Int /\ r.frame.y \in Int /\ r.frame.width \in Int /\ r.frame.height \in Int
  BY <1>1 DEF Frame
<1>3. x - r.cursor_x \in Int /\ y - r.cursor_y \in Int
  BY <1>1
<1>4. /\ VGA_WIDTH \in Nat /\ VGA_HEIGHT \in Nat
      /\ MIN_VISIBLE_COLUMNS \in 1 .. VGA_WIDTH /\ MIN_VISIBLE_ROWS \in 1 .. VGA_HEIGHT
  BY WindowsAssumption
<1>4a. /\ FONT_WIDTH \in Nat \ {0} /\ ScreenWidth \in Nat
       /\ VGA_WIDTH * FONT_WIDTH + padding_w <= ScreenWidth
       /\ FONT_HEIGHT \in Nat \ {0} /\ ScreenHeight \in Nat
       /\ VGA_HEIGHT * FONT_HEIGHT + padding_h <= ScreenHeight
  BY WindowsAssumption
<1> HIDE DEF r
<1>5. LET h == ResizedAcross(r, x)
      IN  /\ h.cells \in MIN_VISIBLE_COLUMNS .. VGA_WIDTH /\ h.at \in Nat
          /\ h.at + (h.cells * FONT_WIDTH + padding_w) <= ScreenWidth
  <2> DEFINE h == ResizedAcross(r, x)
             near == "left" \in r.edges
             far == "right" \in r.edges
  <2>1. near \in BOOLEAN /\ far \in BOOLEAN
    OBVIOUS
  <2>2. h = Resized(r.frame.x, r.frame.width, x - r.cursor_x, near, far, min_frame_width, ScreenWidth,
                    FONT_WIDTH, padding_w, MIN_VISIBLE_COLUMNS, VGA_WIDTH)
    BY DEF ResizedAcross
  <2> HIDE DEF h, near, far
  <2>2a. Sized(r.frame.x, r.frame.width, x - r.cursor_x, near, far, min_frame_width, ScreenWidth,
                    FONT_WIDTH, padding_w, MIN_VISIBLE_COLUMNS, VGA_WIDTH)
    BY <1>2, <1>3, <1>4, <1>4a, <2>1, Paddings DEF Sized, min_frame_width
  <2>3. h.cells \in MIN_VISIBLE_COLUMNS .. VGA_WIDTH /\ h.at \in Nat
        /\ h.at + (h.cells * FONT_WIDTH + padding_w) <= ScreenWidth
    BY <2>2, <2>2a, ResizedFits
  <2>4. QED
    BY <2>3 DEF h
<1>6. LET v == ResizedDown(r, y)
      IN  /\ v.cells \in MIN_VISIBLE_ROWS .. VGA_HEIGHT /\ v.at \in Nat
          /\ v.at + (v.cells * FONT_HEIGHT + padding_h) <= ScreenHeight
  <2> DEFINE v == ResizedDown(r, y)
             near == "top" \in r.edges
             far == "bottom" \in r.edges
  <2>1. near \in BOOLEAN /\ far \in BOOLEAN
    OBVIOUS
  <2>2. v = Resized(r.frame.y, r.frame.height, y - r.cursor_y, near, far, min_frame_height, ScreenHeight,
                    FONT_HEIGHT, padding_h, MIN_VISIBLE_ROWS, VGA_HEIGHT)
    BY DEF ResizedDown
  <2> HIDE DEF v, near, far
  <2>2a. Sized(r.frame.y, r.frame.height, y - r.cursor_y, near, far, min_frame_height, ScreenHeight,
                    FONT_HEIGHT, padding_h, MIN_VISIBLE_ROWS, VGA_HEIGHT)
    BY <1>2, <1>3, <1>4, <1>4a, <2>1, Paddings DEF Sized, min_frame_height
  <2>3. v.cells \in MIN_VISIBLE_ROWS .. VGA_HEIGHT /\ v.at \in Nat
        /\ v.at + (v.cells * FONT_HEIGHT + padding_h) <= ScreenHeight
    BY <2>2, <2>2a, ResizedFits
  <2>4. QED
    BY <2>3 DEF v
<1>7. QED
  BY <1>5, <1>6 DEF r

\* Where the resizing puts a window is legal, and doing it again changes nothing.
LEMMA ResizeResultOK ==
  ASSUME NEW k, Good(k), k.resize.on, NEW x \in Int, NEW y \in Int
  PROVE  LET w == ResizeResult(k, x, y)
         IN  /\ MayBecome(k, k.resize.slot, w)
             /\ w.x = ResizedAcross(k.resize, x).at /\ w.y = ResizedDown(k.resize, y).at
             /\ w.columns = ResizedAcross(k.resize, x).cells
             /\ w.rows = ResizedDown(k.resize, y).cells
             /\ \A j : j.resize = k.resize /\ j.win[k.resize.slot] = w
                           => ResizeResult(j, x, y) = w
<1> DEFINE slot == k.resize.slot
           old == k.win[slot]
           h == ResizedAcross(k.resize, x)
           v == ResizedDown(k.resize, y)
           d == apply_visible_dimensions(old, h.cells, v.cells)
           w == ResizeResult(k, x, y)
<1>1. slot \in Used(k) /\ slot \in Slot /\ old \in Window
  BY DEF Good, Held, Used, Desk
<1>2. /\ h.cells \in MIN_VISIBLE_COLUMNS .. VGA_WIDTH /\ h.at \in Nat
      /\ h.at + (h.cells * FONT_WIDTH + padding_w) <= ScreenWidth
      /\ v.cells \in MIN_VISIBLE_ROWS .. VGA_HEIGHT /\ v.at \in Nat
      /\ v.at + (v.cells * FONT_HEIGHT + padding_h) <= ScreenHeight
  BY ResizedBoth
<1>3. w = [d EXCEPT !.x = h.at, !.y = v.at]
  BY DEF ResizeResult
<1> HIDE DEF old, h, v
<1>4. clamp_u32(h.cells, MIN_VISIBLE_COLUMNS, VGA_WIDTH) = h.cells
      /\ clamp_u32(v.cells, MIN_VISIBLE_ROWS, VGA_HEIGHT) = v.cells
  BY <1>2, WindowsAssumption DEF clamp_u32, Most, Least
<1>5. d \in Window /\ d.owner = old.owner /\ d.columns = h.cells /\ d.rows = v.cells
  BY <1>1, <1>2, <1>4, DimensionsLegal, WindowsAssumption
<1>6. d.in_use = old.in_use
  BY <1>1, <1>2, DimensionsLegal, WindowsAssumption
<1> HIDE DEF d, w
<1>7. /\ w \in Window /\ w.owner = old.owner /\ w.columns = h.cells /\ w.rows = v.cells
      /\ w.x = h.at /\ w.y = v.at
  <2>1. h.at \in Int /\ v.at \in Int
    BY <1>2
  <2>2. w \in Window
    BY <1>3, <1>5, <2>1 DEF Window
  <2>3. QED
    BY <1>3, <1>5, <2>2 DEF Window
<1>8. w.in_use = old.in_use
  BY <1>3, <1>5, <1>6 DEF Window
<1>9. Fits(w)
  BY <1>2, <1>7, WindowsAssumption DEF Fits, frame_width, frame_height
<1>10. MayBecome(k, slot, w)
  BY <1>1, <1>7, <1>8, <1>9 DEF MayBecome, old
<1>11. [apply_visible_dimensions(w, h.cells, v.cells) EXCEPT !.x = h.at, !.y = v.at] = w
  <2>1. apply_visible_dimensions(w, h.cells, v.cells) = [w EXCEPT !.columns = w.columns, !.rows = w.rows]
    BY <1>4, <1>7 DEF apply_visible_dimensions
  <2>2. apply_visible_dimensions(w, h.cells, v.cells) = w
    BY <1>7, <2>1 DEF Window
  <2>3. QED
    BY <1>7, <2>2 DEF Window
<1>12. ASSUME NEW j, j.resize = k.resize, j.win[slot] = w
       PROVE  ResizeResult(j, x, y) = w
  BY <1>11, <1>12 DEF ResizeResult, h, v
<1>13. QED
  BY <1>7, <1>10, <1>12 DEF w, h, v

\* The edges that are not held stay where they were when the button went down.
LEMMA ResizeResultAnchors ==
  ASSUME NEW k, Good(k), k.resize.on, NEW x \in Int, NEW y \in Int
  PROVE  LET f == k.resize.frame
             w == ResizeResult(k, x, y)
             held == k.resize.edges
         IN  /\ IF "left" \in held THEN w.x + frame_width(w) = f.x + f.width ELSE w.x = f.x
             /\ IF "top" \in held THEN w.y + frame_height(w) = f.y + f.height ELSE w.y = f.y
             /\ held \cap {"left", "right"} = {} \/ x = k.resize.cursor_x => frame_width(w) = f.width
             /\ held \cap {"top", "bottom"} = {} \/ y = k.resize.cursor_y => frame_height(w) = f.height
<1> DEFINE r == k.resize
           f == r.frame
           held == r.edges
           h == ResizedAcross(r, x)
           v == ResizedDown(r, y)
           w == ResizeResult(k, x, y)
<1>1. ResizeOK(r) /\ r.cursor_x \in Int /\ r.cursor_y \in Int
  BY DEF Good, Desk, Held
<1>2. PICK o \in Window : Fits(o) /\ f = FrameOf(o)
  BY <1>1 DEF ResizeOK
<1>3. /\ f.x = o.x /\ f.y = o.y /\ f.width = o.columns * FONT_WIDTH + padding_w
      /\ f.height = o.rows * FONT_HEIGHT + padding_h
  BY <1>2 DEF FrameOf, frame_width, frame_height
<1>4. /\ o.columns \in MIN_VISIBLE_COLUMNS .. VGA_WIDTH /\ o.rows \in MIN_VISIBLE_ROWS .. VGA_HEIGHT
      /\ o.x \in Nat /\ o.y \in Nat
      /\ o.x + (o.columns * FONT_WIDTH + padding_w) <= ScreenWidth
      /\ o.y + (o.rows * FONT_HEIGHT + padding_h) <= ScreenHeight
  BY <1>2, WindowsAssumption DEF Fits, Window, frame_width, frame_height
<1>5. ~("left" \in held /\ "right" \in held) /\ ~("top" \in held /\ "bottom" \in held)
  BY <1>1 DEF ResizeOK
<1>6. x - r.cursor_x \in Int /\ y - r.cursor_y \in Int
  BY <1>1
<1>7. /\ w.x = h.at /\ w.y = v.at /\ frame_width(w) = h.cells * FONT_WIDTH + padding_w
      /\ frame_height(w) = v.cells * FONT_HEIGHT + padding_h
  BY ResizeResultOK DEF frame_width, frame_height
<1> HIDE DEF r, f, w, held
<1>8. /\ IF "left" \in held THEN h.at + (h.cells * FONT_WIDTH + padding_w) = f.x + f.width ELSE h.at = f.x
      /\ ("left" \notin held /\ "right" \notin held) \/ x = r.cursor_x => h.cells * FONT_WIDTH + padding_w = f.width
  <2> DEFINE near == "left" \in held
             far == "right" \in held
  <2>1. near \in BOOLEAN /\ far \in BOOLEAN /\ ~(near /\ far)
    BY <1>5
  <2>2. h = Resized(f.x, f.width, x - r.cursor_x, near, far, min_frame_width, ScreenWidth,
                    FONT_WIDTH, padding_w, MIN_VISIBLE_COLUMNS, VGA_WIDTH)
    BY DEF ResizedAcross, f, held
  <2> HIDE DEF near, far, h
  <2>3. /\ MIN_VISIBLE_COLUMNS \in 1 .. VGA_WIDTH /\ VGA_WIDTH \in Nat
        /\ FONT_WIDTH \in Nat \ {0} /\ ScreenWidth \in Nat
        /\ VGA_WIDTH * FONT_WIDTH + padding_w <= ScreenWidth
    BY WindowsAssumption
  <2>3a. Sized(f.x, f.width, x - r.cursor_x, near, far, min_frame_width, ScreenWidth,
                    FONT_WIDTH, padding_w, MIN_VISIBLE_COLUMNS, VGA_WIDTH)
    BY <1>3, <1>4, <1>6, <2>1, <2>3, Paddings DEF Sized, min_frame_width
  <2>3b. Anchored(f.x, f.width, near, far, ScreenWidth, FONT_WIDTH, padding_w, MIN_VISIBLE_COLUMNS, VGA_WIDTH)
    BY <1>3, <1>4, <2>1 DEF Anchored
  <2>4. /\ IF near THEN h.at + (h.cells * FONT_WIDTH + padding_w) = f.x + f.width ELSE h.at = f.x
        /\ (~near /\ ~far) \/ x - r.cursor_x = 0 => h.cells * FONT_WIDTH + padding_w = f.width
    BY <2>2, <2>3a, <2>3b, ResizedAnchors
  <2>5. QED
    BY <1>1, <2>4 DEF near, far
<1>9. /\ IF "top" \in held THEN v.at + (v.cells * FONT_HEIGHT + padding_h) = f.y + f.height ELSE v.at = f.y
      /\ ("top" \notin held /\ "bottom" \notin held) \/ y = r.cursor_y => v.cells * FONT_HEIGHT + padding_h = f.height
  <2> DEFINE near == "top" \in held
             far == "bottom" \in held
  <2>1. near \in BOOLEAN /\ far \in BOOLEAN /\ ~(near /\ far)
    BY <1>5
  <2>2. v = Resized(f.y, f.height, y - r.cursor_y, near, far, min_frame_height, ScreenHeight,
                    FONT_HEIGHT, padding_h, MIN_VISIBLE_ROWS, VGA_HEIGHT)
    BY DEF ResizedDown, f, held
  <2> HIDE DEF near, far, v
  <2>3. /\ MIN_VISIBLE_ROWS \in 1 .. VGA_HEIGHT /\ VGA_HEIGHT \in Nat
        /\ FONT_HEIGHT \in Nat \ {0} /\ ScreenHeight \in Nat
        /\ VGA_HEIGHT * FONT_HEIGHT + padding_h <= ScreenHeight
    BY WindowsAssumption
  <2>3a. Sized(f.y, f.height, y - r.cursor_y, near, far, min_frame_height, ScreenHeight,
                    FONT_HEIGHT, padding_h, MIN_VISIBLE_ROWS, VGA_HEIGHT)
    BY <1>3, <1>4, <1>6, <2>1, <2>3, Paddings DEF Sized, min_frame_height
  <2>3b. Anchored(f.y, f.height, near, far, ScreenHeight, FONT_HEIGHT, padding_h, MIN_VISIBLE_ROWS, VGA_HEIGHT)
    BY <1>3, <1>4, <2>1 DEF Anchored
  <2>4. /\ IF near THEN v.at + (v.cells * FONT_HEIGHT + padding_h) = f.y + f.height ELSE v.at = f.y
        /\ (~near /\ ~far) \/ y - r.cursor_y = 0 => v.cells * FONT_HEIGHT + padding_h = f.height
    BY <2>2, <2>3a, <2>3b, ResizedAnchors
  <2>5. QED
    BY <1>1, <2>4 DEF near, far
<1> HIDE DEF h, v
<1>10. QED
  BY <1>7, <1>8, <1>9 DEF f, held, w, r

\* update_resize, likewise.
LEMMA UpdateResize ==
  ASSUME NEW k, Good(k), Shown(k), k.resize.on, NEW x \in Int, NEW y \in Int
  PROVE  LET j == update_resize(k, x, y)
             slot == k.resize.slot
         IN  /\ \/ j = k /\ k.win[slot] = ResizeResult(k, x, y)
                \/ Changed(j, k, slot, ResizeResult(k, x, y)) /\ k.win[slot] # ResizeResult(k, x, y)
             /\ Settled(j, x, y)
<1> DEFINE slot == k.resize.slot
           w == ResizeResult(k, x, y)
           j == update_resize(k, x, y)
<1>1. MayBecome(k, slot, w)
  BY ResizeResultOK
<1>2. window_slot_valid(k, slot)
  BY <1>1, SlotValid DEF MayBecome
<1>3. \/ j = k /\ k.win[slot] = w
      \/ Changed(j, k, slot, w) /\ k.win[slot] # w
  <2>1. CASE w = k.win[slot]
    BY <1>2, <2>1 DEF update_resize
  <2>2. CASE w # k.win[slot]
    BY <1>1, <1>2, <2>2, ReplacedAndDrawn DEF update_resize
  <2>3. QED
    BY <2>1, <2>2
<1> HIDE DEF w, j
<1>4. j.drag = k.drag /\ j.win[slot] = w /\ j.resize = k.resize
  BY <1>3 DEF Changed
<1>5. ResizeResult(j, x, y) = w
  BY <1>4, ResizeResultOK DEF w
<1>6. Settled(j, x, y)
  BY <1>4, <1>5 DEF Settled, Good, Held
<1>7. QED
  BY <1>3, <1>6 DEF w, j

-----------------------------------------------------------------------------
(* The foreground                                                          *)

\* Everything but who has the foreground, who had it and who lives.
Relabelled(m, k) ==
    /\ m.win = k.win /\ m.count = k.count /\ m.z = k.z /\ m.active = k.active
    /\ m.drag = k.drag /\ m.resize = k.resize
    /\ m.picture = k.picture /\ m.residue = k.residue /\ m.on_top = k.on_top
    /\ m.ghost = k.ghost /\ m.cursor_drawn = k.cursor_drawn

LEMMA RelabelledMeans ==
  ASSUME NEW m \in Desk, NEW k, Good(k), Relabelled(m, k), Len(m.stack) <= MAX_PROCESSES
  PROVE  /\ Good(m) /\ Used(m) = Used(k) /\ Owners(m) = Owners(k)
         /\ Shown(k) => Shown(m)
<1>1. Used(m) = Used(k) /\ Owners(m) = Owners(k)
  BY DEF Relabelled, Used, Owners
<1>2. Exact(m)
  BY <1>1 DEF Good, Relabelled, Exact
<1>3. AllFit(m)
  BY <1>1 DEF Good, Relabelled, AllFit
<1>4. Held(m)
  BY <1>1 DEF Good, Relabelled, Held
<1>5. Shown(k) => Shown(m)
  BY <1>1 DEF Relabelled, Shown
<1>6. QED
  BY <1>1, <1>2, <1>3, <1>4, <1>5 DEF Good

\* What a change of the foreground does not touch.
Refocused(j, k) ==
    /\ Good(j) /\ Used(j) = Used(k) /\ Owners(j) = Owners(k)
    /\ j.win = k.win /\ j.drag = k.drag /\ j.resize = k.resize
    /\ j.alive = k.alive /\ j.ghost = k.ghost
    /\ k.cursor_drawn => j.cursor_drawn
    /\ Shown(k) => Shown(j)

LEMMA RefocusedTwice ==
  ASSUME NEW j, NEW m, NEW k, Refocused(j, m), Refocused(m, k)
  PROVE  Refocused(j, k)
<1>1. (k.cursor_drawn => j.cursor_drawn) /\ (Shown(k) => Shown(j))
  BY DEF Refocused
<1>2. QED
  BY <1>1 DEF Refocused

\* switch_foreground: the window of the new foreground process, if it has one, is
\* the active one.
LEMMA SwitchForeground ==
  ASSUME NEW k, Good(k), NEW next \in Process \cup {NULL}
  PROVE  LET j == switch_foreground(k, next)
         IN  /\ Refocused(j, k) /\ Agrees(j) /\ j.foreground = next
             /\ \A s \in Used(j) : j.win[s].owner = next => j.active = s /\ Last(j.z) = s
<1> DEFINE m == [k EXCEPT !.foreground = next]
           j == switch_foreground(k, next)
<1>1. k \in Desk /\ Len(k.stack) <= MAX_PROCESSES
  BY DEF Good
<1>2. /\ m \in Desk /\ m.foreground = next /\ m.stack = k.stack /\ m.alive = k.alive
  BY <1>1 DEF Desk
<1>3. Relabelled(m, k)
  BY <1>1 DEF Desk, Relabelled
<1> HIDE DEF m
<1>4. /\ Good(m) /\ Used(m) = Used(k) /\ Owners(m) = Owners(k) /\ (Shown(k) => Shown(m))
  BY <1>1, <1>2, <1>3, RelabelledMeans
<1>5. j = activate_process(m, next)
  BY DEF switch_foreground, m
<1>6. /\ Good(j) /\ SameButOrder(j, m) /\ (m.cursor_drawn => j.cursor_drawn)
      /\ \A s \in Used(j) : j.win[s].owner = next => j.active = s /\ Last(j.z) = s
      /\ Shown(m) => Shown(j)
  BY <1>4, <1>5, ActivateProcess
<1> HIDE DEF j
<1>7. Used(j) = Used(m) /\ Owners(j) = Owners(m)
  BY <1>6 DEF SameButOrder, Used, Owners
<1>8. k.cursor_drawn => j.cursor_drawn
  BY <1>3, <1>6 DEF Relabelled
<1>9. j.win = k.win /\ j.drag = k.drag /\ j.resize = k.resize /\ j.alive = k.alive /\ j.ghost = k.ghost
      /\ j.foreground = next
  BY <1>2, <1>3, <1>6 DEF SameButOrder, Relabelled
<1>10. Agrees(j)
  BY <1>6, <1>9 DEF Agrees
<1>11. QED
  BY <1>4, <1>6, <1>7, <1>8, <1>9, <1>10 DEF Refocused, j

\* The earlier foreground process is remembered as long as there is room.
LEMMA Remember ==
  ASSUME NEW k, Good(k)
  PROVE  LET m == RememberForeground(k)
         IN  Refocused(m, k) /\ Relabelled(m, k) /\ m.foreground = k.foreground
<1> DEFINE m == RememberForeground(k)
<1>1. k \in Desk /\ Len(k.stack) <= MAX_PROCESSES /\ k.stack \in Seq(Process)
      /\ k.foreground \in Process \cup {NULL}
  BY DEF Good, Desk
<1>2. CASE k.foreground # NULL /\ Len(k.stack) < MAX_PROCESSES
  <2> DEFINE s == Append(k.stack, k.foreground)
  <2>1. s \in Seq(Process) /\ Len(s) = Len(k.stack) + 1
    BY <1>1, <1>2
  <2>2. m = [k EXCEPT !.stack = s]
    BY <1>2 DEF RememberForeground
  <2> HIDE DEF s, m
  <2>3. m \in Desk /\ m.stack = s /\ m.alive = k.alive /\ m.foreground = k.foreground
    BY <1>1, <2>1, <2>2 DEF Desk
  <2>4. Relabelled(m, k)
    BY <1>1, <2>2 DEF Desk, Relabelled
  <2>5. Len(m.stack) <= MAX_PROCESSES
    BY <1>1, <1>2, <2>1, <2>3, WindowsAssumption
  <2>6. /\ Good(m) /\ Used(m) = Used(k) /\ Owners(m) = Owners(k) /\ (Shown(k) => Shown(m))
    BY <2>3, <2>4, <2>5, RelabelledMeans
  <2>7. Refocused(m, k)
    BY <2>3, <2>4, <2>6 DEF Refocused, Relabelled
  <2>8. QED
    BY <2>3, <2>4, <2>7 DEF m
<1>3. CASE ~(k.foreground # NULL /\ Len(k.stack) < MAX_PROCESSES)
  <2>1. m = k
    BY <1>3 DEF RememberForeground
  <2>2. QED
    BY <2>1 DEF Refocused, Relabelled
<1>4. QED
  BY <1>2, <1>3

LEMMA SetForeground ==
  ASSUME NEW k, Good(k), NEW p \in Process \cup {NULL}
  PROVE  LET j == scheduler_set_foreground(k, p)
         IN  /\ Refocused(j, k) /\ j.foreground = p
             /\ k.foreground # p => Agrees(j)
             /\ k.foreground # p => \A s \in Used(j) :
                    j.win[s].owner = p => j.active = s /\ Last(j.z) = s
<1> DEFINE m == RememberForeground(k)
           j == scheduler_set_foreground(k, p)
<1>1. CASE k.foreground = p
  <2>1. j = k
    BY <1>1 DEF scheduler_set_foreground
  <2>2. QED
    BY <1>1, <2>1 DEF Refocused
<1>2. CASE k.foreground # p
  <2>1. j = switch_foreground(m, p)
    BY <1>2 DEF scheduler_set_foreground
  <2>2. Refocused(m, k)
    BY Remember
  <2> HIDE DEF m, j
  <2>3. /\ Refocused(j, m) /\ Agrees(j) /\ j.foreground = p
        /\ \A s \in Used(j) : j.win[s].owner = p => j.active = s /\ Last(j.z) = s
    BY <2>1, <2>2, SwitchForeground DEF Refocused
  <2>4. QED
    BY <2>2, <2>3, RefocusedTwice DEF j
<1>3. QED
  BY <1>1, <1>2

\* scheduler_restore_foreground: the process that had the foreground before gets
\* it back together with its window.
LEMMA RestoreForeground ==
  ASSUME NEW k, Good(k), NEW p
  PROVE  LET j == scheduler_restore_foreground(k, p)
         IN  /\ Refocused(j, k)
             /\ Agrees(k) \/ p = k.foreground => Agrees(j)
<1> DEFINE j == scheduler_restore_foreground(k, p)
           m == [k EXCEPT !.stack = Front(@)]
<1>1. k \in Desk /\ Len(k.stack) <= MAX_PROCESSES /\ k.stack \in Seq(Process)
  BY DEF Good, Desk
<1>2. CASE p # k.foreground
  <2>1. j = k
    BY <1>2 DEF scheduler_restore_foreground
  <2>2. QED
    BY <1>2, <2>1 DEF Refocused
<1>3. CASE p = k.foreground /\ k.stack = << >>
  <2>1. j = switch_foreground(k, NULL)
    BY <1>3 DEF scheduler_restore_foreground
  <2> HIDE DEF j
  <2>2. Refocused(j, k) /\ Agrees(j)
    BY <2>1, SwitchForeground
  <2>3. QED
    BY <2>2 DEF j
<1>4. CASE p = k.foreground /\ k.stack # << >>
  <2>1. j = switch_foreground(m, Last(k.stack))
    BY <1>4 DEF scheduler_restore_foreground
  <2>2. /\ Last(k.stack) \in Process /\ Front(k.stack) \in Seq(Process)
        /\ Len(Front(k.stack)) <= Len(k.stack)
    BY <1>1, <1>4 DEF Last, Front
  <2>3. m = [k EXCEPT !.stack = Front(k.stack)]
    OBVIOUS
  <2> HIDE DEF m, j
  <2>4. m \in Desk /\ m.stack = Front(k.stack) /\ m.alive = k.alive
    BY <1>1, <2>2, <2>3 DEF Desk
  <2>5. Relabelled(m, k)
    BY <1>1, <2>3 DEF Desk, Relabelled
  <2>6. Len(m.stack) <= MAX_PROCESSES
    BY <1>1, <2>2, <2>4, WindowsAssumption
  <2>7. /\ Good(m) /\ Used(m) = Used(k) /\ Owners(m) = Owners(k) /\ (Shown(k) => Shown(m))
    BY <2>4, <2>5, <2>6, RelabelledMeans
  <2>8. Refocused(m, k)
    BY <2>4, <2>5, <2>7 DEF Refocused, Relabelled
  <2>9. Refocused(j, m) /\ Agrees(j)
    BY <2>1, <2>2, <2>7, SwitchForeground
  <2>10. QED
    BY <2>8, <2>9, RefocusedTwice DEF j
<1>5. QED
  BY <1>2, <1>3, <1>4

\* What the end of process p does to the desktop: its window goes, all others stay.
Ended(j, k, p) ==
    /\ Good(j) /\ j.alive = k.alive \ {p}
    /\ Used(j) = {s \in Used(k) : k.win[s].owner # p}
    /\ \A s \in Used(j) : j.win[s] = k.win[s]
    /\ j.drag \in {k.drag, NoGrab} /\ j.resize \in {k.resize, NoResize}

\* kill_process: the window closes before the foreground goes back, so that the
\* heir's window is on top of what is left.
LEMMA KillProcess ==
  ASSUME NEW k, Good(k), NEW p
  PROVE  LET j == kill_process(k, p)
         IN  /\ Ended(j, k, p)
             /\ k.cursor_drawn => j.cursor_drawn
             /\ j.ghost => k.ghost
             /\ Shown(k) => Shown(j)
             /\ Agrees(k) => Agrees(j)
             /\ p \in Owners(k) => Shown(j) /\ j.cursor_drawn /\ ~j.ghost
<1> DEFINE m == [k EXCEPT !.alive = @ \ {p}]
           slot == find_window_index(m, p)
           e == on_process_exit(m, p)
           j == kill_process(k, p)
<1>1. k \in Desk /\ Len(k.stack) <= MAX_PROCESSES
  BY DEF Good
<1>2. m \in Desk /\ m.stack = k.stack /\ m.alive = k.alive \ {p} /\ m.foreground = k.foreground
  <2>1. k.alive \ {p} \in SUBSET Process
    BY <1>1 DEF Desk
  <2>2. m = [k EXCEPT !.alive = k.alive \ {p}]
    OBVIOUS
  <2> HIDE DEF m
  <2>3. QED
    BY <1>1, <2>1, <2>2 DEF Desk
<1>3. Relabelled(m, k)
  BY <1>1 DEF Desk, Relabelled
<1>4. j = scheduler_restore_foreground(e, p) /\ e = close_window_slot(m, slot)
  BY DEF kill_process, on_process_exit
<1> HIDE DEF m, j, e
<1>5. /\ Good(m) /\ Used(m) = Used(k) /\ Owners(m) = Owners(k) /\ (Shown(k) => Shown(m)) /\ Exact(m)
  BY <1>1, <1>2, <1>3, RelabelledMeans DEF Good
<1>6. Agrees(k) => Agrees(m)
  BY <1>2, <1>3, <1>5 DEF Agrees, Relabelled
<1>7. /\ Good(e) /\ e.alive = m.alive /\ e.foreground = m.foreground
      /\ Used(e) = {s \in Used(k) : k.win[s].owner # p}
      /\ \A s \in Used(e) : e.win[s] = k.win[s]
      /\ e.drag \in {k.drag, NoGrab} /\ e.resize \in {k.resize, NoResize}
      /\ (k.cursor_drawn => e.cursor_drawn) /\ (e.ghost => k.ghost) /\ (Shown(k) => Shown(e))
      /\ \A s \in Used(e) : m.active = s => e.active = s
      /\ p \in Owners(k) => Shown(e) /\ e.cursor_drawn /\ ~e.ghost
  <2>1. CASE p \notin Owners(k)
    <3>1. slot = INVALID_SLOT
      BY <1>5, <2>1, FindWindow
    <3>2. ~window_slot_valid(m, slot)
      BY <3>1, WindowsAssumption DEF window_slot_valid, INVALID_SLOT, Slot
    <3>3. e = m
      BY <1>4, <3>2 DEF close_window_slot
    <3>4. Used(k) = {s \in Used(k) : k.win[s].owner # p}
      BY <2>1 DEF Owners
    <3>5. e.ghost = k.ghost /\ e.cursor_drawn = k.cursor_drawn
      BY <1>3, <3>3 DEF Relabelled
    <3>6. e.win = k.win /\ e.drag = k.drag /\ e.resize = k.resize
      BY <1>3, <3>3 DEF Relabelled
    <3>7. QED
      BY <1>5, <2>1, <3>3, <3>4, <3>5, <3>6
  <2>2. CASE p \in Owners(k)
    <3>1. slot \in Used(m) /\ m.win[slot].owner = p /\ \A s \in Used(m) : m.win[s].owner = p => slot = s
      BY <1>5, <2>2, FindWindow
    <3> HIDE DEF slot
    <3>2. /\ Good(e) /\ Shown(e) /\ e.ghost = FALSE /\ e.cursor_drawn = TRUE
          /\ Used(e) = Used(m) \ {slot} /\ \A s \in Used(e) : e.win[s] = m.win[s]
          /\ e.foreground = m.foreground /\ e.stack = m.stack /\ e.alive = m.alive
          /\ e.drag \in {m.drag, NoGrab} /\ e.resize \in {m.resize, NoResize}
          /\ m.active # slot => e.active = m.active
      BY <1>4, <1>5, <3>1, CloseWindow
    <3>3. m.win = k.win /\ m.drag = k.drag /\ m.resize = k.resize
      BY <1>3 DEF Relabelled
    <3>4. Used(e) = {s \in Used(k) : k.win[s].owner # p}
      BY <1>5, <3>1, <3>2, <3>3
    <3>5. \A s \in Used(e) : m.active = s => e.active = s
      BY <3>2
    <3>6. (k.cursor_drawn => e.cursor_drawn) /\ (e.ghost => k.ghost) /\ Shown(e) /\ e.cursor_drawn /\ ~e.ghost
      BY <3>2
    <3>7. QED
      BY <3>2, <3>3, <3>4, <3>5, <3>6
  <2>3. QED
    BY <2>1, <2>2
<1>8. Refocused(j, e) /\ (Agrees(e) \/ p = e.foreground => Agrees(j))
  BY <1>4, <1>7, RestoreForeground
<1>9. Ended(j, k, p)
  BY <1>2, <1>7, <1>8 DEF Ended, Refocused
<1>10. Agrees(k) => Agrees(j)
  <2> SUFFICES ASSUME Agrees(k), p # e.foreground PROVE Agrees(e)
    BY <1>8
  <2>1. m.win = k.win
    BY <1>3 DEF Relabelled
  <2>2. QED
    BY <1>5, <1>6, <1>7, <2>1 DEF Agrees
<1>11. (k.cursor_drawn => j.cursor_drawn) /\ (j.ghost => k.ghost) /\ (Shown(k) => Shown(j))
       /\ (p \in Owners(k) => Shown(j) /\ j.cursor_drawn /\ ~j.ghost)
  BY <1>7, <1>8 DEF Refocused
<1>12. QED
  BY <1>9, <1>10, <1>11 DEF j

\* A window that a program moves stays on the screen (the whole desktop is drawn
\* anew afterwards).
LEMMA MoveOrigin ==
  ASSUME NEW k, Good(k), NEW p, NEW x \in Int, NEW y \in Int
  PROVE  LET j == set_active_window_origin(k, p, x, y)
         IN  /\ Good(j) /\ Used(j) = Used(k) /\ Owners(j) = Owners(k)
             /\ \A s \in Used(k) : j.win[s].owner = k.win[s].owner
             /\ \A s \in Used(k) \ {find_window_index(k, p)} : j.win[s] = k.win[s]
             /\ j.active = k.active /\ j.drag = k.drag /\ j.resize = k.resize
             /\ j.foreground = k.foreground /\ j.alive = k.alive
<1> DEFINE slot == find_window_index(k, p)
           a == AtLeastZero(x - (FRAME_BORDER + CONTENT_PADDING_X))
           b == AtLeastZero(y - (FRAME_BORDER + TITLE_BAR_HEIGHT))
           w == MovedTo(k.win[slot], a, b)
           m == [k EXCEPT !.win[slot] = w]
           j == set_active_window_origin(k, p, x, y)
<1>1. k \in Desk /\ AllFit(k)
  BY DEF Good
<1>2. CASE p \notin Owners(k)
  <2>1. slot = INVALID_SLOT
    BY <1>2, FindWindow
  <2>2. j = k
    BY <2>1 DEF set_active_window_origin
  <2>3. QED
    BY <2>2
<1>3. CASE p \in Owners(k)
  <2>1. slot \in Used(k) /\ slot # INVALID_SLOT
    BY <1>3, FindWindow
  <2>2. j = draw_windows(m)
    BY <2>1 DEF set_active_window_origin
  <2>3. a \in Nat /\ b \in Nat
    BY WindowsAssumption DEF AtLeastZero, Most
  <2> HIDE DEF j, slot, a, b
  <2>4. k.win[slot] \in Window /\ Fits(k.win[slot]) /\ slot \in Slot /\ k.win \in [Slot -> Window]
    BY <1>1, <2>1 DEF Desk, AllFit, Used
  <2>5. MayBecome(k, slot, w)
    BY <2>1, <2>3, <2>4, MovedFits DEF MayBecome, Fits
  <2> HIDE DEF w
  <2>6. m = [k EXCEPT !.win = [k.win EXCEPT ![slot] = w]]
    OBVIOUS
  <2>7. [k.win EXCEPT ![slot] = w] \in [Slot -> Window]
    BY <2>4, <2>5 DEF MayBecome
  <2> HIDE DEF m
  <2>8. m \in Desk /\ Replaced(m, k, slot, w) /\ m.foreground = k.foreground /\ m.alive = k.alive
    BY <1>1, <2>6, <2>7 DEF Desk, Replaced
  <2>9. /\ Good(m) /\ Used(m) = Used(k) /\ Owners(m) = Owners(k)
        /\ \A s \in Slot \ {slot} : m.win[s] = k.win[s]
        /\ \A s \in Used(k) : m.win[s].owner = k.win[s].owner
    BY <2>5, <2>8, ReplaceWindow
  <2>10. j \in Desk /\ Same(j, m)
    BY <2>2, <2>8, <2>9, DrawWindows DEF Good
  <2>11. Good(j) /\ Used(j) = Used(m) /\ Owners(j) = Owners(m)
    BY <2>9, <2>10, SameGood, SameMeans
  <2>12. \A s \in Used(k) \ {slot} : m.win[s] = k.win[s]
    BY <2>9 DEF Used
  <2>13. QED
    BY <2>8, <2>9, <2>10, <2>11, <2>12 DEF Same, Replaced, j, slot
<1>4. QED
  BY <1>2, <1>3

-----------------------------------------------------------------------------
(* The mouse                                                               *)

\* hit_test_window finds the topmost window under the mouse.
LEMMA HitTest ==
  ASSUME NEW k, Good(k), NEW x, NEW y
  PROVE  LET slot == hit_test_window(k, x, y)
         IN  /\ slot \in Used(k) \/ slot = INVALID_SLOT
             /\ slot \in Used(k) => slot # INVALID_SLOT /\ Inside(k.win[slot], x, y)
             /\ \A i \in DOMAIN k.z :
                  /\ Inside(k.win[k.z[i]], x, y)
                  /\ \A j \in DOMAIN k.z : j > i => ~Inside(k.win[k.z[j]], x, y)
                  => slot = k.z[i]
<1> DEFINE In(s) == Inside(k.win[s], x, y)
           hits == {i \in DOMAIN k.z : window_slot_valid(k, k.z[i]) /\ In(k.z[i])}
           top == CHOOSE i \in hits : \A j \in hits : j <= i
           slot == hit_test_window(k, x, y)
           first == k.z # << >> /\ window_slot_valid(k, k.active) /\ In(k.active)
<1>1. k.z \in Seq(Slot) /\ ToSet(k.z) = Used(k) /\ k.active = Top(k.z)
  BY DEF Good, Exact, Desk
<1>2. slot = IF first THEN k.active ELSE IF hits = {} THEN INVALID_SLOT ELSE k.z[top]
  BY DEF hit_test_window
<1> HIDE DEF slot, In
<1>3. \A i \in DOMAIN k.z : k.z[i] \in Used(k)
  BY <1>1 DEF ToSet
<1>4. INVALID_SLOT \notin Used(k)
  BY WindowsAssumption DEF Used, Slot, INVALID_SLOT
<1>5. hits = {i \in DOMAIN k.z : In(k.z[i])} /\ hits \in SUBSET (1 .. Len(k.z)) /\ Len(k.z) \in Nat
  BY <1>1, <1>3, SlotValid
<1> HIDE DEF hits
<1>6. CASE first
  <2>1. Len(k.z) \in DOMAIN k.z /\ k.active = k.z[Len(k.z)]
    BY <1>1, <1>6 DEF Top, Last
  <2>2. slot = k.z[Len(k.z)] /\ slot \in Used(k) /\ In(slot)
    BY <1>2, <1>3, <1>6, <2>1
  <2>3. \A i \in DOMAIN k.z : i # Len(k.z) => Len(k.z) > i
    BY <1>1
  <2>4. \A i \in DOMAIN k.z : In(k.z[i]) /\ (\A j \in DOMAIN k.z : j > i => ~In(k.z[j])) => slot = k.z[i]
    BY <2>1, <2>2, <2>3
  <2>5. QED
    BY <1>4, <2>2, <2>4 DEF slot, In
<1>7. CASE ~first /\ hits = {}
  BY <1>2, <1>4, <1>5, <1>7 DEF slot, In
<1>8. CASE ~first /\ hits # {}
  <2>1. \E i \in hits : \A j \in hits : j <= i
    BY <1>5, <1>8, GreatestExists
  <2>2. top \in hits /\ \A j \in hits : j <= top
    BY <2>1
  <2> HIDE DEF top
  <2>3. slot = k.z[top] /\ slot \in Used(k) /\ In(slot)
    BY <1>2, <1>3, <1>5, <1>8, <2>2
  <2>4. ASSUME NEW i \in DOMAIN k.z, In(k.z[i]), \A j \in DOMAIN k.z : j > i => ~In(k.z[j])
        PROVE  slot = k.z[i]
    <3>1. i \in hits /\ top \in DOMAIN k.z /\ In(k.z[top])
      BY <1>5, <2>2, <2>4
    <3>2. i <= top /\ ~(top > i) /\ i \in Int /\ top \in Int
      BY <1>5, <2>2, <2>4, <3>1
    <3>3. i = top
      BY <3>2
    <3>4. QED
      BY <2>3, <3>3
  <2>5. QED
    BY <1>4, <2>3, <2>4 DEF slot, In
<1>9. QED
  BY <1>6, <1>7, <1>8

\* A press focuses the window it hits: its owner has the foreground and it is on
\* top.
LEMMA FocusOnPress ==
  ASSUME NEW k, Good(k), NEW slot \in Used(k)
  PROVE  LET f == Focused(k, slot)
         IN  /\ Refocused(f, k) /\ Agrees(f)
             /\ f.foreground = k.win[slot].owner /\ f.active = slot /\ Last(f.z) = slot
<1> DEFINE p == k.win[slot].owner
           f == Focused(k, slot)
<1>1. k \in Desk /\ Exact(k) /\ p \in Process \cup {NULL}
  BY DEF Good, Desk, Window, Used
<1>2. CASE k.foreground # p
  <2>1. f = scheduler_set_foreground(k, p)
    BY <1>2 DEF Focused
  <2> HIDE DEF f
  <2>2. /\ Refocused(f, k) /\ f.foreground = p /\ Agrees(f)
        /\ \A s \in Used(f) : f.win[s].owner = p => f.active = s /\ Last(f.z) = s
    BY <1>1, <1>2, <2>1, SetForeground
  <2>3. slot \in Used(f) /\ f.win[slot].owner = p
    BY <2>2 DEF Refocused
  <2>4. QED
    BY <2>2, <2>3 DEF f
<1>3. CASE k.foreground = p
  <2>1. f = focus_window(k, slot)
    BY <1>3 DEF Focused
  <2>2. Opening(k, slot)
    BY <1>1 DEF Exact, Opening
  <2> HIDE DEF f
  <2>3. /\ f \in Desk /\ Exact(f) /\ f.active = slot /\ Last(f.z) = slot /\ SameButOrder(f, k)
    BY <1>1, <2>1, <2>2, FocusWindow DEF SameButOrder
  <2>4. (Shown(k) => Shown(f)) /\ (k.cursor_drawn => f.cursor_drawn)
    BY <1>1, <2>1, <2>2, FocusWindow, ShownIsReady
  <2>5. Good(f) /\ Used(f) = Used(k) /\ Owners(f) = Owners(k)
    BY <2>3, ReorderedMeans
  <2>6. Refocused(f, k)
    BY <2>3, <2>4, <2>5 DEF Refocused, SameButOrder
  <2>7. f.foreground = p /\ f.win = k.win
    BY <1>3, <2>3 DEF SameButOrder
  <2>8. Agrees(f)
    BY <1>1, <2>3, <2>5, <2>7 DEF Agrees, Exact
  <2>9. QED
    BY <2>3, <2>6, <2>7, <2>8 DEF f
<1>4. QED
  BY <1>2, <1>3

\* A frame is wide enough for the mouse never to be at two opposite edges.
LEMMA EdgesLegal ==
  ASSUME NEW w \in Window, Fits(w), NEW x \in Int, NEW y \in Int
  PROVE  LET e == ResizeEdges(w, x, y)
         IN  /\ e \in SUBSET Edge
             /\ ~({"left", "right"} \subseteq e) /\ ~({"top", "bottom"} \subseteq e)
<1> DEFINE e == ResizeEdges(w, x, y)
<1>1. frame_width(w) \in Int /\ frame_height(w) \in Int /\ w.x \in Int /\ w.y \in Int
  BY FrameSize, WindowsAssumption DEF Window
<1>2. frame_width(w) >= min_frame_width /\ frame_height(w) >= min_frame_height
  BY FrameSize DEF Fits
<1>2a. min_frame_width \in Int /\ min_frame_height \in Int
  BY WindowsAssumption, Paddings DEF min_frame_width, min_frame_height
<1>3. 2 * RESIZE_MARGIN <= frame_width(w) /\ 2 * RESIZE_MARGIN <= frame_height(w) /\ RESIZE_MARGIN \in Nat
  BY <1>1, <1>2, <1>2a, WindowsAssumption
<1>4. ~("left" \in e /\ "right" \in e)
  BY <1>1, <1>3 DEF ResizeEdges
<1>5. ~("top" \in e /\ "bottom" \in e)
  BY <1>1, <1>3 DEF ResizeEdges
<1>6. e \in SUBSET Edge
  BY DEF ResizeEdges
<1>7. QED
  BY <1>4, <1>5, <1>6

\* Everything but what the mouse holds.
Grabbed(m, k) ==
    /\ m.win = k.win /\ m.count = k.count /\ m.z = k.z /\ m.active = k.active
    /\ m.foreground = k.foreground /\ m.stack = k.stack /\ m.alive = k.alive
    /\ m.picture = k.picture /\ m.residue = k.residue /\ m.on_top = k.on_top
    /\ m.ghost = k.ghost /\ m.cursor_drawn = k.cursor_drawn

LEMMA GrabbedMeans ==
  ASSUME NEW m \in Desk, NEW k, Good(k), Grabbed(m, k), Held(m)
  PROVE  /\ Good(m) /\ Used(m) = Used(k) /\ Owners(m) = Owners(k)
         /\ Shown(k) => Shown(m)
         /\ Agrees(k) => Agrees(m)
<1>1. Used(m) = Used(k) /\ Owners(m) = Owners(k)
  BY DEF Grabbed, Used, Owners
<1>2. Exact(m)
  BY <1>1 DEF Good, Grabbed, Exact
<1>3. AllFit(m)
  BY <1>1 DEF Good, Grabbed, AllFit
<1>4. Shown(k) => Shown(m)
  BY <1>1 DEF Grabbed, Shown
<1>5. Agrees(k) => Agrees(m)
  BY <1>1 DEF Grabbed, Agrees
<1>6. Len(m.stack) <= MAX_PROCESSES
  BY DEF Good, Grabbed
<1>7. QED
  BY <1>1, <1>2, <1>3, <1>4, <1>5, <1>6 DEF Good

\* The types of the two grabs.
LEMMA NoGrabs ==
  /\ NoGrab \in [on : BOOLEAN, slot : Slot \cup {INVALID_SLOT}, dx : Int, dy : Int] /\ ~NoGrab.on
  /\ NoResize \in [on : BOOLEAN, slot : Slot \cup {INVALID_SLOT}, edges : SUBSET Edge,
                   cursor_x : Int, cursor_y : Int, frame : Frame] /\ ~NoResize.on
<1>1. NoGrab \in [on : BOOLEAN, slot : Slot \cup {INVALID_SLOT}, dx : Int, dy : Int] /\ ~NoGrab.on
  BY DEF NoGrab
<1>2. NoResize \in [on : BOOLEAN, slot : Slot \cup {INVALID_SLOT}, edges : SUBSET Edge,
                    cursor_x : Int, cursor_y : Int, frame : Frame] /\ ~NoResize.on
  BY DEF NoResize, Blank, Frame
<1>3. QED
  BY <1>1, <1>2

\* stop_dragging and stop_resizing
LEMMA LetGo ==
  ASSUME NEW k, Good(k)
  PROVE  LET m == stop_resizing(stop_dragging(k))
         IN  /\ Good(m) /\ Grabbed(m, k) /\ ~m.drag.on /\ ~m.resize.on
             /\ m.drag = NoGrab /\ m.resize = NoResize
             /\ Used(m) = Used(k) /\ Owners(m) = Owners(k)
             /\ Shown(k) => Shown(m)
             /\ Agrees(k) => Agrees(m)
<1> DEFINE a == stop_dragging(k)
           m == stop_resizing(a)
<1>1. k \in Desk
  BY DEF Good
<1>2. a = [k EXCEPT !.drag = NoGrab]
  BY DEF stop_dragging
<1>3. m = [a EXCEPT !.resize = NoResize]
  BY DEF stop_resizing
<1> HIDE DEF a, m
<1>4. a \in Desk /\ a.drag = NoGrab
  BY <1>1, <1>2, NoGrabs DEF Desk
<1>5. Grabbed(a, k)
  BY <1>1, <1>2 DEF Desk, Grabbed
<1>6. m \in Desk /\ m.drag = NoGrab /\ m.resize = NoResize
  BY <1>3, <1>4, NoGrabs DEF Desk
<1>7. Grabbed(m, a)
  BY <1>3, <1>4 DEF Desk, Grabbed
<1>8. Grabbed(m, k)
  BY <1>5, <1>7 DEF Grabbed
<1>9. ~m.drag.on /\ ~m.resize.on
  BY <1>6, NoGrabs
<1>10. Held(m)
  BY <1>9 DEF Held
<1>11. QED
  BY <1>6, <1>8, <1>9, <1>10, GrabbedMeans DEF m, a

\* A number of cells follows from their size.
LEMMA SizeGivesCells ==
  ASSUME NEW a \in Nat, NEW b \in Nat, NEW c \in Nat \ {0}, NEW d \in Nat, a * c + d = b * c + d
  PROVE  a = b
<1>1. a * c \in Nat /\ b * c \in Nat
  BY ProductMonotonic
<1>2. a * c = b * c
  BY <1>1
<1>3. ASSUME a < b PROVE FALSE
  <2>1. (a + 1) * c <= b * c
    BY <1>3, ProductMonotonic
  <2>2. (a + 1) * c = a * c + c
    OBVIOUS
  <2>3. QED
    BY <1>1, <1>2, <2>1, <2>2
<1>4. ASSUME b < a PROVE FALSE
  <2>1. (b + 1) * c <= a * c
    BY <1>4, ProductMonotonic
  <2>2. (b + 1) * c = b * c + c
    OBVIOUS
  <2>3. QED
    BY <1>1, <1>2, <2>1, <2>2
<1>5. QED
  BY <1>3, <1>4

\* A resizing that just began leaves the window as it is.
LEMMA ResizeBegins ==
  ASSUME NEW k, Good(k), k.resize.on,
         k.resize.frame = FrameOf(k.win[k.resize.slot])
  PROVE  ResizeResult(k, k.resize.cursor_x, k.resize.cursor_y) = k.win[k.resize.slot]
<1> DEFINE slot == k.resize.slot
           o == k.win[slot]
           f == k.resize.frame
           x == k.resize.cursor_x
           y == k.resize.cursor_y
           w == ResizeResult(k, x, y)
<1>1. k \in Desk /\ slot \in Used(k) /\ slot \in Slot
  BY DEF Good, Held, Used
<1>2. o \in Window /\ x \in Int /\ y \in Int
  BY <1>1 DEF Desk
<1> HIDE DEF o
<1>3. f.x = o.x /\ f.y = o.y /\ f.width = frame_width(o) /\ f.height = frame_height(o)
  BY DEF FrameOf, o
<1>4. MayBecome(k, slot, w)
  BY <1>2, ResizeResultOK
<1>5. /\ "left" \in k.resize.edges => w.x + frame_width(w) = f.x + f.width
      /\ "left" \notin k.resize.edges => w.x = f.x
      /\ "top" \in k.resize.edges => w.y + frame_height(w) = f.y + f.height
      /\ "top" \notin k.resize.edges => w.y = f.y
      /\ frame_width(w) = f.width /\ frame_height(w) = f.height
  BY <1>2, ResizeResultAnchors
<1> HIDE DEF w
<1>6. w \in Window /\ w.in_use = o.in_use /\ w.owner = o.owner
  BY <1>4 DEF MayBecome, o
<1> HIDE DEF f
<1>7. /\ frame_width(w) \in Int /\ frame_height(w) \in Int
      /\ frame_width(o) \in Int /\ frame_height(o) \in Int
      /\ w.x \in Int /\ w.y \in Int /\ o.x \in Int /\ o.y \in Int
  BY <1>2, <1>6, FrameSize, WindowsAssumption DEF Window
<1>8. w.x = o.x /\ w.y = o.y /\ frame_width(w) = frame_width(o) /\ frame_height(w) = frame_height(o)
  <2>1. frame_width(w) = frame_width(o) /\ frame_height(w) = frame_height(o)
    BY <1>3, <1>5
  <2> DEFINE wx == w.x
             ox == o.x
             wy == w.y
             oy == o.y
             fw == frame_width(o)
             fh == frame_height(o)
  <2>1a. wx \in Int /\ ox \in Int /\ fw \in Int /\ (wx = ox \/ wx + fw = ox + fw)
    BY <1>3, <1>5, <1>7, <2>1
  <2>1b. wy \in Int /\ oy \in Int /\ fh \in Int /\ (wy = oy \/ wy + fh = oy + fh)
    BY <1>3, <1>5, <1>7, <2>1
  <2> HIDE DEF wx, ox, wy, oy, fw, fh
  <2>2a. wx = ox
    BY <2>1a
  <2>3a. wy = oy
    BY <2>1b
  <2>2. w.x = o.x
    BY <2>2a DEF wx, ox
  <2>3. w.y = o.y
    BY <2>3a DEF wy, oy
  <2>4. QED
    BY <2>1, <2>2, <2>3
<1>9. w.columns \in Nat /\ o.columns \in Nat /\ w.rows \in Nat /\ o.rows \in Nat
  BY <1>2, <1>6, WindowsAssumption DEF Window
<1>9a. FONT_WIDTH \in Nat \ {0} /\ FONT_HEIGHT \in Nat \ {0} /\ padding_w \in Nat /\ padding_h \in Nat
  BY Paddings, WindowsAssumption
<1>10. w.columns = o.columns
  <2>1. w.columns * FONT_WIDTH + padding_w = o.columns * FONT_WIDTH + padding_w
    BY <1>8 DEF frame_width
  <2> DEFINE a == w.columns
             b == o.columns
  <2>2. a \in Nat /\ b \in Nat /\ a * FONT_WIDTH + padding_w = b * FONT_WIDTH + padding_w
    BY <1>9, <2>1
  <2> HIDE DEF a, b
  <2>3. a = b
    BY <1>9a, <2>2, SizeGivesCells
  <2>4. QED
    BY <2>3 DEF a, b
<1>11. w.rows = o.rows
  <2>1. w.rows * FONT_HEIGHT + padding_h = o.rows * FONT_HEIGHT + padding_h
    BY <1>8 DEF frame_height
  <2> DEFINE a == w.rows
             b == o.rows
  <2>2. a \in Nat /\ b \in Nat /\ a * FONT_HEIGHT + padding_h = b * FONT_HEIGHT + padding_h
    BY <1>9, <2>1
  <2> HIDE DEF a, b
  <2>3. a = b
    BY <1>9a, <2>2, SizeGivesCells
  <2>4. QED
    BY <2>3 DEF a, b
<1>12. w = o
  BY <1>2, <1>6, <1>8, <1>10, <1>11 DEF Window
<1>13. QED
  BY <1>12 DEF w, o

\* Likewise a drag.
LEMMA DragBegins ==
  ASSUME NEW w \in Window, Fits(w)
  PROVE  MovedTo(w, AtLeastZero(w.x), AtLeastZero(w.y)) = w
<1>1. frame_width(w) \in 0 .. ScreenWidth /\ frame_height(w) \in 0 .. ScreenHeight
  BY FrameSize
<1>2. /\ w.x \in Int /\ w.y \in Int /\ w.x >= 0 /\ w.y >= 0
      /\ w.x + frame_width(w) <= ScreenWidth /\ w.y + frame_height(w) <= ScreenHeight
  BY DEF Fits, Window
<1>3. AtLeastZero(w.x) = w.x /\ AtLeastZero(w.y) = w.y
  BY <1>2 DEF AtLeastZero, Most
<1>4. ClampedTo(w.x, frame_width(w), ScreenWidth) = w.x
  BY <1>1, <1>2, WindowsAssumption DEF ClampedTo
<1>5. ClampedTo(w.y, frame_height(w), ScreenHeight) = w.y
  BY <1>1, <1>2, WindowsAssumption DEF ClampedTo
<1>6. MovedTo(w, w.x, w.y) = [w EXCEPT !.x = w.x, !.y = w.y]
  BY <1>4, <1>5 DEF MovedTo
<1>7. [w EXCEPT !.x = w.x, !.y = w.y] = w
  BY DEF Window
<1>8. QED
  BY <1>3, <1>6, <1>7

\* The mouse holds the window in slot, and has not moved it yet.
Takes(q, f, slot, x, y) ==
    /\ Good(q) /\ Grabbed(q, f) /\ Settled(q, x, y)
    /\ Used(q) = Used(f) /\ Owners(q) = Owners(f)
    /\ Shown(f) => Shown(q)
    /\ Agrees(f) => Agrees(q)
    /\ q.drag.on => q.drag.slot = slot
    /\ q.resize.on => q.resize.slot = slot

LEMMA BeginResize ==
  ASSUME NEW f, Good(f), NEW slot \in Used(f), NEW x \in Int, NEW y \in Int
  PROVE  LET q == begin_resize(stop_dragging(f), slot, ResizeEdges(f.win[slot], x, y), x, y)
         IN  Takes(q, f, slot, x, y) /\ q.resize.on
<1> DEFINE a == stop_dragging(f)
           e == ResizeEdges(f.win[slot], x, y)
           r == [on |-> TRUE, slot |-> slot, edges |-> e,
                 cursor_x |-> x, cursor_y |-> y, frame |-> FrameOf(a.win[slot])]
           q == begin_resize(a, slot, e, x, y)
<1>1. f \in Desk /\ slot \in Slot /\ f.win[slot] \in Window /\ Fits(f.win[slot])
  BY DEF Good, Desk, Used, AllFit
<1>2. e \in SUBSET Edge /\ ~({"left", "right"} \subseteq e) /\ ~({"top", "bottom"} \subseteq e)
  BY <1>1, EdgesLegal
<1>3. a = [f EXCEPT !.drag = NoGrab]
  BY DEF stop_dragging
<1>4. q = [a EXCEPT !.resize = r]
  BY DEF begin_resize
<1> HIDE DEF a, e
<1>5. a \in Desk /\ a.drag = NoGrab /\ a.win = f.win
  BY <1>1, <1>3, NoGrabs DEF Desk
<1>6. Grabbed(a, f)
  BY <1>1, <1>3 DEF Desk, Grabbed
<1>7. FrameOf(a.win[slot]) \in Frame
  BY <1>1, <1>5, FrameSize
<1>8. /\ r \in [on : BOOLEAN, slot : Slot \cup {INVALID_SLOT}, edges : SUBSET Edge,
                cursor_x : Int, cursor_y : Int, frame : Frame]
      /\ r.slot = slot /\ r.edges = e /\ r.cursor_x = x /\ r.cursor_y = y
      /\ r.frame = FrameOf(f.win[slot])
  BY <1>1, <1>2, <1>5, <1>7
<1>9. r.on = TRUE
  OBVIOUS
<1> HIDE DEF r, q
<1>10. q \in Desk /\ q.resize = r /\ q.drag = NoGrab
  BY <1>4, <1>5, <1>8 DEF Desk
<1>11. Grabbed(q, a)
  BY <1>4, <1>5 DEF Desk, Grabbed
<1>12. Grabbed(q, f)
  BY <1>6, <1>11 DEF Grabbed
<1>13. ~q.drag.on /\ q.resize.on /\ q.resize.slot = slot /\ q.win = f.win
  BY <1>8, <1>9, <1>10, <1>12, NoGrabs DEF Grabbed
<1>14. Used(q) = Used(f)
  BY <1>13 DEF Used
<1>15. ResizeOK(q.resize)
  BY <1>1, <1>2, <1>8, <1>10 DEF ResizeOK
<1>16. Held(q)
  BY <1>13, <1>14, <1>15 DEF Held
<1>17. /\ Good(q) /\ Owners(q) = Owners(f) /\ (Shown(f) => Shown(q)) /\ (Agrees(f) => Agrees(q))
  BY <1>10, <1>12, <1>16, GrabbedMeans
<1>18. ResizeResult(q, q.resize.cursor_x, q.resize.cursor_y) = q.win[q.resize.slot]
  BY <1>8, <1>10, <1>13, <1>17, ResizeBegins
<1>19. Settled(q, x, y)
  BY <1>8, <1>10, <1>13, <1>18 DEF Settled
<1>20. QED
  BY <1>12, <1>13, <1>14, <1>17, <1>19 DEF Takes, q, a, e

LEMMA BeginDrag ==
  ASSUME NEW f, Good(f), NEW slot \in Used(f), NEW x \in Int, NEW y \in Int
  PROVE  LET w == f.win[slot]
             q == [stop_resizing(f) EXCEPT !.drag = [on |-> TRUE, slot |-> slot,
                                                     dx |-> x - w.x, dy |-> y - w.y]]
         IN  Takes(q, f, slot, x, y) /\ q.drag.on
<1> DEFINE a == stop_resizing(f)
           w == f.win[slot]
           d == [on |-> TRUE, slot |-> slot, dx |-> x - w.x, dy |-> y - w.y]
           q == [a EXCEPT !.drag = d]
<1>1. f \in Desk /\ slot \in Slot /\ w \in Window /\ Fits(w)
  BY DEF Good, Desk, Used, AllFit
<1>2. w.x \in Int /\ w.y \in Int
  BY <1>1 DEF Window
<1> HIDE DEF w
<1>3. a = [f EXCEPT !.resize = NoResize]
  BY DEF stop_resizing
<1> HIDE DEF a
<1>5. a \in Desk /\ a.resize = NoResize
  BY <1>1, <1>3, NoGrabs DEF Desk
<1>6. Grabbed(a, f)
  BY <1>1, <1>3 DEF Desk, Grabbed
<1>8. /\ d \in [on : BOOLEAN, slot : Slot \cup {INVALID_SLOT}, dx : Int, dy : Int]
      /\ d.slot = slot /\ d.dx = x - w.x /\ d.dy = y - w.y
  BY <1>1, <1>2
<1>9. d.on = TRUE
  OBVIOUS
<1>4. q = [a EXCEPT !.drag = d]
  OBVIOUS
<1> HIDE DEF d, q
<1>10. q \in Desk /\ q.drag = d /\ q.resize = NoResize
  BY <1>4, <1>5, <1>8 DEF Desk
<1>11. Grabbed(q, a)
  BY <1>4, <1>5 DEF Desk, Grabbed
<1>12. Grabbed(q, f)
  BY <1>6, <1>11 DEF Grabbed
<1>13. ~q.resize.on /\ q.drag.on /\ q.drag.slot = slot /\ q.win = f.win
  BY <1>8, <1>9, <1>10, <1>12, NoGrabs DEF Grabbed
<1>14. Used(q) = Used(f)
  BY <1>13 DEF Used
<1>16. Held(q)
  BY <1>13, <1>14 DEF Held
<1>17. /\ Good(q) /\ Owners(q) = Owners(f) /\ (Shown(f) => Shown(q)) /\ (Agrees(f) => Agrees(q))
  BY <1>10, <1>12, <1>16, GrabbedMeans
<1>18. x - (x - w.x) = w.x /\ y - (y - w.y) = w.y
  BY <1>2
<1>19. DragResult(q, x, y) = MovedTo(w, AtLeastZero(w.x), AtLeastZero(w.y))
  BY <1>8, <1>10, <1>13, <1>18 DEF DragResult, w
<1>20. Settled(q, x, y)
  BY <1>1, <1>13, <1>19, DragBegins DEF Settled, w
<1>21. QED
  BY <1>12, <1>13, <1>14, <1>17, <1>20 DEF Takes, q, a, d, w

\* A press that hits a window beside its close button: it is on top, its owner
\* has the foreground, and if anything is held it is that window.
LEMMA PressOnWindow ==
  ASSUME NEW k, Good(k), NEW x \in Int, NEW y \in Int,
         hit_test_window(k, x, y) \in Used(k)
  PROVE  LET q == Pressed(k, x, y)
             slot == hit_test_window(k, x, y)
             f == Focused(k, slot)
         IN  /\ Takes(q, f, slot, x, y)
             /\ OnTitleBar(k.win[slot], y) => q.drag.on \/ q.resize.on
<1> DEFINE slot == hit_test_window(k, x, y)
           f == Focused(k, slot)
           edges == ResizeEdges(k.win[slot], x, y)
           w == f.win[f.active]
           q == Pressed(k, x, y)
           resizing == begin_resize(stop_dragging(f), slot, edges, x, y)
           dragging == [stop_resizing(f) EXCEPT !.drag = [on |-> TRUE, slot |-> f.active,
                                                          dx |-> x - w.x, dy |-> y - w.y]]
           resting == stop_resizing(stop_dragging(f))
<1>1. slot \in Used(k) /\ slot # INVALID_SLOT
  BY HitTest
<1>2. Refocused(f, k) /\ f.active = slot
  BY <1>1, FocusOnPress
<1>3. Good(f) /\ slot \in Used(f) /\ f.win = k.win
  BY <1>1, <1>2 DEF Refocused
<1>4. window_slot_valid(f, f.active)
  BY <1>2, <1>3, SlotValid
<1>5. q = IF edges # {} THEN resizing ELSE IF OnTitleBar(k.win[slot], y) THEN dragging ELSE resting
  BY <1>1, <1>4 DEF Pressed
<1> HIDE DEF slot, f, q
<1>6. Takes(resizing, f, slot, x, y) /\ resizing.resize.on
  BY <1>3, BeginResize
<1>7. Takes(dragging, f, slot, x, y) /\ dragging.drag.on
  BY <1>2, <1>3, BeginDrag
<1>8. Takes(resting, f, slot, x, y)
  BY <1>3, LetGo DEF Takes, Settled
<1> HIDE DEF resizing, dragging, resting
<1>9. Takes(q, f, slot, x, y)
  BY <1>5, <1>6, <1>7, <1>8
<1>10. OnTitleBar(k.win[slot], y) => q.drag.on \/ q.resize.on
  BY <1>5, <1>6, <1>7
<1>11. QED
  BY <1>9, <1>10 DEF q, f, slot

\* What following the mouse does: nothing moves but the window that is held.
Followed(j, k, x, y) ==
    /\ Good(j) /\ Shown(j) /\ Settled(j, x, y)
    /\ Used(j) = Used(k) /\ Owners(j) = Owners(k)
    /\ \A s \in Used(k) : j.win[s].owner = k.win[s].owner
    /\ j.z = k.z /\ j.active = k.active /\ j.drag = k.drag /\ j.resize = k.resize
    /\ j.foreground = k.foreground /\ j.alive = k.alive
    /\ k.resize.on => j.win[k.resize.slot] = ResizeResult(k, x, y)

LEMMA FollowMouse ==
  ASSUME NEW k, Good(k), Shown(k), NEW x \in Int, NEW y \in Int
  PROVE  LET j == Follow(k, x, y, TRUE)
         IN  /\ Followed(j, k, x, y)
             /\ Settled(k, x, y) => j = k
             /\ k.cursor_drawn => j.cursor_drawn
             /\ j.ghost => k.ghost \/ k.cursor_drawn
<1> DEFINE resized == IF k.resize.on THEN update_resize(k, x, y) ELSE k
           j == Follow(k, x, y, TRUE)
<1>1. j = IF resized # k \/ ~k.drag.on THEN resized ELSE update_drag(k, x, y)
  BY DEF Follow
<1> HIDE DEF j
<1>2. ~(k.drag.on /\ k.resize.on)
  BY DEF Good, Held
<1>3. CASE k.resize.on
  <2>1. j = update_resize(k, x, y)
    BY <1>1, <1>2, <1>3
  <2>2. /\ \/ j = k /\ k.win[k.resize.slot] = ResizeResult(k, x, y)
           \/ /\ Changed(j, k, k.resize.slot, ResizeResult(k, x, y))
              /\ k.win[k.resize.slot] # ResizeResult(k, x, y)
        /\ Settled(j, x, y)
    BY <1>3, <2>1, UpdateResize
  <2>3. Followed(j, k, x, y)
    BY <2>2 DEF Followed, Changed
  <2>4. Settled(k, x, y) => j = k
    BY <1>3, <2>2 DEF Settled
  <2>5. (k.cursor_drawn => j.cursor_drawn) /\ (j.ghost => k.ghost \/ k.cursor_drawn)
    BY <2>2 DEF Changed
  <2>6. QED
    BY <2>3, <2>4, <2>5 DEF j
<1>4. CASE k.drag.on
  <2>1. j = update_drag(k, x, y) /\ ~k.resize.on
    BY <1>1, <1>2, <1>4
  <2>2. /\ \/ j = k /\ k.win[k.drag.slot] = DragResult(k, x, y)
           \/ /\ Changed(j, k, k.drag.slot, DragResult(k, x, y))
              /\ k.win[k.drag.slot] # DragResult(k, x, y)
        /\ Settled(j, x, y)
    BY <1>4, <2>1, UpdateDrag
  <2>3. Followed(j, k, x, y)
    BY <2>1, <2>2 DEF Followed, Changed
  <2>4. Settled(k, x, y) => j = k
    BY <1>4, <2>2 DEF Settled
  <2>5. (k.cursor_drawn => j.cursor_drawn) /\ (j.ghost => k.ghost \/ k.cursor_drawn)
    BY <2>2 DEF Changed
  <2>6. QED
    BY <2>3, <2>4, <2>5 DEF j
<1>5. CASE ~k.resize.on /\ ~k.drag.on
  <2>1. j = k
    BY <1>1, <1>5
  <2>2. Settled(k, x, y)
    BY <1>5 DEF Settled
  <2>3. QED
    BY <1>5, <2>1, <2>2 DEF Followed, j
<1>6. QED
  BY <1>3, <1>4, <1>5

LEMMA FollowNothing ==
  ASSUME NEW k, ~k.drag.on, ~k.resize.on, NEW x, NEW y, NEW down
  PROVE  Follow(k, x, y, down) = k
BY DEF Follow

\* The cursor comes off and goes back on.
LEMMA CursorOff ==
  ASSUME NEW k, Good(k)
  PROVE  LET b == begin_window_redraw(k)
         IN  /\ Good(b) /\ Same(b, k) /\ Used(b) = Used(k) /\ Owners(b) = Owners(k)
             /\ ~b.cursor_drawn /\ b.ghost = k.ghost
             /\ Shown(k) => Shown(b)
<1> DEFINE b == begin_window_redraw(k)
<1>1. k \in Desk
  BY DEF Good
<1>2. /\ b \in Desk /\ Same(b, k)
      /\ b.picture = k.picture /\ b.residue = k.residue /\ b.on_top = k.on_top
      /\ b.cursor_drawn = FALSE /\ b.ghost = k.ghost
  BY <1>1, BeginRedraw
<1> HIDE DEF b
<1>3. Good(b) /\ Used(b) = Used(k) /\ Owners(b) = Owners(k)
  BY <1>2, SameGood, SameMeans
<1>4. Shown(k) => Shown(b)
  BY <1>2, <1>3 DEF Shown, Same
<1>5. QED
  BY <1>2, <1>3, <1>4 DEF b

LEMMA CursorOn ==
  ASSUME NEW k, Good(k)
  PROVE  LET b == end_window_redraw(k)
         IN  /\ Good(b) /\ Same(b, k) /\ Used(b) = Used(k) /\ Owners(b) = Owners(k)
             /\ b.cursor_drawn = TRUE /\ b.ghost = k.ghost
             /\ Shown(k) => Shown(b)
             /\ Agrees(k) => Agrees(b)
             /\ \A x, y : Settled(k, x, y) => Settled(b, x, y)
<1> DEFINE b == end_window_redraw(k)
<1>1. k \in Desk
  BY DEF Good
<1>2. /\ b \in Desk /\ Same(b, k)
      /\ b.picture = k.picture /\ b.residue = k.residue /\ b.on_top = k.on_top
      /\ b.cursor_drawn = TRUE /\ b.ghost = k.ghost
  BY <1>1, EndRedraw
<1> HIDE DEF b
<1>3. Good(b) /\ Used(b) = Used(k) /\ Owners(b) = Owners(k)
  BY <1>2, SameGood, SameMeans
<1>4. Shown(k) => Shown(b)
  BY <1>2, <1>3 DEF Shown, Same
<1>5. (Agrees(k) => Agrees(b)) /\ \A x, y : Settled(k, x, y) => Settled(b, x, y)
  BY <1>2, SameMeans
<1>6. QED
  BY <1>2, <1>3, <1>4, <1>5 DEF b

LEMMA SameHit ==
  ASSUME NEW j, NEW k, Same(j, k), NEW x, NEW y
  PROVE  hit_test_window(j, x, y) = hit_test_window(k, x, y)
BY DEF hit_test_window, Same, window_slot_valid

\* An event with the button held down: the held window follows.  What is under
\* the cursor was taken off unless the event repeats the last one, and then there
\* is nothing to move unless a program moved the window.
LEMMA MouseMoves ==
  ASSUME IInv, mouse.down, NEW x \in Int, NEW y \in Int
  PROVE  LET j == gui_handle_mouse_event(desk, x, y, TRUE)
         IN  /\ Followed(j, desk, x, y) /\ j.cursor_drawn
             /\ j.ghost => moved
             /\ Agrees(desk) => Agrees(j)
<1> DEFINE same == mouse = [x |-> x, y |-> y, down |-> TRUE]
           c == IF same THEN desk ELSE begin_window_redraw(desk)
           h == windows_handle_mouse_event(c, x, y, TRUE, TRUE # mouse.down)
           j == gui_handle_mouse_event(desk, x, y, TRUE)
<1>1. Good(desk) /\ Shown(desk) /\ (desk.ghost \/ ~Settled(desk, mouse.x, mouse.y) => moved)
  BY DEF IInv
<1>2. j = end_window_redraw(h)
  BY DEF gui_handle_mouse_event
<1>3. h = Follow(c, x, y, TRUE)
  <2>1. mouse.down = TRUE
    BY DEF IInv, Typed
  <2>2. QED
    BY <2>1 DEF windows_handle_mouse_event
<1>4. /\ Good(c) /\ Same(c, desk) /\ Shown(c) /\ c.ghost = desk.ghost
      /\ Used(c) = Used(desk) /\ Owners(c) = Owners(desk)
  <2>1. CASE same
    BY <1>1, <2>1 DEF Same
  <2>2. CASE ~same
    BY <1>1, <2>2, CursorOff
  <2>3. QED
    BY <2>1, <2>2
<1>5. c.cursor_drawn => c = desk /\ mouse.x = x /\ mouse.y = y
  <2>1. CASE same
    BY <2>1
  <2>2. CASE ~same
    BY <1>1, <2>2, CursorOff
  <2>3. QED
    BY <2>1, <2>2
<1> HIDE DEF c, h, j, same
<1>6. /\ Followed(h, c, x, y)
      /\ Settled(c, x, y) => h = c
      /\ h.ghost => c.ghost \/ c.cursor_drawn
  BY <1>3, <1>4, FollowMouse
<1>7. h.ghost => moved
  <2> SUFFICES ASSUME h.ghost, ~moved PROVE FALSE
    OBVIOUS
  <2>1. ~desk.ghost /\ Settled(desk, mouse.x, mouse.y) /\ ~c.ghost
    BY <1>1, <1>4
  <2>2. c = desk /\ mouse.x = x /\ mouse.y = y
    BY <1>5, <1>6, <2>1
  <2>3. h = c
    BY <1>6, <2>1, <2>2
  <2>4. QED
    BY <2>1, <2>3
<1>8. /\ Good(j) /\ Same(j, h) /\ Used(j) = Used(h) /\ Owners(j) = Owners(h)
      /\ j.cursor_drawn = TRUE /\ j.ghost = h.ghost /\ Shown(j) /\ Settled(j, x, y)
  BY <1>2, <1>6, CursorOn DEF Followed
<1>9. ResizeResult(c, x, y) = ResizeResult(desk, x, y)
  BY <1>4 DEF Same, ResizeResult
<1>10. /\ Used(j) = Used(desk) /\ Owners(j) = Owners(desk)
       /\ \A s \in Used(desk) : j.win[s].owner = desk.win[s].owner
       /\ j.z = desk.z /\ j.active = desk.active /\ j.drag = desk.drag /\ j.resize = desk.resize
       /\ j.foreground = desk.foreground /\ j.alive = desk.alive
       /\ desk.resize.on => j.win[desk.resize.slot] = ResizeResult(desk, x, y)
  BY <1>4, <1>6, <1>8, <1>9 DEF Followed, Same
<1>11. Followed(j, desk, x, y)
  BY <1>8, <1>10 DEF Followed
<1>12. Agrees(desk) => Agrees(j)
  BY <1>10 DEF Agrees
<1>13. QED
  BY <1>7, <1>8, <1>11, <1>12 DEF j

\* The button goes up: the mouse lets go.
LEMMA MouseReleases ==
  ASSUME IInv, mouse.down, NEW x \in Int, NEW y \in Int
  PROVE  LET j == gui_handle_mouse_event(desk, x, y, FALSE)
         IN  /\ Good(j) /\ Shown(j) /\ j.cursor_drawn /\ j.ghost = desk.ghost
             /\ ~j.drag.on /\ ~j.resize.on
             /\ Owners(j) = Owners(desk) /\ j.alive = desk.alive
             /\ Agrees(desk) => Agrees(j)
<1> DEFINE same == mouse = [x |-> x, y |-> y, down |-> FALSE]
           c == IF same THEN desk ELSE begin_window_redraw(desk)
           l == stop_resizing(stop_dragging(c))
           h == windows_handle_mouse_event(c, x, y, FALSE, FALSE # mouse.down)
           j == gui_handle_mouse_event(desk, x, y, FALSE)
<1>1. Good(desk) /\ Shown(desk)
  BY DEF IInv
<1>2. j = end_window_redraw(h)
  BY DEF gui_handle_mouse_event
<1>3. h = Follow(l, x, y, FALSE)
  <2>1. mouse.down = TRUE
    BY DEF IInv, Typed
  <2>2. QED
    BY <2>1 DEF windows_handle_mouse_event
<1>4. /\ Good(c) /\ Same(c, desk) /\ Shown(c) /\ c.ghost = desk.ghost
      /\ Owners(c) = Owners(desk)
  <2>1. CASE same
    BY <1>1, <2>1 DEF Same
  <2>2. CASE ~same
    BY <1>1, <2>2, CursorOff
  <2>3. QED
    BY <2>1, <2>2
<1>4a. Agrees(desk) => Agrees(c)
  BY <1>4, SameMeans
<1> HIDE DEF c, h, j, same
<1>5. /\ Good(l) /\ Grabbed(l, c) /\ ~l.drag.on /\ ~l.resize.on /\ Owners(l) = Owners(c)
      /\ Shown(l) /\ (Agrees(c) => Agrees(l))
  BY <1>4, LetGo
<1> HIDE DEF l
<1>6. h = l
  BY <1>3, <1>5, FollowNothing
<1>7. /\ Good(j) /\ Same(j, l) /\ Owners(j) = Owners(l)
      /\ j.cursor_drawn = TRUE /\ j.ghost = l.ghost /\ Shown(j) /\ (Agrees(l) => Agrees(j))
  BY <1>2, <1>5, <1>6, CursorOn
<1>8. j.alive = desk.alive /\ ~j.drag.on /\ ~j.resize.on /\ j.ghost = desk.ghost
  BY <1>4, <1>5, <1>7 DEF Same, Grabbed
<1>9. QED
  BY <1>4, <1>4a, <1>5, <1>7, <1>8 DEF j

\* The button goes down: what every press has in common.
LEMMA PressBegins ==
  ASSUME IInv, ~mouse.down, NEW x \in Int, NEW y \in Int
  PROVE  LET c == begin_window_redraw(desk)
             slot == hit_test_window(desk, x, y)
         IN  /\ Good(c) /\ Same(c, desk) /\ Shown(c) /\ c.ghost = desk.ghost
             /\ Used(c) = Used(desk) /\ Owners(c) = Owners(desk)
             /\ hit_test_window(c, x, y) = slot
             /\ slot \in Used(desk) \/ slot = INVALID_SLOT
             /\ slot \in Used(desk) => slot # INVALID_SLOT
             /\ ClosesAt(c, x, y) <=> ClosesAt(desk, x, y)
             /\ gui_handle_mouse_event(desk, x, y, TRUE)
                  = end_window_redraw(
                      IF ClosesAt(desk, x, y)
                      THEN kill_process(stop_resizing(stop_dragging(Focused(c, slot))), c.win[slot].owner)
                      ELSE Follow(Pressed(c, x, y), x, y, TRUE))
<1> DEFINE c == begin_window_redraw(desk)
           slot == hit_test_window(desk, x, y)
<1>1. Good(desk) /\ Shown(desk)
  BY DEF IInv
<1>2. /\ Good(c) /\ Same(c, desk) /\ Shown(c) /\ c.ghost = desk.ghost
      /\ Used(c) = Used(desk) /\ Owners(c) = Owners(desk)
  BY <1>1, CursorOff
<1>3. slot \in Used(desk) \/ slot = INVALID_SLOT
  BY <1>1, HitTest
<1>3a. slot \in Used(desk) => slot # INVALID_SLOT
  BY <1>1, HitTest
<1>4. ~(mouse = [x |-> x, y |-> y, down |-> TRUE]) /\ TRUE # mouse.down
  <2>1. mouse.down = FALSE
    BY DEF IInv, Typed
  <2> DEFINE r == [x |-> x, y |-> y, down |-> TRUE]
  <2>2. r.down = TRUE
    OBVIOUS
  <2> HIDE DEF r
  <2>3. mouse # r
    BY <2>1, <2>2
  <2>4. TRUE # mouse.down
    BY <2>1
  <2>5. QED
    BY <2>3, <2>4 DEF r
<1>5. gui_handle_mouse_event(desk, x, y, TRUE)
        = end_window_redraw(windows_handle_mouse_event(c, x, y, TRUE, TRUE # mouse.down))
  BY <1>4 DEF gui_handle_mouse_event
<1> HIDE DEF c
<1>6. hit_test_window(c, x, y) = slot
  BY <1>2, SameHit
<1>7. ClosesAt(c, x, y) <=> ClosesAt(desk, x, y)
  BY <1>2, <1>6 DEF ClosesAt, Same
<1>8. windows_handle_mouse_event(c, x, y, TRUE, TRUE # mouse.down)
        = IF ClosesAt(desk, x, y)
          THEN kill_process(stop_resizing(stop_dragging(Focused(c, slot))), c.win[slot].owner)
          ELSE Follow(Pressed(c, x, y), x, y, TRUE)
  BY <1>4, <1>6, <1>7 DEF windows_handle_mouse_event
<1>9. QED
  BY <1>2, <1>3, <1>3a, <1>5, <1>6, <1>7, <1>8 DEF c

\* On a close button: the window's owner ends, and its window goes.
LEMMA PressCloses ==
  ASSUME IInv, ~mouse.down, NEW x \in Int, NEW y \in Int, ClosesAt(desk, x, y)
  PROVE  LET j == gui_handle_mouse_event(desk, x, y, TRUE)
             slot == hit_test_window(desk, x, y)
             p == desk.win[slot].owner
         IN  /\ slot \in Used(desk)
             /\ Good(j) /\ Shown(j) /\ j.cursor_drawn /\ ~j.ghost /\ Agrees(j)
             /\ ~j.drag.on /\ ~j.resize.on
             /\ j.alive = desk.alive \ {p} /\ slot \notin Used(j)
             /\ Owners(j) = Owners(desk) \ {p}
<1> DEFINE c == begin_window_redraw(desk)
           slot == hit_test_window(desk, x, y)
           p == desk.win[slot].owner
           f == Focused(c, slot)
           l == stop_resizing(stop_dragging(f))
           d == kill_process(l, p)
           j == gui_handle_mouse_event(desk, x, y, TRUE)
<1>1. /\ Good(c) /\ Same(c, desk) /\ Used(c) = Used(desk) /\ Owners(c) = Owners(desk)
      /\ slot \in Used(desk) \/ slot = INVALID_SLOT
      /\ j = end_window_redraw(kill_process(l, c.win[slot].owner))
  BY PressBegins
<1>2. slot \in Used(desk) /\ c.win = desk.win
  BY <1>1 DEF ClosesAt, Same
<1>3. j = end_window_redraw(d)
  BY <1>1, <1>2
<1> HIDE DEF c, slot, j
<1>4. Refocused(f, c) /\ Agrees(f)
  BY <1>1, <1>2, FocusOnPress
<1> HIDE DEF f
<1>5. /\ Good(l) /\ Grabbed(l, f) /\ Agrees(l) /\ l.drag = NoGrab /\ l.resize = NoResize
      /\ Used(l) = Used(f) /\ Owners(l) = Owners(f)
  BY <1>4, LetGo DEF Refocused
<1> HIDE DEF l
<1>6. l.win = desk.win /\ Used(l) = Used(desk) /\ Owners(l) = Owners(desk) /\ l.alive = desk.alive
  BY <1>1, <1>2, <1>4, <1>5 DEF Refocused, Grabbed, Same
<1>7. p \in Owners(l)
  BY <1>2, <1>6 DEF Owners
<1>8. Ended(d, l, p) /\ Agrees(d) /\ Shown(d) /\ d.cursor_drawn /\ ~d.ghost
  BY <1>5, <1>7, KillProcess
<1> HIDE DEF d
<1>9. /\ Good(j) /\ Same(j, d) /\ Used(j) = Used(d) /\ Owners(j) = Owners(d)
      /\ j.cursor_drawn = TRUE /\ j.ghost = d.ghost /\ Shown(j) /\ Agrees(j)
  BY <1>3, <1>8, CursorOn DEF Ended
<1>10. d.drag = NoGrab /\ d.resize = NoResize
  BY <1>5, <1>8 DEF Ended
<1>11. ~j.drag.on /\ ~j.resize.on
  BY <1>9, <1>10, NoGrabs DEF Same
<1>12. j.alive = desk.alive \ {p}
  BY <1>6, <1>8, <1>9 DEF Ended, Same
<1>13. slot \notin Used(j)
  BY <1>6, <1>8, <1>9 DEF Ended
<1>14. Owners(d) = Owners(desk) \ {p}
  <2>1. Used(d) = {s \in Used(desk) : desk.win[s].owner # p} /\ \A s \in Used(d) : d.win[s] = desk.win[s]
    BY <1>6, <1>8 DEF Ended
  <2>2. QED
    BY <2>1 DEF Owners
<1>15. ~j.ghost
  BY <1>8, <1>9
<1>16. QED
  BY <1>2, <1>9, <1>11, <1>12, <1>13, <1>14, <1>15 DEF j, slot

\* On a window otherwise.
LEMMA PressTakes ==
  ASSUME IInv, ~mouse.down, NEW x \in Int, NEW y \in Int, ~ClosesAt(desk, x, y),
         hit_test_window(desk, x, y) # INVALID_SLOT
  PROVE  LET j == gui_handle_mouse_event(desk, x, y, TRUE)
             slot == hit_test_window(desk, x, y)
         IN  /\ slot \in Used(desk)
             /\ Good(j) /\ Shown(j) /\ j.cursor_drawn /\ j.ghost = desk.ghost /\ Agrees(j)
             /\ Settled(j, x, y) /\ Owners(j) = Owners(desk) /\ j.alive = desk.alive
             /\ j.foreground = desk.win[slot].owner /\ j.active = slot /\ Last(j.z) = slot
             /\ \A g \in {j.drag, j.resize} : g.on => g.slot = slot
             /\ OnTitleBar(desk.win[slot], y) => j.drag.on \/ j.resize.on
<1> DEFINE c == begin_window_redraw(desk)
           slot == hit_test_window(desk, x, y)
           f == Focused(c, slot)
           q == Pressed(c, x, y)
           j == gui_handle_mouse_event(desk, x, y, TRUE)
<1>1. /\ Good(c) /\ Same(c, desk) /\ Shown(c) /\ c.ghost = desk.ghost
      /\ Used(c) = Used(desk) /\ Owners(c) = Owners(desk)
      /\ hit_test_window(c, x, y) = slot
      /\ slot \in Used(desk) \/ slot = INVALID_SLOT
      /\ j = end_window_redraw(Follow(q, x, y, TRUE))
  BY PressBegins
<1>2. slot \in Used(c) /\ c.win = desk.win
  BY <1>1 DEF Same
<1> HIDE DEF c, j
<1>3. Takes(q, f, slot, x, y) /\ (OnTitleBar(c.win[slot], y) => q.drag.on \/ q.resize.on)
  BY <1>1, <1>2, PressOnWindow
<1> HIDE DEF slot
<1>4. /\ Refocused(f, c) /\ Agrees(f) /\ f.foreground = c.win[slot].owner /\ f.active = slot
      /\ Last(f.z) = slot
  BY <1>1, <1>2, FocusOnPress
<1> HIDE DEF f, q
<1>5. Good(q) /\ Shown(q) /\ Settled(q, x, y) /\ Agrees(q) /\ Owners(q) = Owners(desk)
  BY <1>1, <1>3, <1>4 DEF Takes, Refocused
<1>6. Follow(q, x, y, TRUE) = q
  BY <1>5, FollowMouse
<1>7. /\ Good(j) /\ Same(j, q) /\ Owners(j) = Owners(q)
      /\ j.cursor_drawn = TRUE /\ j.ghost = q.ghost /\ Shown(j) /\ Agrees(j) /\ Settled(j, x, y)
  BY <1>1, <1>5, <1>6, CursorOn
<1>8. q.ghost = desk.ghost
  BY <1>1, <1>3, <1>4 DEF Takes, Grabbed, Refocused
<1>9. /\ q.alive = desk.alive /\ q.foreground = desk.win[slot].owner /\ q.active = slot
      /\ Last(q.z) = slot
  BY <1>1, <1>2, <1>3, <1>4 DEF Takes, Grabbed, Refocused, Same
<1>10. \A g \in {q.drag, q.resize} : g.on => g.slot = slot
  BY <1>3 DEF Takes
<1>11. QED
  BY <1>1, <1>2, <1>3, <1>5, <1>7, <1>8, <1>9, <1>10 DEF Same, j, slot

\* On the background.
LEMMA PressMisses ==
  ASSUME IInv, ~mouse.down, NEW x \in Int, NEW y \in Int,
         hit_test_window(desk, x, y) = INVALID_SLOT
  PROVE  LET j == gui_handle_mouse_event(desk, x, y, TRUE)
         IN  /\ Good(j) /\ Shown(j) /\ j.cursor_drawn /\ j.ghost = desk.ghost
             /\ ~j.drag.on /\ ~j.resize.on
             /\ Owners(j) = Owners(desk) /\ j.alive = desk.alive
             /\ Agrees(desk) => Agrees(j)
<1> DEFINE c == begin_window_redraw(desk)
           l == stop_resizing(stop_dragging(c))
           j == gui_handle_mouse_event(desk, x, y, TRUE)
<1>0. ~ClosesAt(desk, x, y)
  BY DEF ClosesAt
<1>1. /\ Good(c) /\ Same(c, desk) /\ Shown(c) /\ c.ghost = desk.ghost
      /\ Owners(c) = Owners(desk)
      /\ hit_test_window(c, x, y) = INVALID_SLOT
      /\ j = end_window_redraw(Follow(Pressed(c, x, y), x, y, TRUE))
  BY <1>0, PressBegins
<1>2. Agrees(desk) => Agrees(c)
  BY <1>1, SameMeans
<1> HIDE DEF c, j
<1>3. Pressed(c, x, y) = l
  BY <1>1 DEF Pressed
<1>5. /\ Good(l) /\ Grabbed(l, c) /\ ~l.drag.on /\ ~l.resize.on /\ Owners(l) = Owners(c)
      /\ Shown(l) /\ (Agrees(c) => Agrees(l))
  BY <1>1, LetGo
<1> HIDE DEF l
<1>6. j = end_window_redraw(l)
  BY <1>1, <1>3, <1>5, FollowNothing
<1>7. /\ Good(j) /\ Same(j, l) /\ Owners(j) = Owners(l)
      /\ j.cursor_drawn = TRUE /\ j.ghost = l.ghost /\ Shown(j) /\ (Agrees(l) => Agrees(j))
  BY <1>5, <1>6, CursorOn
<1>8. j.alive = desk.alive /\ ~j.drag.on /\ ~j.resize.on /\ j.ghost = desk.ghost
  BY <1>1, <1>5, <1>7 DEF Same, Grabbed
<1>9. QED
  BY <1>1, <1>2, <1>5, <1>7, <1>8 DEF j

-----------------------------------------------------------------------------
(* Every step keeps the invariant                                          *)

\* The invariant is made of what holds of the desktop and of the other variables.
LEMMA Assembled ==
  ASSUME /\ Good(desk') /\ Shown(desk') /\ desk'.cursor_drawn
         /\ desk'.alive \subseteq started'
         /\ mouse' \in [x : Int, y : Int, down : BOOLEAN]
         /\ calls' \subseteq [by : Process, of : Process, inside : BOOLEAN]
         /\ started' \subseteq Process /\ lingering' \subseteq started' /\ late' \subseteq Process
         /\ events' \in 0 .. MAX_EVENTS,
         Owners(desk') \subseteq (desk'.alive \cup late') \cap started',
         desk'.drag.on \/ desk'.resize.on => mouse'.down,
         ~astray' /\ (\A c \in calls' : ~c.inside) => Agrees(desk'),
         desk'.ghost \/ ~Settled(desk', mouse'.x, mouse'.y) => moved'
  PROVE  IInv'
<1>1. Len(desk'.z) <= MAX_WINDOWS /\ Len(desk'.stack) <= MAX_PROCESSES /\ desk' \in Desk
  BY WindowsAssumption DEF Good, Exact, Desk
<1>2. Typed'
  BY <1>1 DEF Typed
<1>3. QED
  BY <1>2 DEF IInv

\* What holds before the step, by parts.
LEMMA Parts ==
  ASSUME IInv
  PROVE  /\ Good(desk) /\ Shown(desk) /\ desk.cursor_drawn /\ desk \in Desk
         /\ desk.alive \subseteq started
         /\ mouse \in [x : Int, y : Int, down : BOOLEAN]
         /\ calls \subseteq [by : Process, of : Process, inside : BOOLEAN]
         /\ started \subseteq Process /\ lingering \subseteq started /\ late \subseteq Process
         /\ events \in 0 .. MAX_EVENTS
         /\ Owners(desk) \subseteq (desk.alive \cup late) \cap started
         /\ desk.drag.on \/ desk.resize.on => mouse.down
         /\ ~astray /\ (\A c \in calls : ~c.inside) => Agrees(desk)
         /\ desk.ghost \/ ~Settled(desk, mouse.x, mouse.y) => moved
BY DEF IInv, Typed

\* More processes live.
LEMMA ProcessAdded ==
  ASSUME NEW k, Good(k), NEW q \in Process
  PROVE  LET m == [k EXCEPT !.alive = @ \cup {q}]
         IN  /\ Good(m) /\ Relabelled(m, k) /\ m.foreground = k.foreground
             /\ m.alive = k.alive \cup {q}
             /\ Owners(m) = Owners(k)
             /\ Shown(k) => Shown(m)
             /\ Agrees(k) => Agrees(m)
             /\ \A x, y : Settled(k, x, y) => Settled(m, x, y)
<1> DEFINE m == [k EXCEPT !.alive = @ \cup {q}]
<1>1. k \in Desk /\ Len(k.stack) <= MAX_PROCESSES
  BY DEF Good
<1>2. m = [k EXCEPT !.alive = k.alive \cup {q}] /\ k.alive \cup {q} \in SUBSET Process
  BY <1>1 DEF Desk
<1> HIDE DEF m
<1>3. m \in Desk /\ m.alive = k.alive \cup {q} /\ m.stack = k.stack /\ m.foreground = k.foreground
  BY <1>1, <1>2 DEF Desk
<1>4. Relabelled(m, k)
  BY <1>1, <1>2 DEF Desk, Relabelled
<1>5. /\ Good(m) /\ Used(m) = Used(k) /\ Owners(m) = Owners(k) /\ (Shown(k) => Shown(m))
  BY <1>1, <1>3, <1>4, RelabelledMeans
<1>6. Agrees(k) => Agrees(m)
  BY <1>3, <1>4, <1>5 DEF Agrees, Relabelled
<1>7. \A x, y : Settled(k, x, y) => Settled(m, x, y)
  BY <1>4 DEF Settled, Relabelled, DragResult, ResizeResult
<1>8. QED
  BY <1>3, <1>4, <1>5, <1>6, <1>7 DEF m

LEMMA StartKeeps ==
  ASSUME IInv, start_process
  PROVE  IInv'
<1>1. PICK q \in Process : /\ started' = started \cup {q}
                           /\ desk' = [desk EXCEPT !.alive = @ \cup {q}]
                           /\ UNCHANGED <<mouse, calls, lingering, astray, late, moved, events>>
  BY DEF start_process
<1>2. /\ Good(desk') /\ Relabelled(desk', desk) /\ desk'.alive = desk.alive \cup {q}
      /\ Owners(desk') = Owners(desk) /\ Shown(desk')
      /\ Agrees(desk) => Agrees(desk')
      /\ \A x, y : Settled(desk, x, y) => Settled(desk', x, y)
  BY <1>1, Parts, ProcessAdded
<1>3. desk'.cursor_drawn /\ desk'.ghost = desk.ghost
  BY <1>2, Parts DEF Relabelled
<1>4. desk'.drag = desk.drag /\ desk'.resize = desk.resize
  BY <1>2 DEF Relabelled
<1>5. /\ desk'.alive \subseteq started' /\ started' \subseteq Process /\ lingering' \subseteq started'
      /\ Owners(desk') \subseteq (desk'.alive \cup late') \cap started'
  BY <1>1, <1>2, Parts
<1>6. desk'.ghost \/ ~Settled(desk', mouse'.x, mouse'.y) => moved'
  BY <1>1, <1>2, <1>3, Parts
<1>7. ~astray' /\ (\A c \in calls' : ~c.inside) => Agrees(desk')
  BY <1>1, <1>2, Parts
<1>8. QED
  BY <1>1, <1>2, <1>3, <1>4, <1>5, <1>6, <1>7, Parts, Assembled

LEMMA EditKeeps ==
  ASSUME IInv, cmd_edit
  PROVE  IInv'
<1>1. PICK q \in Process : /\ started' = started \cup {q}
                           /\ desk' = [desk EXCEPT !.alive = @ \cup {q}]
                           /\ calls' = calls \cup {Call(Shell, q), Call(q, q)}
                           /\ UNCHANGED <<mouse, lingering, astray, late, moved, events>>
  BY DEF cmd_edit
<1>2. /\ Good(desk') /\ Relabelled(desk', desk) /\ desk'.alive = desk.alive \cup {q}
      /\ Owners(desk') = Owners(desk) /\ Shown(desk')
      /\ Agrees(desk) => Agrees(desk')
      /\ \A x, y : Settled(desk, x, y) => Settled(desk', x, y)
  BY <1>1, Parts, ProcessAdded
<1>3. desk'.cursor_drawn /\ desk'.ghost = desk.ghost
  BY <1>2, Parts DEF Relabelled
<1>4. desk'.drag = desk.drag /\ desk'.resize = desk.resize
  BY <1>2 DEF Relabelled
<1>5. /\ desk'.alive \subseteq started' /\ started' \subseteq Process /\ lingering' \subseteq started'
      /\ Owners(desk') \subseteq (desk'.alive \cup late') \cap started'
  BY <1>1, <1>2, Parts
<1>6. desk'.ghost \/ ~Settled(desk', mouse'.x, mouse'.y) => moved'
  BY <1>1, <1>2, <1>3, Parts
<1>7. ~astray' /\ (\A c \in calls' : ~c.inside) => Agrees(desk')
  BY <1>1, <1>2, Parts
<1>8. calls' \subseteq [by : Process, of : Process, inside : BOOLEAN]
  <2>1. \A p \in Process : Call(p, q) \in [by : Process, of : Process, inside : BOOLEAN]
    BY DEF Call
  <2>2. QED
    BY <1>1, <2>1, Parts, WindowsAssumption
<1>9. QED
  BY <1>1, <1>2, <1>3, <1>4, <1>5, <1>6, <1>7, <1>8, Parts, Assembled

\* A window that a process without one opens.
LEMMA OpenKeeps ==
  ASSUME IInv, NEW p \in Process, open_window(p)
  PROVE  IInv'
<1> DEFINE opened == find_window_index(desk', p) # INVALID_SLOT
<1>1. /\ p \in desk.alive \cup lingering
      /\ find_window_index(desk, p) = INVALID_SLOT
      /\ desk' = request_new_window(desk, p)
      /\ UNCHANGED <<mouse, calls, lingering, started, moved, events>>
  BY DEF open_window, Running
<1>1a. astray' = (astray \/ (opened /\ desk.foreground # p))
  BY DEF open_window
<1>1b. late' = IF opened /\ p \notin desk.alive THEN late \cup {p} ELSE late
  BY DEF open_window
<1>2. p \notin Owners(desk) /\ p \in started
  BY <1>1, Parts, FindWindow
<1>3. CASE desk' = desk
  <2>1. ~opened
    BY <1>1, <1>3
  <2>2. late' = late /\ (~astray' => ~astray)
    BY <1>1a, <1>1b, <2>1
  <2>3. ~astray' /\ (\A c \in calls' : ~c.inside) => Agrees(desk')
    BY <1>1, <1>3, <2>2, Parts
  <2>4. QED
    BY <1>1, <1>3, <2>2, <2>3, Parts, Assembled
<1>4. CASE desk' # desk
  <2>1. /\ Good(desk') /\ Shown(desk') /\ desk'.ghost = desk.ghost
        /\ desk'.cursor_drawn
        /\ desk'.drag = desk.drag /\ desk'.resize = desk.resize
        /\ desk'.foreground = desk.foreground /\ desk'.alive = desk.alive
        /\ Used(desk') = Used(desk) \cup {desk'.active} /\ desk'.active \notin Used(desk)
        /\ desk'.win[desk'.active].owner = p
        /\ \A s \in Used(desk) : desk'.win[s] = desk.win[s]
    BY <1>1, <1>2, <1>4, Parts, RequestWindow
  <2>2. Owners(desk') = Owners(desk) \cup {p}
    BY <2>1 DEF Owners
  <2>3. opened
    BY <2>2, FindWindow
  <2>4. p \in desk.alive \cup late' /\ late \subseteq late' /\ late' \subseteq Process
    BY <1>1b, <2>3, Parts
  <2>5. Owners(desk') \subseteq (desk'.alive \cup late') \cap started'
    BY <1>1, <1>2, <2>1, <2>2, <2>4, Parts
  <2>6. ~astray' => desk'.foreground = p
    BY <1>1a, <2>1, <2>3
  <2>7. \A s \in Used(desk') : desk'.win[s].owner = p => desk'.active = s
    BY <2>1 DEF Good, Exact
  <2>8. ~astray' /\ (\A c \in calls' : ~c.inside) => Agrees(desk')
    BY <2>6, <2>7 DEF Agrees
  <2>9. \A x, y : Settled(desk, x, y) => Settled(desk', x, y)
    BY <2>1, Parts, SettledKept DEF Good
  <2>10. desk'.ghost \/ ~Settled(desk', mouse'.x, mouse'.y) => moved'
    BY <1>1, <2>1, <2>9, Parts
  <2>11. QED
    BY <1>1, <2>1, <2>4, <2>5, <2>8, <2>10, Parts, Assembled
<1>5. QED
  BY <1>3, <1>4

LEMMA RaiseKeeps ==
  ASSUME IInv, NEW p \in Process, gui_command_new_window(p)
  PROVE  IInv'
<1> DEFINE a == activate_process(desk, p)
<1>1. /\ find_window_index(desk, p) # INVALID_SLOT
      /\ desk' = draw_workspace(request_new_window(desk, p))
      /\ events < MAX_EVENTS /\ events' = events + 1
      /\ UNCHANGED <<mouse, calls, lingering, started, late, moved>>
  BY DEF gui_command_new_window
<1>1a. astray' = (astray \/ desk.foreground # p)
  BY DEF gui_command_new_window
<1>2. desk' = draw_workspace(a)
  BY <1>1 DEF request_new_window
<1>3. /\ Good(a) /\ SameButOrder(a, desk)
      /\ \A s \in Used(a) : a.win[s].owner = p => a.active = s
  BY Parts, ActivateProcess
<1> HIDE DEF a
<1>4. Owners(a) = Owners(desk) /\ \A x, y : Settled(desk, x, y) => Settled(a, x, y)
  BY <1>3, Parts, ReorderedMeans DEF Good
<1>5. desk' \in Desk /\ Same(desk', a) /\ Shown(desk') /\ desk'.ghost = FALSE /\ desk'.cursor_drawn = TRUE
  BY <1>2, <1>3, DrawWorkspace DEF Good
<1>6. /\ Good(desk') /\ Owners(desk') = Owners(desk) /\ (Agrees(a) => Agrees(desk'))
      /\ \A x, y : Settled(desk, x, y) => Settled(desk', x, y)
  BY <1>3, <1>4, <1>5, SameGood, SameMeans
<1>7. ~astray' => Agrees(a)
  BY <1>1a, <1>3 DEF SameButOrder, Agrees
<1>8. desk'.alive = desk.alive /\ desk'.drag = desk.drag /\ desk'.resize = desk.resize
  BY <1>3, <1>5 DEF Same, SameButOrder
<1>9. events' \in 0 .. MAX_EVENTS
  BY <1>1, Parts, WindowsAssumption
<1>10. desk'.ghost \/ ~Settled(desk', mouse'.x, mouse'.y) => moved'
  BY <1>1, <1>5, <1>6, Parts
<1>11. QED
  BY <1>1, <1>5, <1>6, <1>7, <1>8, <1>9, <1>10, Parts, Assembled

LEMMA RedrawKeeps ==
  ASSUME IInv, gui_command_redraw
  PROVE  IInv'
<1>1. /\ desk' = draw_workspace(desk)
      /\ UNCHANGED <<mouse, calls, lingering, started, astray, late, moved, events>>
  BY DEF gui_command_redraw
<1>2. /\ desk' \in Desk /\ Same(desk', desk) /\ Shown(desk')
      /\ desk'.ghost = FALSE /\ desk'.cursor_drawn = TRUE
  BY <1>1, Parts, DrawWorkspace DEF Good
<1>3. /\ Good(desk') /\ Owners(desk') = Owners(desk) /\ (Agrees(desk) => Agrees(desk'))
      /\ \A x, y : Settled(desk, x, y) => Settled(desk', x, y)
  BY <1>2, Parts, SameGood, SameMeans
<1>4. desk'.alive = desk.alive /\ desk'.drag = desk.drag /\ desk'.resize = desk.resize
  BY <1>2 DEF Same
<1>5. desk'.ghost \/ ~Settled(desk', mouse'.x, mouse'.y) => moved'
  BY <1>1, <1>2, <1>3, Parts
<1>6. QED
  BY <1>1, <1>2, <1>3, <1>4, <1>5, Parts, Assembled

LEMMA OriginKeeps ==
  ASSUME IInv, NEW p \in Process, gui_command_origin(p)
  PROVE  IInv'
<1> DEFINE slot == find_window_index(desk, p)
           held == \E g \in {desk.drag, desk.resize} : g.on /\ g.slot = slot
<1>1. PICK o \in Origins : desk' = draw_workspace(set_active_window_origin(desk, p, o.x, o.y))
  BY DEF gui_command_origin
<1>2. /\ events < MAX_EVENTS /\ events' = events + 1
      /\ UNCHANGED <<mouse, calls, lingering, started, astray, late>>
  BY DEF gui_command_origin
<1>3. moved' = (moved \/ held)
  BY DEF gui_command_origin
<1> DEFINE a == set_active_window_origin(desk, p, o.x, o.y)
<1>4. o.x \in Int /\ o.y \in Int
  BY WindowsAssumption
<1>5. /\ Good(a) /\ Used(a) = Used(desk) /\ Owners(a) = Owners(desk)
      /\ \A s \in Used(desk) : a.win[s].owner = desk.win[s].owner
      /\ \A s \in Used(desk) \ {slot} : a.win[s] = desk.win[s]
      /\ a.active = desk.active /\ a.drag = desk.drag /\ a.resize = desk.resize
      /\ a.foreground = desk.foreground /\ a.alive = desk.alive
  BY <1>4, Parts, MoveOrigin
<1>6. desk' = draw_workspace(a)
  BY <1>1
<1> HIDE DEF a, slot
<1>7. desk' \in Desk /\ Same(desk', a) /\ Shown(desk') /\ desk'.ghost = FALSE /\ desk'.cursor_drawn = TRUE
  BY <1>5, <1>6, DrawWorkspace DEF Good
<1>8. Agrees(desk) => Agrees(a)
  BY <1>5 DEF Agrees
<1>9. ASSUME ~held, NEW x, NEW y, Settled(desk, x, y)
      PROVE  Settled(a, x, y)
  <2>1. ASSUME a.drag.on PROVE a.win[a.drag.slot] = DragResult(a, x, y)
    <3>1. desk.drag.on /\ desk.drag.slot # slot /\ desk.drag.slot \in Used(desk)
      BY <1>5, <1>9, <2>1, Parts DEF Good, Held
    <3>2. a.win[desk.drag.slot] = desk.win[desk.drag.slot]
      BY <1>5, <3>1
    <3>3. QED
      BY <1>5, <1>9, <3>1, <3>2 DEF Settled, DragResult
  <2>2. ASSUME a.resize.on PROVE a.win[a.resize.slot] = ResizeResult(a, x, y)
    <3>1. desk.resize.on /\ desk.resize.slot # slot /\ desk.resize.slot \in Used(desk)
      BY <1>5, <1>9, <2>2, Parts DEF Good, Held
    <3>2. a.win[desk.resize.slot] = desk.win[desk.resize.slot]
      BY <1>5, <3>1
    <3>3. QED
      BY <1>5, <1>9, <3>1, <3>2 DEF Settled, ResizeResult
  <2>3. QED
    BY <2>1, <2>2 DEF Settled
<1>10. /\ Good(desk') /\ Owners(desk') = Owners(a) /\ (Agrees(a) => Agrees(desk'))
       /\ \A x, y : Settled(a, x, y) => Settled(desk', x, y)
  BY <1>5, <1>7, SameGood, SameMeans
<1>11. desk'.alive = desk.alive /\ desk'.drag = desk.drag /\ desk'.resize = desk.resize
  BY <1>5, <1>7 DEF Same
<1>12. events' \in 0 .. MAX_EVENTS
  BY <1>2, Parts, WindowsAssumption
<1>13. desk'.ghost \/ ~Settled(desk', mouse'.x, mouse'.y) => moved'
  <2> SUFFICES ASSUME ~moved' PROVE Settled(desk', mouse.x, mouse.y)
    BY <1>2, <1>7
  <2>1. ~held /\ ~moved
    BY <1>3
  <2>2. Settled(desk, mouse.x, mouse.y)
    BY <2>1, Parts
  <2>3. QED
    BY <1>9, <1>10, <2>1, <2>2
<1>14. ~astray' /\ (\A c \in calls' : ~c.inside) => Agrees(desk')
  BY <1>2, <1>8, <1>10, Parts
<1>15. QED
  BY <1>2, <1>5, <1>7, <1>10, <1>11, <1>12, <1>13, <1>14, Parts, Assembled

\* The first half of scheduler_set_foreground: the window is not up to date until
\* the call is over.
LEMMA SetBeginKeeps ==
  ASSUME IInv, set_foreground_begin
  PROVE  IInv'
<1>1. PICK c \in calls :
         /\ ~c.inside
         /\ IF desk.foreground = c.of
            THEN calls' = calls \ {c} /\ UNCHANGED desk
            ELSE /\ desk' = [RememberForeground(desk) EXCEPT !.foreground = c.of]
                 /\ calls' = (calls \ {c}) \cup {[c EXCEPT !.inside = TRUE]}
  BY DEF set_foreground_begin
<1>2. UNCHANGED <<mouse, lingering, started, astray, late, moved, events>>
  BY DEF set_foreground_begin
<1>3. c \in [by : Process, of : Process, inside : BOOLEAN]
  BY Parts
<1>4. CASE desk.foreground = c.of
  <2>1. calls' = calls \ {c} /\ desk' = desk
    BY <1>1, <1>4
  <2>2. (\A d \in calls' : ~d.inside) => (\A d \in calls : ~d.inside)
    BY <1>1, <2>1
  <2>3. ~astray' /\ (\A d \in calls' : ~d.inside) => Agrees(desk')
    BY <1>2, <2>1, <2>2, Parts
  <2>4. QED
    BY <1>2, <2>1, <2>3, Parts, Assembled
<1>5. CASE desk.foreground # c.of
  <2> DEFINE m == RememberForeground(desk)
             d == [c EXCEPT !.inside = TRUE]
  <2>1. desk' = [m EXCEPT !.foreground = c.of] /\ calls' = (calls \ {c}) \cup {d}
    BY <1>1, <1>5
  <2>2. d \in [by : Process, of : Process, inside : BOOLEAN] /\ d.inside
    BY <1>3
  <2>3. Refocused(m, desk) /\ Relabelled(m, desk)
    BY Parts, Remember
  <2> HIDE DEF m, d
  <2>4. m \in Desk /\ Good(m) /\ Len(m.stack) <= MAX_PROCESSES /\ c.of \in Process
    BY <1>3, <2>3 DEF Refocused, Good
  <2>5. desk' \in Desk /\ desk'.stack = m.stack /\ desk'.alive = m.alive
    BY <2>1, <2>4 DEF Desk
  <2>6. Relabelled(desk', m)
    BY <2>1, <2>4 DEF Desk, Relabelled
  <2>7. /\ Good(desk') /\ Owners(desk') = Owners(m) /\ (Shown(m) => Shown(desk'))
    BY <2>4, <2>5, <2>6, RelabelledMeans
  <2>8. /\ desk'.drag = desk.drag /\ desk'.resize = desk.resize /\ desk'.win = desk.win
        /\ desk'.ghost = desk.ghost /\ desk'.alive = desk.alive
    BY <2>3, <2>5, <2>6 DEF Relabelled, Refocused
  <2>8a. desk'.cursor_drawn
    BY <2>3, <2>6, Parts DEF Relabelled
  <2>9. \A x, y : Settled(desk, x, y) => Settled(desk', x, y)
    BY <2>8 DEF Settled, DragResult, ResizeResult
  <2>10. ~(\A e \in calls' : ~e.inside)
    BY <2>1, <2>2
  <2>11. calls' \subseteq [by : Process, of : Process, inside : BOOLEAN]
    BY <2>1, <2>2, Parts
  <2>12. Shown(desk') /\ Owners(desk') = Owners(desk)
    BY <2>3, <2>7, Parts DEF Refocused
  <2>13. desk'.ghost \/ ~Settled(desk', mouse'.x, mouse'.y) => moved'
    BY <1>2, <2>8, <2>9, Parts
  <2>14. QED
    BY <1>2, <2>7, <2>8, <2>8a, <2>10, <2>11, <2>12, <2>13, Parts, Assembled
<1>6. QED
  BY <1>4, <1>5

LEMMA SetDoneKeeps ==
  ASSUME IInv, set_foreground_done
  PROVE  IInv'
<1>1. PICK c \in calls : /\ desk' = activate_process(desk, c.of)
                         /\ calls' = calls \ {c}
                         /\ astray' = (astray \/ desk.foreground # c.of)
  BY DEF set_foreground_done
<1>2. UNCHANGED <<mouse, lingering, started, late, moved, events>>
  BY DEF set_foreground_done
<1>3. /\ Good(desk') /\ SameButOrder(desk', desk) /\ Shown(desk')
      /\ \A s \in Used(desk') : desk'.win[s].owner = c.of => desk'.active = s
  BY <1>1, Parts, ActivateProcess
<1>3a. desk'.cursor_drawn
  BY <1>1, Parts, ActivateProcess
<1>4. Owners(desk') = Owners(desk) /\ \A x, y : Settled(desk, x, y) => Settled(desk', x, y)
  BY <1>3, Parts, ReorderedMeans DEF Good
<1>5. ~astray' => Agrees(desk')
  BY <1>1, <1>3 DEF SameButOrder, Agrees
<1>6. /\ desk'.alive = desk.alive /\ desk'.drag = desk.drag /\ desk'.resize = desk.resize
      /\ desk'.ghost = desk.ghost
  BY <1>3 DEF SameButOrder
<1>7. desk'.ghost \/ ~Settled(desk', mouse'.x, mouse'.y) => moved'
  BY <1>2, <1>4, <1>6, Parts
<1>8. QED
  BY <1>1, <1>2, <1>3, <1>3a, <1>4, <1>5, <1>6, <1>7, Parts, Assembled

LEMMA ExitKeeps ==
  ASSUME IInv, NEW p \in Process, sys_exit(p)
  PROVE  IInv'
<1>1. /\ desk' = kill_process(desk, p) /\ lingering' = lingering \ {p}
      /\ UNCHANGED <<mouse, calls, started, astray, late, moved, events>>
  BY DEF sys_exit
<1>2. Ended(desk', desk, p) /\ Shown(desk') /\ (Agrees(desk) => Agrees(desk'))
  BY <1>1, Parts, KillProcess
<1>2a. desk'.cursor_drawn /\ (desk'.ghost => desk.ghost)
  BY <1>1, Parts, KillProcess
<1>3. /\ Good(desk') /\ desk'.alive = desk.alive \ {p}
      /\ Used(desk') = {s \in Used(desk) : desk.win[s].owner # p}
      /\ \A s \in Used(desk') : desk'.win[s] = desk.win[s]
      /\ desk'.drag \in {desk.drag, NoGrab} /\ desk'.resize \in {desk.resize, NoResize}
  BY <1>2 DEF Ended
<1>4. Owners(desk') = Owners(desk) \ {p}
  BY <1>3 DEF Owners
<1>5. Owners(desk') \subseteq (desk'.alive \cup late') \cap started'
  BY <1>1, <1>3, <1>4, Parts
<1>6. desk'.drag.on \/ desk'.resize.on => mouse'.down
  BY <1>1, <1>3, Parts, NoGrabs
<1>7. \A x, y : Settled(desk, x, y) => Settled(desk', x, y)
  BY <1>3, Parts, SettledKept DEF Good
<1>8. desk'.ghost \/ ~Settled(desk', mouse'.x, mouse'.y) => moved'
  BY <1>1, <1>2a, <1>7, Parts
<1>9. ~astray' /\ (\A c \in calls' : ~c.inside) => Agrees(desk')
  BY <1>1, <1>2, Parts
<1>10. QED
  BY <1>1, <1>2, <1>2a, <1>3, <1>5, <1>6, <1>8, <1>9, Parts, Assembled

LEMMA SwitchKeeps ==
  ASSUME IInv, context_switch
  PROVE  IInv'
<1>1. /\ calls' = {c \in calls : c.by \notin lingering}
      /\ lingering' = {}
      /\ UNCHANGED <<desk, mouse, started, late, moved, events>>
  BY DEF context_switch
<1>2. astray' = (astray \/ \E c \in calls : c.by \in lingering /\ c.inside)
  BY DEF context_switch
<1>3. ~astray' /\ (\A c \in calls' : ~c.inside) => Agrees(desk')
  BY <1>1, <1>2, Parts
<1>4. QED
  BY <1>1, <1>3, Parts, Assembled

\* An event of the mouse.
LEMMA MouseKeeps ==
  ASSUME IInv, mouse_event
  PROVE  IInv'
<1>1. PICK p \in Points, down \in BOOLEAN :
         LET press == down /\ ~mouse.down
             closed == IF press /\ ClosesAt(desk, p.x, p.y)
                       THEN {desk.win[hit_test_window(desk, p.x, p.y)].owner} ELSE {}
         IN  /\ down \/ mouse.down
             /\ down => events < MAX_EVENTS
             /\ events' = IF down THEN events + 1 ELSE events
             /\ desk' = gui_handle_mouse_event(desk, p.x, p.y, down)
             /\ mouse' = IF down THEN [x |-> p.x, y |-> p.y, down |-> TRUE] ELSE ButtonUp
             /\ lingering' \in {lingering, IF lingering = {} THEN closed ELSE lingering}
             /\ calls' = {c \in calls : c.by \notin closed \/ c.by \in lingering'}
             /\ astray' = IF press /\ closed = {}
                             /\ hit_test_window(desk, p.x, p.y) # INVALID_SLOT
                          THEN FALSE ELSE astray
  BY DEF mouse_event
<1> DEFINE x == p.x
           y == p.y
           slot == hit_test_window(desk, x, y)
           press == down /\ ~mouse.down
           closed == IF press /\ ClosesAt(desk, x, y) THEN {desk.win[slot].owner} ELSE {}
<1>2. UNCHANGED <<started, late, moved>>
  BY DEF mouse_event
<1>3. /\ down \/ mouse.down
      /\ desk' = gui_handle_mouse_event(desk, x, y, down)
      /\ mouse' = IF down THEN [x |-> x, y |-> y, down |-> TRUE] ELSE ButtonUp
      /\ lingering' \in {lingering, IF lingering = {} THEN closed ELSE lingering}
      /\ calls' = {c \in calls : c.by \notin closed \/ c.by \in lingering'}
  BY <1>1
<1>4. astray' = IF press /\ closed = {} /\ slot # INVALID_SLOT THEN FALSE ELSE astray
  BY <1>1
<1>5. events' \in 0 .. MAX_EVENTS
  BY <1>1, Parts, WindowsAssumption
<1>6. x \in Int /\ y \in Int
  BY WindowsAssumption
<1> HIDE DEF x, y
<1>7. mouse' \in [x : Int, y : Int, down : BOOLEAN]
  BY <1>3, <1>6 DEF ButtonUp
<1>8. calls' \subseteq [by : Process, of : Process, inside : BOOLEAN]
  BY <1>3, Parts
<1>9. CASE ~down
  <2>1. mouse.down /\ ~press /\ closed = {} /\ down = FALSE /\ mouse' = ButtonUp
    BY <1>3, <1>9
  <2>2. /\ Good(desk') /\ Shown(desk') /\ desk'.cursor_drawn /\ desk'.ghost = desk.ghost
        /\ ~desk'.drag.on /\ ~desk'.resize.on
        /\ Owners(desk') = Owners(desk) /\ desk'.alive = desk.alive
        /\ Agrees(desk) => Agrees(desk')
    BY <1>3, <1>6, <2>1, MouseReleases
  <2>3. lingering' = lingering /\ calls' = calls /\ astray' = astray
    BY <1>3, <1>4, <2>1
  <2>4. Settled(desk', mouse'.x, mouse'.y)
    BY <2>2 DEF Settled
  <2>5. desk'.ghost \/ ~Settled(desk', mouse'.x, mouse'.y) => moved'
    BY <1>2, <2>2, <2>4, Parts
  <2>6. ~astray' /\ (\A c \in calls' : ~c.inside) => Agrees(desk')
    BY <2>2, <2>3, Parts
  <2>7. QED
    BY <1>2, <1>5, <1>7, <1>8, <2>2, <2>3, <2>5, <2>6, Parts, Assembled
<1>10. CASE down /\ mouse.down
  <2>1. ~press /\ closed = {} /\ down = TRUE
    BY <1>10
  <2>2. mouse'.x = x /\ mouse'.y = y /\ mouse'.down
    BY <1>3, <2>1
  <2>3. Followed(desk', desk, x, y) /\ desk'.cursor_drawn /\ (desk'.ghost => moved)
        /\ (Agrees(desk) => Agrees(desk'))
    BY <1>3, <1>6, <1>10, <2>1, MouseMoves
  <2>4. /\ Good(desk') /\ Shown(desk') /\ Settled(desk', x, y)
        /\ Owners(desk') = Owners(desk) /\ desk'.alive = desk.alive
    BY <2>3 DEF Followed
  <2>5. lingering' = lingering /\ calls' = calls /\ astray' = astray
    BY <1>3, <1>4, <2>1
  <2>6. desk'.ghost \/ ~Settled(desk', mouse'.x, mouse'.y) => moved'
    BY <1>2, <2>2, <2>3, <2>4
  <2>7. ~astray' /\ (\A c \in calls' : ~c.inside) => Agrees(desk')
    BY <2>3, <2>5, Parts
  <2>8. QED
    BY <1>2, <1>5, <1>7, <1>8, <2>2, <2>3, <2>4, <2>5, <2>6, <2>7, Parts, Assembled
<1>11. CASE press /\ ClosesAt(desk, x, y)
  <2>1. down = TRUE /\ ~mouse.down /\ closed = {desk.win[slot].owner}
    BY <1>11
  <2>2. mouse'.x = x /\ mouse'.y = y /\ mouse'.down
    BY <1>3, <2>1
  <2>3. /\ slot \in Used(desk)
        /\ Good(desk') /\ Shown(desk') /\ desk'.cursor_drawn /\ ~desk'.ghost /\ Agrees(desk')
        /\ ~desk'.drag.on /\ ~desk'.resize.on
        /\ desk'.alive = desk.alive \ {desk.win[slot].owner}
        /\ Owners(desk') = Owners(desk) \ {desk.win[slot].owner}
    BY <1>3, <1>6, <1>11, <2>1, PressCloses
  <2>4. desk.win[slot].owner \in Owners(desk)
    BY <2>3 DEF Owners
  <2>5. lingering' \subseteq started'
    BY <1>2, <1>3, <2>1, <2>4, Parts
  <2>6. Owners(desk') \subseteq (desk'.alive \cup late') \cap started' /\ desk'.alive \subseteq started'
    BY <1>2, <2>3, Parts
  <2>7. Settled(desk', mouse'.x, mouse'.y)
    BY <2>3 DEF Settled
  <2>8. QED
    BY <1>2, <1>5, <1>7, <1>8, <2>2, <2>3, <2>5, <2>6, <2>7, Parts, Assembled
<1>12. CASE press /\ ~ClosesAt(desk, x, y) /\ slot # INVALID_SLOT
  <2>1. down = TRUE /\ ~mouse.down /\ closed = {}
    BY <1>12
  <2>2. mouse'.x = x /\ mouse'.y = y /\ mouse'.down
    BY <1>3, <2>1
  <2>3. /\ Good(desk') /\ Shown(desk') /\ desk'.cursor_drawn /\ desk'.ghost = desk.ghost
        /\ Agrees(desk') /\ Settled(desk', x, y)
        /\ Owners(desk') = Owners(desk) /\ desk'.alive = desk.alive
    BY <1>3, <1>6, <1>12, <2>1, PressTakes
  <2>4. lingering' = lingering
    BY <1>3, <2>1
  <2>5. desk'.ghost \/ ~Settled(desk', mouse'.x, mouse'.y) => moved'
    BY <1>2, <2>2, <2>3, Parts
  <2>6. QED
    BY <1>2, <1>5, <1>7, <1>8, <2>2, <2>3, <2>4, <2>5, Parts, Assembled
<1>13. CASE press /\ slot = INVALID_SLOT
  <2>1. down = TRUE /\ ~mouse.down /\ closed = {}
    BY <1>13 DEF ClosesAt
  <2>2. mouse'.x = x /\ mouse'.y = y /\ mouse'.down
    BY <1>3, <2>1
  <2>3. /\ Good(desk') /\ Shown(desk') /\ desk'.cursor_drawn /\ desk'.ghost = desk.ghost
        /\ ~desk'.drag.on /\ ~desk'.resize.on
        /\ Owners(desk') = Owners(desk) /\ desk'.alive = desk.alive
        /\ Agrees(desk) => Agrees(desk')
    BY <1>3, <1>6, <1>13, <2>1, PressMisses
  <2>4. lingering' = lingering /\ calls' = calls /\ astray' = astray
    BY <1>3, <1>4, <1>13, <2>1
  <2>5. Settled(desk', mouse'.x, mouse'.y)
    BY <2>3 DEF Settled
  <2>6. desk'.ghost \/ ~Settled(desk', mouse'.x, mouse'.y) => moved'
    BY <1>2, <2>3, <2>5, Parts
  <2>7. ~astray' /\ (\A c \in calls' : ~c.inside) => Agrees(desk')
    BY <2>3, <2>4, Parts
  <2>8. QED
    BY <1>2, <1>5, <1>7, <1>8, <2>2, <2>3, <2>4, <2>6, <2>7, Parts, Assembled
<1>14. QED
  BY <1>9, <1>10, <1>11, <1>12, <1>13

-----------------------------------------------------------------------------
(* The theorems                                                            *)

\* kernel_main: the desktop with the shell's window.
LEMMA InitInv ==
  ASSUME Init
  PROVE  IInv
<1> DEFINE base == [win |-> [s \in Slot |-> FreeWindow], count |-> 0, z |-> << >>, active |-> INVALID_SLOT,
                    drag |-> NoGrab, resize |-> NoResize,
                    foreground |-> NULL, stack |-> << >>, alive |-> {Shell},
                    picture |-> [s \in Slot |-> Blank], residue |-> {}, on_top |-> INVALID_SLOT,
                    cursor_drawn |-> TRUE, ghost |-> FALSE]
           b == request_new_window(base, Shell)
<1>1. /\ desk = draw_workspace(b)
      /\ mouse = ButtonUp /\ calls = {Call(Shell, Shell)} /\ lingering = {}
      /\ started = {Shell} /\ late = {} /\ events = 0
  BY DEF Init, Booted
<1>2. FreeWindow \in Window /\ Blank \in Frame /\ FreeWindow.in_use = FALSE
  <2>1. FreeWindow \in Window /\ Blank \in Frame
    BY WindowsAssumption DEF FreeWindow, Window, Blank, Frame
  <2>2. FreeWindow.in_use = FALSE
    BY DEF FreeWindow
  <2>3. QED
    BY <2>1, <2>2
<1>3. base \in Desk
  BY <1>2, NoGrabs, WindowsAssumption DEF Desk
<1>4. /\ base.win = [s \in Slot |-> FreeWindow] /\ base.count = 0 /\ base.z = << >>
      /\ base.active = INVALID_SLOT /\ base.drag = NoGrab /\ base.resize = NoResize
      /\ base.foreground = NULL /\ base.stack = << >> /\ base.alive = {Shell}
  OBVIOUS
<1> HIDE DEF base
<1>5. Used(base) = {} /\ Owners(base) = {}
  <2>1. Used(base) = {}
    BY <1>2, <1>4 DEF Used
  <2>2. QED
    BY <2>1 DEF Owners
<1>6. Exact(base)
  <2>1. ToSet(base.z) = {} /\ IsInjective(base.z) /\ Len(base.z) = 0
    BY <1>4 DEF ToSet, IsInjective
  <2>2. Cardinality(Used(base)) = 0
    BY <1>5, FS_EmptySet
  <2>3. QED
    BY <1>4, <1>5, <2>1, <2>2 DEF Exact, Top
<1>7. Good(base)
  <2>1. AllFit(base) /\ Held(base)
    BY <1>4, <1>5, NoGrabs DEF AllFit, Held
  <2>2. Len(base.stack) <= MAX_PROCESSES
    BY <1>4, WindowsAssumption
  <2>3. QED
    BY <1>3, <1>6, <2>1, <2>2 DEF Good
<1>8. /\ Good(b) /\ Owners(b) \subseteq {Shell} /\ b.drag = NoGrab /\ b.resize = NoResize
      /\ b.foreground = NULL /\ b.alive = {Shell}
  <2>1. Shell \in Process /\ Shell \notin Owners(base)
    BY <1>5, WindowsAssumption
  <2>2. CASE b = base
    BY <1>4, <1>5, <1>7, <2>2
  <2>3. CASE b # base
    <3>1. /\ Good(b) /\ b.drag = base.drag /\ b.resize = base.resize
          /\ b.foreground = base.foreground /\ b.alive = base.alive
          /\ Used(b) = Used(base) \cup {b.active} /\ b.win[b.active].owner = Shell
      BY <1>7, <2>1, <2>3, RequestWindow
    <3>2. Owners(b) \subseteq {Shell}
      BY <1>5, <3>1 DEF Owners
    <3>3. QED
      BY <1>4, <3>1, <3>2
  <2>4. QED
    BY <2>2, <2>3
<1> HIDE DEF b
<1>9. /\ desk \in Desk /\ Same(desk, b) /\ Shown(desk) /\ desk.ghost = FALSE /\ desk.cursor_drawn = TRUE
  BY <1>1, <1>8, DrawWorkspace DEF Good
<1>10. Good(desk) /\ Owners(desk) = Owners(b)
  BY <1>8, <1>9, SameGood, SameMeans
<1>11. desk.drag = NoGrab /\ desk.resize = NoResize /\ desk.foreground = NULL /\ desk.alive = {Shell}
  BY <1>8, <1>9 DEF Same
<1>12. ~desk.drag.on /\ ~desk.resize.on
  BY <1>11, NoGrabs
<1>13. Settled(desk, mouse.x, mouse.y)
  BY <1>12 DEF Settled
<1>14. Agrees(desk)
  BY <1>11 DEF Agrees
<1>15. Len(desk.z) <= MAX_WINDOWS /\ Len(desk.stack) <= MAX_PROCESSES
  BY <1>10, WindowsAssumption DEF Good, Exact, Desk
<1>16. Typed
  <2>1. mouse \in [x : Int, y : Int, down : BOOLEAN]
    BY <1>1 DEF ButtonUp
  <2>2. calls \subseteq [by : Process, of : Process, inside : BOOLEAN]
    BY <1>1, WindowsAssumption DEF Call
  <2>3. started \subseteq Process /\ lingering \subseteq started /\ late \subseteq Process
        /\ events \in 0 .. MAX_EVENTS
    BY <1>1, WindowsAssumption
  <2>4. desk.alive \subseteq started
    BY <1>1, <1>11
  <2>5. QED
    BY <1>9, <1>15, <2>1, <2>2, <2>3, <2>4 DEF Typed
<1>17. Owners(desk) \subseteq (desk.alive \cup late) \cap started
  BY <1>1, <1>8, <1>10, <1>11
<1>18. QED
  BY <1>9, <1>10, <1>12, <1>13, <1>14, <1>16, <1>17 DEF IInv

LEMMA StutterKeeps ==
  ASSUME IInv, UNCHANGED vars
  PROVE  IInv'
BY Parts, Assembled DEF vars

\* The invariant: as long as no activation was interrupted, and then none is under
\* way.
WholeInv == ~torn => IInv /\ halfway = {}

\* `torn' is for good.
LEMMA TornStays ==
  ASSUME [Next]_vars, ~torn'
  PROVE  ~torn
BY DEF Next, vars, start_process, cmd_edit, open_window, gui_command_new_window, gui_command_redraw,
       gui_command_origin, set_foreground_begin, set_foreground_done, set_foreground_interrupted,
       focus_window_resumed, sys_exit, mouse_event, context_switch

\* Only an interruption makes an activation one that is halfway.
LEMMA NoneHalfway ==
  ASSUME [Next]_vars, ~torn', halfway = {}
  PROVE  halfway' = {}
<1>1. ~set_foreground_interrupted /\ ~focus_window_resumed
  BY DEF set_foreground_interrupted, focus_window_resumed
<1>2. CASE mouse_event
  BY <1>2 DEF mouse_event
<1>3. CASE context_switch
  BY <1>3 DEF context_switch
<1>4. CASE ~mouse_event /\ ~context_switch
  BY <1>1, <1>4 DEF Next, vars, start_process, cmd_edit, open_window, gui_command_new_window,
     gui_command_redraw, gui_command_origin, set_foreground_begin, set_foreground_done, sys_exit
<1>5. QED
  BY <1>2, <1>3, <1>4

LEMMA NextInv ==
  ASSUME WholeInv, [Next]_vars
  PROVE  WholeInv'
<1> SUFFICES ASSUME ~torn' PROVE IInv' /\ halfway' = {}
  BY DEF WholeInv
<1>1. IInv /\ halfway = {}
  BY TornStays DEF WholeInv
<1>2. ~set_foreground_interrupted /\ ~focus_window_resumed
  BY <1>1 DEF set_foreground_interrupted, focus_window_resumed
<1>3. IInv'
  BY <1>1, <1>2, StartKeeps, EditKeeps, OpenKeeps, RaiseKeeps, RedrawKeeps, OriginKeeps,
     SetBeginKeeps, SetDoneKeeps, ExitKeeps, MouseKeeps, SwitchKeeps, StutterKeeps DEF Next
<1>4. halfway' = {}
  BY <1>1, NoneHalfway
<1>5. QED
  BY <1>3, <1>4

LEMMA WholeStays == Spec => []WholeInv
<1>1. Init => WholeInv
  BY InitInv DEF Init, WholeInv
<1>2. WholeInv /\ [Next]_vars => WholeInv'
  BY NextInv
<1>3. QED
  BY <1>1, <1>2, PTL DEF Spec

\* Stack, grabs, frames, owners, focus and screen keep together through every
\* call of the programs and every event of the mouse, until one comes into an
\* activate_process that runs in process context.
THEOREM DesktopInvariant == Spec => [](~torn => IInv)
<1>1. WholeInv => (~torn => IInv)
  BY DEF WholeInv
<1>2. QED
  BY <1>1, WholeStays, PTL

\* Type correctness of the desktop: there are never more windows than slots, and
\* the stack of earlier foreground processes does not overflow, as long as no
\* activation is interrupted.
THEOREM WindowsTypeCorrect == Spec => [](~torn => TypeOK)
<1>1. WholeInv => (~torn => TypeOK)
  BY DEF WholeInv, IInv, Typed, TypeOK
<1>2. QED
  BY <1>1, WholeStays, PTL

\* g_z_order holds exactly the windows in use, each once, g_window_count is their
\* number, no process has two and the active one is on top, as long as no
\* activation is interrupted.
THEOREM StackStaysExact == Spec => [](~torn => StackIsExact)
<1>1. IInv => StackIsExact
  <2> SUFFICES ASSUME IInv PROVE StackIsExact
    OBVIOUS
  <2>1. Exact(desk)
    BY DEF IInv, Good
  <2>2. QED
    BY <2>1 DEF Exact, StackIsExact, Used, Top
<1>2. QED
  BY <1>1, DesktopInvariant, PTL

\* What the mouse drags or resizes is a window in use, held only while the button
\* is down and in one way, as long as no activation is interrupted.
THEOREM GrabsStayLive == Spec => [](~torn => GrabsAreLive)
<1>1. IInv => GrabsAreLive
  <2> SUFFICES ASSUME IInv PROVE GrabsAreLive
    OBVIOUS
  <2>1. Held(desk) /\ (desk.drag.on \/ desk.resize.on => mouse.down)
    BY DEF IInv, Good
  <2>2. QED
    BY <2>1, SlotValid DEF Held, GrabsAreLive
<1>2. QED
  BY <1>1, DesktopInvariant, PTL

\* Every frame lies on the screen and shows at least the minimum of columns and
\* rows, whatever is dragged, resized, opened or moved by a program, as long as no
\* activation is interrupted.
THEOREM FramesStayFit == Spec => [](~torn => FramesFit)
<1>1. IInv => FramesFit
  <2> SUFFICES ASSUME IInv PROVE FramesFit
    OBVIOUS
  <2>1. AllFit(desk)
    BY DEF IInv, Good
  <2>2. QED
    BY <2>1 DEF AllFit, Used, Fits, FramesFit
<1>2. QED
  BY <1>1, DesktopInvariant, PTL

\* A window belongs to a process that lives, or that printed after the close
\* button had killed it, as long as no activation is interrupted.
THEOREM WindowsOfTheLiving == Spec => [](~torn => DeadOwnNoWindow)
<1>1. IInv => DeadOwnNoWindow
  <2> SUFFICES ASSUME IInv PROVE DeadOwnNoWindow
    OBVIOUS
  <2>1. Owners(desk) \subseteq desk.alive \cup late
    BY DEF IInv
  <2>2. QED
    BY <2>1 DEF Owners, Used, DeadOwnNoWindow
<1>2. QED
  BY <1>1, DesktopInvariant, PTL

\* The window of the foreground process is the active one, unless a program raised
\* its window by itself or scheduler_set_foreground was overtaken or interrupted.
THEOREM FocusStaysTogether == Spec => []FocusAgrees
<1>1. (~torn => IInv) => FocusAgrees
  <2> SUFFICES ASSUME IInv, ~torn, ~astray, \A c \in calls : ~c.inside,
                      desk.foreground # NULL, find_window_index(desk, desk.foreground) # INVALID_SLOT
               PROVE  desk.active = find_window_index(desk, desk.foreground)
    BY DEF FocusAgrees
  <2>1. Agrees(desk)
    BY DEF IInv
  <2>2. desk.foreground \in Owners(desk)
    BY FindWindow
  <2>3. /\ find_window_index(desk, desk.foreground) \in Used(desk)
        /\ desk.win[find_window_index(desk, desk.foreground)].owner = desk.foreground
    BY <2>2, FindWindow
  <2>4. QED
    BY <2>1, <2>3 DEF Agrees
<1>2. QED
  BY <1>1, DesktopInvariant, PTL

\* The screen shows every window where it is, nothing where it was, the active one
\* in front, and the cursor once, until something comes into an activation.
THEOREM ScreenStaysCurrent == Spec => []ScreenIsCurrent
<1>1. (~torn => IInv) => ScreenIsCurrent
  <2> SUFFICES ASSUME IInv, ~torn PROVE ScreenIsCurrent
    BY DEF ScreenIsCurrent
  <2>1. Shown(desk)
    BY DEF IInv
  <2>2. desk.cursor_drawn /\ (desk.ghost => moved)
    BY DEF IInv
  <2>3. \A s \in Slot : s \in Used(desk) <=> desk.win[s].in_use
    BY DEF Used
  <2>4. QED
    BY <2>1, <2>2, <2>3 DEF Shown, ScreenIsCurrent
<1>2. QED
  BY <1>1, DesktopInvariant, PTL

\* Only an event of the mouse moves the mouse.
LEMMA MouseSteps ==
  ASSUME [Next]_vars, mouse' # mouse
  PROVE  mouse_event
BY DEF Next, vars, start_process, cmd_edit, open_window, gui_command_new_window, gui_command_redraw,
       gui_command_origin, set_foreground_begin, set_foreground_done, set_foreground_interrupted,
       focus_window_resumed, sys_exit, context_switch

\* Resizing leaves the edges that are not held where they were when the button
\* went down, for every font, frame and way of the mouse, as long as no activation
\* is interrupted.
THEOREM ResizingAnchors == Spec => [][~torn => ResizeStep]_vars
<1>1. IInv /\ [Next]_vars => [ResizeStep]_vars
  <2> SUFFICES ASSUME IInv, [Next]_vars, desk.resize.on, desk'.resize = desk.resize, mouse' # mouse
               PROVE  LET f == desk.resize.frame
                          w == desk'.win[desk.resize.slot]
                          held == desk.resize.edges
                      IN  /\ IF "left" \in held THEN w.x + frame_width(w) = f.x + f.width ELSE w.x = f.x
                          /\ IF "top" \in held THEN w.y + frame_height(w) = f.y + f.height ELSE w.y = f.y
                          /\ held \cap {"left", "right"} = {} => frame_width(w) = f.width
                          /\ held \cap {"top", "bottom"} = {} => frame_height(w) = f.height
    BY DEF ResizeStep
  <2>1. mouse_event
    BY MouseSteps
  <2>2. PICK p \in Points, down \in BOOLEAN : desk' = gui_handle_mouse_event(desk, p.x, p.y, down)
    BY <2>1 DEF mouse_event
  <2>3. mouse.down /\ p.x \in Int /\ p.y \in Int /\ Good(desk)
    BY Parts, WindowsAssumption
  <2>4. down = TRUE
    <3> SUFFICES ASSUME down = FALSE PROVE FALSE
      OBVIOUS
    <3>1. ~desk'.resize.on
      BY <2>2, <2>3, MouseReleases
    <3>2. QED
      BY <3>1
  <2>5. Followed(desk', desk, p.x, p.y)
    BY <2>2, <2>3, <2>4, MouseMoves
  <2>6. desk'.win[desk.resize.slot] = ResizeResult(desk, p.x, p.y)
    BY <2>5 DEF Followed
  <2>7. QED
    BY <2>3, <2>6, ResizeResultAnchors
<1>2. QED
  <2>1. (~torn => IInv) /\ [Next]_vars => [~torn => ResizeStep]_vars
    BY <1>1
  <2>2. QED
    BY <2>1, DesktopInvariant, PTL DEF Spec

\* A press acts on the topmost window under the mouse: its owner gets the
\* foreground and it comes to the top, or, on the close button, its owner ends, until
\* something comes into an activation.
THEOREM ClickFocuses == Spec => ClickTakesFocus
<1>1. (~torn => IInv) /\ [Next]_vars => [ClickStep]_vars
  <2> SUFFICES ASSUME IInv, [Next]_vars, ~mouse.down, mouse'.down, NEW i \in DOMAIN desk.z,
                      Inside(desk.win[desk.z[i]], mouse'.x, mouse'.y),
                      \A j \in DOMAIN desk.z : j > i => ~Inside(desk.win[desk.z[j]], mouse'.x, mouse'.y)
               PROVE  LET s == desk.z[i]
                          w == desk.win[s]
                      IN  IF OnCloseButton(w, mouse'.x, mouse'.y)
                          THEN desk'.alive = desk.alive \ {w.owner} /\ ~desk'.win[s].in_use
                          ELSE /\ desk'.foreground = w.owner /\ desk'.active = s /\ Last(desk'.z) = s
                               /\ \A g \in {desk'.drag, desk'.resize} : g.on => g.slot = s
                               /\ OnTitleBar(w, mouse'.y) => desk'.drag.on \/ desk'.resize.on
    BY DEF ClickStep
  <2> DEFINE s == desk.z[i]
             w == desk.win[s]
  <2>1. mouse_event
    BY MouseSteps
  <2>2. PICK p \in Points, down \in BOOLEAN :
          /\ desk' = gui_handle_mouse_event(desk, p.x, p.y, down)
          /\ mouse' = IF down THEN [x |-> p.x, y |-> p.y, down |-> TRUE] ELSE ButtonUp
    BY <2>1 DEF mouse_event
  <2>3. down = TRUE
    BY <2>2 DEF ButtonUp
  <2> DEFINE x == p.x
             y == p.y
  <2>4. mouse'.x = x /\ mouse'.y = y
    BY <2>2, <2>3
  <2>5. x \in Int /\ y \in Int /\ desk' = gui_handle_mouse_event(desk, x, y, TRUE)
    BY <2>2, <2>3, WindowsAssumption
  <2> HIDE DEF x, y
  <2>6. Good(desk)
    BY Parts
  <2>6a. /\ Inside(desk.win[desk.z[i]], x, y)
         /\ \A j \in DOMAIN desk.z : j > i => ~Inside(desk.win[desk.z[j]], x, y)
    BY <2>4
  <2>7. hit_test_window(desk, x, y) = s
    BY <2>6, <2>6a, HitTest
  <2>8. s \in Used(desk) /\ s \in Slot /\ s # INVALID_SLOT
    <3>1. s \in ToSet(desk.z)
      BY <2>6 DEF ToSet
    <3>2. s \in Used(desk)
      BY <2>6, <3>1 DEF Good, Exact
    <3>3. QED
      BY <3>2, WindowsAssumption DEF Used, Slot, INVALID_SLOT
  <2>9. CASE OnCloseButton(w, x, y)
    <3>1. ClosesAt(desk, x, y)
      BY <2>7, <2>8, <2>9 DEF ClosesAt
    <3> DEFINE slot == hit_test_window(desk, x, y)
    <3>1a. desk'.alive = desk.alive \ {desk.win[slot].owner} /\ slot \notin Used(desk')
      BY <2>5, <3>1, PressCloses
    <3> HIDE DEF slot
    <3>2. desk'.alive = desk.alive \ {w.owner} /\ s \notin Used(desk')
      BY <2>7, <3>1a DEF slot
    <3>3. ~desk'.win[s].in_use
      BY <2>8, <3>2 DEF Used
    <3>4. QED
      BY <2>4, <2>9, <3>2, <3>3
  <2>10. CASE ~OnCloseButton(w, x, y)
    <3>1. ~ClosesAt(desk, x, y)
      BY <2>7, <2>10 DEF ClosesAt
    <3> DEFINE slot == hit_test_window(desk, x, y)
    <3>1a. slot # INVALID_SLOT
      BY <2>7, <2>8
    <3>1b. /\ desk'.foreground = desk.win[slot].owner /\ desk'.active = slot /\ Last(desk'.z) = slot
           /\ \A g \in {desk'.drag, desk'.resize} : g.on => g.slot = slot
           /\ OnTitleBar(desk.win[slot], y) => desk'.drag.on \/ desk'.resize.on
      BY <2>5, <3>1, <3>1a, PressTakes
    <3> HIDE DEF slot
    <3>1c. slot = s
      BY <2>7 DEF slot
    <3> HIDE DEF s
    <3>2. /\ desk'.foreground = w.owner /\ desk'.active = s /\ Last(desk'.z) = s
          /\ \A g \in {desk'.drag, desk'.resize} : g.on => g.slot = s
          /\ OnTitleBar(w, y) => desk'.drag.on \/ desk'.resize.on
      BY <3>1b, <3>1c
    <3>3. QED
      BY <2>4, <2>10, <3>2 DEF s
  <2>11. QED
    BY <2>9, <2>10
<1>2. QED
  BY <1>1, DesktopInvariant, PTL DEF Spec, ClickTakesFocus
=============================================================================
