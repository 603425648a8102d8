-------------------------- MODULE FramebufferProofs --------------------------
(***************************************************************************)
(* Proofs about Framebuffer, for glyphs and screens of every size.         *)
(*                                                                         *)
(* The argument: all glyphs on the screen are in the line of the cursor or *)
(* above it by a line at least, and those in its line end left of it unless *)
(* a carriage return has moved it back.  Both newline and clear keep this. *)
(***************************************************************************)
EXTENDS Framebuffer, TLAPS

CursorType ==
  [x : Nat, y : Nat, glyphs : SUBSET (Nat \X Nat), returned : BOOLEAN]

\* The position of the cursor relative to the glyphs.
Placed(c) ==
  /\ c.x >= BORDER_PADDING /\ c.y >= BORDER_PADDING
  /\ \A g \in c.glyphs : g[2] = c.y \/ g[2] + CharHeight <= c.y
  /\ ~c.returned => \A g \in c.glyphs : g[2] = c.y => g[1] + CharWidth <= c.x

InsideScreen(g) ==
  /\ BORDER_PADDING <= g[1] /\ g[1] + CharWidth <= info.width
  /\ BORDER_PADDING <= g[2] /\ g[2] + CharHeight <= info.height

Inside(c) == HoldsGlyph => \A g \in c.glyphs : InsideScreen(g)

\* The inductive invariant.
IInv ==
  /\ info \in Screens
  /\ panicked \in BOOLEAN
  /\ panicked => ~HoldsGlyph
  /\ Cursor \in CursorType
  /\ Placed(Cursor)
  /\ Inside(Cursor)

\* Lines of pixels are laid out one after the other: what is in a row above the
\* last one and left of the stride is in the buffer.
LEMMA RowsFit ==
  ASSUME NEW a \in Nat, NEW h \in Nat, NEW s \in Nat, a + 1 <= h
  PROVE  a * s + s <= h * s
<1>1. PICK d \in Nat : h = (a + 1) + d
  <2>1. h - (a + 1) \in Nat /\ h = (a + 1) + (h - (a + 1))
    OBVIOUS
  <2>2. QED
    BY <2>1
<1>2. h * s = (a * s + s) + d * s
  BY <1>1
<1>3. d * s \in Nat /\ a * s \in Nat
  OBVIOUS
<1>4. QED
  BY <1>2, <1>3

\* A new line is below everything, so nothing of it is used.
LEMMA NewlinePlaced ==
  ASSUME NEW c \in CursorType, Placed(c), Inside(c)
  PROVE  /\ newline(c) \in CursorType
         /\ Placed(newline(c))
         /\ Inside(newline(c))
         /\ newline(c).x = BORDER_PADDING
         /\ newline(c).y = c.y + CharHeight + LINE_SPACING
         /\ newline(c).glyphs = c.glyphs
         /\ newline(c) = [x |-> newline(c).x, y |-> newline(c).y,
                          glyphs |-> newline(c).glyphs, returned |-> newline(c).returned]
<1> DEFINE d == newline(c)
<1>1. /\ d.x = 1 /\ d.y = c.y + CharHeight + 2
      /\ d.glyphs = c.glyphs /\ d.returned = FALSE
      /\ d \in CursorType
  <2>1. d = [x |-> 1, y |-> c.y + CharHeight + 2, glyphs |-> c.glyphs, returned |-> FALSE]
    <3> DEFINE e == [c EXCEPT !.y = @ + CharHeight + LINE_SPACING]
               f == carriage_return(e)
    <3>1. e = [x |-> c.x, y |-> c.y + CharHeight + 2, glyphs |-> c.glyphs,
               returned |-> c.returned]
      BY DEF CursorType, LINE_SPACING
    <3>2. d = [f EXCEPT !.returned = FALSE] /\ f = [e EXCEPT !.x = 1]
      BY DEF newline, carriage_return, BORDER_PADDING
    <3> HIDE DEF d, e, f
    <3>3. f = [x |-> 1, y |-> c.y + CharHeight + 2, glyphs |-> c.glyphs,
               returned |-> c.returned]
      BY <3>1, <3>2
    <3>4. \A v : [f EXCEPT !.returned = v] =
                   [x |-> 1, y |-> c.y + CharHeight + 2, glyphs |-> c.glyphs, returned |-> v]
      BY <3>3
    <3>5. QED
      BY <3>2, <3>4, Zenon
  <2>2. c.y + CharHeight + 2 \in Nat /\ c.glyphs \in SUBSET (Nat \X Nat)
    BY FontAssumption DEF CursorType
  <2> HIDE DEF d
  <2>3. QED
    BY <2>1, <2>2 DEF CursorType
<1>2. \A g \in c.glyphs : g[1] \in Nat /\ g[2] \in Nat
  BY DEF CursorType
<1>3. c.x \in Nat /\ c.y \in Nat
  BY DEF CursorType
<1>4. \A g \in c.glyphs : g[2] + CharHeight <= c.y + CharHeight
  BY <1>2, <1>3, FontAssumption DEF Placed
<1>5. \A g \in d.glyphs : g[2] + CharHeight <= d.y /\ g[2] # d.y
  BY <1>1, <1>2, <1>3, <1>4, FontAssumption
<1>6. Placed(d)
  BY <1>1, <1>3, <1>5, FontAssumption DEF Placed, BORDER_PADDING
<1>7. Inside(d)
  BY <1>1 DEF Inside
<1>8. d = [x |-> d.x, y |-> d.y, glyphs |-> d.glyphs, returned |-> d.returned]
  <2> HIDE DEF d
  <2>1. QED
    BY <1>1 DEF CursorType
<1>9. QED
  BY <1>1, <1>6, <1>7, <1>8 DEF BORDER_PADDING, LINE_SPACING

\* On an empty screen there is nothing to overwrite.
LEMMA ClearPlaced ==
  ASSUME NEW c
  PROVE  /\ clear(c) \in CursorType /\ Placed(clear(c)) /\ Inside(clear(c))
         /\ clear(c).x = BORDER_PADDING /\ clear(c).y = BORDER_PADDING
         /\ clear(c).glyphs = {}
  BY DEF clear, CursorType, Placed, Inside, BORDER_PADDING

\* Where write_char draws a glyph: on free space and, if the screen holds a glyph,
\* inside of it.
LEMMA DrawingPlace ==
  ASSUME IInv, NEW c, c = Scrolled(Wrapped(Cursor))
  PROVE  /\ c \in CursorType
         /\ Placed(c)
         /\ Inside(c)
         /\ HoldsGlyph => c.x + CharWidth <= info.width /\ c.y + CharHeight <= info.height
         /\ c.glyphs # glyphs => y_pos + 2 * (CharHeight + LINE_SPACING) > info.height
<1> DEFINE w == Wrapped(Cursor)
<1>0. /\ Cursor \in CursorType /\ Placed(Cursor) /\ Inside(Cursor)
      /\ Cursor.x = x_pos /\ Cursor.y = y_pos /\ Cursor.glyphs = glyphs
      /\ info.width \in Nat /\ info.height \in Nat
  BY ScreensAssumption DEF IInv, Cursor
<1>1. /\ w \in CursorType /\ Placed(w) /\ Inside(w)
      /\ w.glyphs = glyphs
      /\ HoldsGlyph => w.x + CharWidth <= info.width
      /\ w.y \in {y_pos, y_pos + CharHeight + LINE_SPACING}
  <2>1. CASE Cursor.x + CharWidth >= info.width
    <3>1. w = newline(Cursor)
      BY <2>1 DEF Wrapped
    <3>2. QED
      BY <3>1, <1>0, NewlinePlaced DEF HoldsGlyph
  <2>2. CASE ~(Cursor.x + CharWidth >= info.width)
    <3>1. w = Cursor
      BY <2>2 DEF Wrapped
    <3>2. x_pos + CharWidth <= info.width
      BY <2>2, <1>0, FontAssumption DEF CursorType
    <3>3. QED
      BY <3>1, <3>2, <1>0
  <2>3. QED
    BY <2>1, <2>2
<1>2. w.x \in Nat /\ w.y \in Nat /\ y_pos \in Nat
  BY <1>0, <1>1 DEF CursorType
<1>3. CASE w.y + CharHeight + BORDER_PADDING >= info.height
  <2>1. c = clear(w)
    BY <1>3 DEF Scrolled
  <2>2. y_pos + 2 * (CharHeight + LINE_SPACING) > info.height
    BY <1>0, <1>1, <1>2, <1>3, FontAssumption DEF LINE_SPACING, BORDER_PADDING
  <2>3. QED
    BY <2>1, <2>2, ClearPlaced DEF HoldsGlyph
<1>4. CASE ~(w.y + CharHeight + BORDER_PADDING >= info.height)
  <2>1. c = w
    BY <1>4 DEF Scrolled
  <2>2. w.y + CharHeight <= info.height
    BY <1>0, <1>2, <1>4, FontAssumption DEF BORDER_PADDING
  <2>3. QED
    BY <2>1, <2>2, <1>1
<1>5. QED
  BY <1>3, <1>4

\* No pixel of a glyph inside the screen is out of the buffer's range.
LEMMA LastPixel ==
  ASSUME NEW row \in Int, NEW size \in Int, NEW s \in Int, NEW x \in Int, NEW w \in Int,
         row + s <= size, x + w <= s
  PROVE  ~(row + x + w - 1 >= size)
  OBVIOUS

LEMMA InRange ==
  ASSUME IInv, NEW c \in CursorType, HoldsGlyph,
         c.x + CharWidth <= info.width, c.y + CharHeight <= info.height
  PROVE  ~OutOfRange(c)
<1> DEFINE a == c.y + CharHeight - 1
           s == info.stride
           h == info.height
<1>1. /\ info.width \in Nat /\ h \in Nat /\ s \in Nat /\ s >= info.width
      /\ c.x \in Nat /\ c.y \in Nat
  BY ScreensAssumption DEF IInv, CursorType
<1>2. a \in Nat /\ a + 1 <= h
  BY <1>1, FontAssumption
<1>3. a * s + s <= h * s
  BY <1>1, <1>2, RowsFit
<1>4. a * s \in Nat /\ h * s \in Nat
  BY <1>1, <1>2
<1>5. c.x + CharWidth <= s /\ CharWidth \in Int
  BY <1>1, FontAssumption
<1>6. ~(a * s + c.x + CharWidth - 1 >= h * s)
  <2> HIDE DEF a, s, h
  <2>1. a * s \in Int /\ h * s \in Int /\ s \in Int /\ c.x \in Int
    BY <1>1, <1>4
  <2>2. QED
    BY <2>1, <1>3, <1>5, LastPixel
<1>7. QED
  BY <1>6 DEF OutOfRange

\* A writer that new has just cleared satisfies the invariant.
THEOREM InitIInv == Init => IInv
<1> SUFFICES ASSUME Init PROVE IInv
  OBVIOUS
<1>1. Cursor = [x |-> 1, y |-> 1, glyphs |-> {}, returned |-> FALSE]
  BY DEF Init, Cursor, BORDER_PADDING
<1>2. Cursor \in CursorType /\ Placed(Cursor) /\ Inside(Cursor)
  BY <1>1 DEF CursorType, Placed, Inside, BORDER_PADDING
<1>3. QED
  BY <1>2 DEF Init, IInv

\* Drawing a glyph keeps the invariant.
LEMMA WriteGlyphIInv ==
  ASSUME IInv, WriteGlyph
  PROVE  IInv'
<1> DEFINE c == Scrolled(Wrapped(Cursor))
           d == Advance(DrawRaster(c))
<1>1. /\ c \in CursorType /\ Placed(c) /\ Inside(c)
      /\ HoldsGlyph => c.x + CharWidth <= info.width /\ c.y + CharHeight <= info.height
  BY DrawingPlace
<1>2. info' = info /\ panicked' = OutOfRange(c) /\ Show(d)
  BY DEF WriteGlyph
<1> HIDE DEF c
<1>3. d = [x |-> c.x + CharWidth, y |-> c.y, glyphs |-> c.glyphs \cup {<<c.x, c.y>>},
           returned |-> c.returned]
  <2>1. DrawRaster(c) = [x |-> c.x, y |-> c.y, glyphs |-> c.glyphs \cup {<<c.x, c.y>>},
                         returned |-> c.returned]
    BY <1>1 DEF DrawRaster, CursorType
  <2>2. c.x + CharWidth + LETTER_SPACING = c.x + CharWidth
    BY <1>1, FontAssumption DEF CursorType, LETTER_SPACING
  <2>3. QED
    BY <2>1, <2>2 DEF Advance
<1> HIDE DEF d
<1>4. Cursor' = d
  BY <1>2, <1>3 DEF Show, Cursor
<1>5. c.x \in Nat /\ c.y \in Nat /\ (\A g \in c.glyphs : g[1] \in Nat /\ g[2] \in Nat)
  BY <1>1 DEF CursorType
<1>5a. c.x + CharWidth \in Nat /\ <<c.x, c.y>> \in Nat \X Nat
  BY <1>5, FontAssumption
<1>5b. c.glyphs \cup {<<c.x, c.y>>} \in SUBSET (Nat \X Nat) /\ c.returned \in BOOLEAN
  BY <1>1, <1>5a DEF CursorType
<1>5c. d \in CursorType
  BY <1>3, <1>5, <1>5a, <1>5b DEF CursorType
<1>6. Placed(d)
  BY <1>1, <1>3, <1>5, FontAssumption DEF Placed, BORDER_PADDING
<1>7. HoldsGlyph => \A g \in d.glyphs : InsideScreen(g)
  BY <1>1, <1>3, <1>5 DEF Inside, InsideScreen, Placed
<1>8. Placed(Cursor)' /\ Inside(Cursor)' /\ Cursor' \in CursorType
  BY <1>2, <1>5c, <1>4, <1>6, <1>7 DEF Placed, Inside, InsideScreen, HoldsGlyph
<1>9. panicked' \in BOOLEAN /\ (panicked' => ~HoldsGlyph)
  <2>1. OutOfRange(c) \in BOOLEAN
    BY DEF OutOfRange
  <2>2. HoldsGlyph => ~OutOfRange(c)
    BY <1>1, InRange
  <2>3. QED
    BY <1>2, <2>1, <2>2, Zenon
<1>10. QED
  BY <1>2, <1>8, <1>9 DEF IInv, HoldsGlyph

\* Every character written keeps the invariant.
THEOREM NextIInv == IInv /\ [Next]_vars => IInv'
<1> SUFFICES ASSUME IInv, [Next]_vars PROVE IInv'
  OBVIOUS
<1>0. Cursor \in CursorType /\ Placed(Cursor) /\ Inside(Cursor)
  BY DEF IInv
<1>1. CASE WriteNewline
  <2>1. info' = info /\ panicked' = panicked /\ Cursor' = newline(Cursor)
    <3>1. info' = info /\ panicked' = panicked /\ Show(newline(Cursor))
      BY <1>1 DEF WriteNewline
    <3>2. Cursor' = [x |-> newline(Cursor).x, y |-> newline(Cursor).y,
                     glyphs |-> newline(Cursor).glyphs, returned |-> newline(Cursor).returned]
      BY <3>1 DEF Show, Cursor
    <3>3. Cursor' = newline(Cursor)
      BY <3>2, <1>0, NewlinePlaced
    <3>4. QED
      BY <3>1, <3>3
  <2>2. newline(Cursor) \in CursorType /\ Placed(newline(Cursor)) /\ Inside(newline(Cursor))
    BY <1>0, NewlinePlaced
  <2>3. Placed(Cursor)' /\ Inside(Cursor)' /\ Cursor' \in CursorType
    BY <2>1, <2>2 DEF Placed, Inside, InsideScreen, HoldsGlyph
  <2>4. QED
    BY <2>1, <2>3 DEF IInv, HoldsGlyph
<1>2. CASE WriteCarriageReturn
  <2>1. /\ info' = info /\ panicked' = panicked
        /\ x_pos' = 1 /\ y_pos' = y_pos /\ glyphs' = glyphs /\ returned' = TRUE
    BY <1>2 DEF WriteCarriageReturn, Show, Cursor, carriage_return, BORDER_PADDING
  <2>2. Cursor' \in CursorType
    BY <1>0, <2>1 DEF Cursor, CursorType
  <2>3. Placed(Cursor)' /\ Inside(Cursor)'
    BY <1>0, <2>1 DEF Placed, Inside, InsideScreen, HoldsGlyph, Cursor, BORDER_PADDING
  <2>4. QED
    BY <2>1, <2>2, <2>3 DEF IInv, HoldsGlyph
<1>3. CASE WriteGlyph
  BY <1>3, WriteGlyphIInv
<1>4. CASE UNCHANGED vars
  BY <1>4 DEF vars, IInv, Cursor, Placed, Inside, InsideScreen, HoldsGlyph
<1>5. QED
  BY <1>1, <1>2, <1>3, <1>4 DEF Next

\* The invariant holds in every behaviour of the logger.
THEOREM Invariance == Spec => []IInv
  BY InitIInv, NextIInv, PTL DEF Spec

\* The cursor and the glyphs have their types, and the cursor stays off the upper
\* and left border, for every font and screen.
THEOREM TypeCorrect == Spec => []TypeOK
<1>1. IInv => TypeOK
  BY DEF IInv, TypeOK, Cursor, CursorType, Placed
<1>2. QED
  BY <1>1, Invariance, PTL

\* Whatever is written to a screen that holds one glyph, all glyphs are inside and
\* write_pixel never panics for its index.
THEOREM AlwaysInside == Spec => []GlyphsInside
<1>1. IInv => GlyphsInside
  BY DEF IInv, GlyphsInside, Cursor, Inside, InsideScreen
<1>2. QED
  BY <1>1, Invariance, PTL

\* Without a carriage return no glyph is ever drawn over a visible one.
THEOREM NotOverdrawn == Spec => []NeverOverdrawn
<1>1. IInv => NeverOverdrawn
  <2> SUFFICES ASSUME IInv PROVE NeverOverdrawn
    OBVIOUS
  <2> DEFINE c == Scrolled(Wrapped(Cursor))
  <2>1. c \in CursorType /\ Placed(c)
    BY DrawingPlace
  <2> HIDE DEF c
  <2>2. ASSUME ~c.returned, NEW g \in c.glyphs PROVE ~Overlap(g, <<c.x, c.y>>)
    <3>1. g[1] \in Nat /\ g[2] \in Nat /\ c.x \in Nat /\ c.y \in Nat
      BY <2>1 DEF CursorType
    <3>2. g[2] + CharHeight <= c.y \/ g[1] + CharWidth <= c.x
      BY <2>1, <2>2 DEF Placed
    <3>3. QED
      BY <3>1, <3>2, FontAssumption DEF Overlap
  <2>3. QED
    BY <2>2 DEF NeverOverdrawn, c
<1>2. QED
  BY <1>1, Invariance, PTL

\* A step that erases text draws a glyph and had no room for another line.
THEOREM ErasesLate == Spec => ErasesOnlyWhenFull
<1>1. IInv /\ [Next]_vars => [EraseStep]_vars
  <2> SUFFICES ASSUME IInv, Next, ~(glyphs \subseteq glyphs')
               PROVE  WriteGlyph /\ y_pos + 2 * (CharHeight + LINE_SPACING) > info.height
    BY DEF EraseStep
  <2>1. ~WriteNewline
    BY DEF WriteNewline, Show, newline, carriage_return, Cursor
  <2>2. ~WriteCarriageReturn
    BY DEF WriteCarriageReturn, Show, carriage_return, Cursor
  <2>3. WriteGlyph
    BY <2>1, <2>2 DEF Next
  <2> DEFINE c == Scrolled(Wrapped(Cursor))
  <2>4. /\ c \in CursorType
        /\ c.glyphs # glyphs => y_pos + 2 * (CharHeight + LINE_SPACING) > info.height
    BY DrawingPlace
  <2>5. Show(Advance(DrawRaster(c)))
    BY <2>3 DEF WriteGlyph
  <2> HIDE DEF c
  <2>6. c.glyphs \subseteq glyphs'
    BY <2>4, <2>5 DEF Show, Advance, DrawRaster, CursorType
  <2>7. QED
    BY <2>3, <2>4, <2>6
<1>2. QED
  BY <1>1, Invariance, PTL DEF Spec, ErasesOnlyWhenFull
=============================================================================
