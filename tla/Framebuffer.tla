----------------------------- MODULE Framebuffer -----------------------------
(***************************************************************************)
(* FrameBufferWriter (kernel/src/framebuffer.rs): the cursor, and where on *)
(* the screen the glyphs of a text end up.  A pixel is a pair of           *)
(* coordinates; its colour is left out.                                    *)
(***************************************************************************)
EXTENDS Integers

CONSTANTS
  CharWidth,   \* CHAR_RASTER_WIDTH, also the width of every raster
  CharHeight,  \* CHAR_RASTER_HEIGHT
  Screens,     \* the FrameBufferInfos that the bootloader may report
  MaxY         \* bound on the lines that newlines alone add

LINE_SPACING   == 2
LETTER_SPACING == 0
BORDER_PADDING == 1

ASSUME FontAssumption ==
  CharWidth \in Nat \ {0} /\ CharHeight \in Nat \ {0} /\ MaxY \in Nat

ASSUME ScreensAssumption ==
  \A s \in Screens : /\ s.width \in Nat /\ s.height \in Nat
                     /\ s.stride \in Nat /\ s.stride >= s.width

VARIABLES
  info,        \* FrameBufferWriter.info
  x_pos, y_pos,
  glyphs,      \* where glyphs were drawn since the screen was erased
  returned,    \* history: a carriage return moved the cursor back in this line
  panicked

vars == <<info, x_pos, y_pos, glyphs, returned, panicked>>

\* The cursor and the screen, as the functions below pass them on.
Cursor == [x |-> x_pos, y |-> y_pos, glyphs |-> glyphs, returned |-> returned]

carriage_return(c) == [c EXCEPT !.x = BORDER_PADDING]

newline_Spacing(c) ==
  [carriage_return([c EXCEPT !.y = @ + LINE_SPACING]) EXCEPT !.returned = FALSE]

newline(c) ==
  [carriage_return([c EXCEPT !.y = @ + CharHeight + LINE_SPACING]) EXCEPT !.returned = FALSE]

clear(c) ==
  [x |-> BORDER_PADDING, y |-> BORDER_PADDING, glyphs |-> {}, returned |-> FALSE]

Show(c) ==
  /\ x_pos' = c.x
  /\ y_pos' = c.y
  /\ glyphs' = c.glyphs
  /\ returned' = c.returned

Init ==
  /\ info \in Screens
  /\ x_pos = BORDER_PADDING
  /\ y_pos = BORDER_PADDING
  /\ glyphs = {}
  /\ returned = FALSE
  /\ panicked = FALSE

-----------------------------------------------------------------------------
(* write_char                                                               *)

WriteNewline ==
  /\ ~panicked
  /\ y_pos <= MaxY
  /\ Show(newline(Cursor))
  /\ UNCHANGED <<info, panicked>>

WriteCarriageReturn ==
  /\ ~panicked
  /\ Show([carriage_return(Cursor) EXCEPT !.returned = TRUE])
  /\ UNCHANGED <<info, panicked>>

\* Where any other character is drawn: wrapped at the right border, and on an
\* empty screen if it does not fit above the lower one.
Wrapped_Late(c) == IF c.x >= info.width THEN newline(c) ELSE c

Wrapped(c) == IF c.x + CharWidth >= info.width THEN newline(c) ELSE c

Scrolled_Early(c) ==
  IF c.y + 3 * (CharHeight + LINE_SPACING) >= info.height THEN clear(c) ELSE c

Scrolled(c) ==
  IF c.y + CharHeight + BORDER_PADDING >= info.height THEN clear(c) ELSE c

\* write_pixel indexes the buffer row by row; a column beyond the stride is in
\* the next row, and beyond the last row the index is out of range.
OutOfRange(c) ==
  (c.y + CharHeight - 1) * info.stride + c.x + CharWidth - 1 >= info.height * info.stride

DrawRaster(c) == [c EXCEPT !.glyphs = @ \cup {<<c.x, c.y>>}]

Advance(c) == [c EXCEPT !.x = @ + CharWidth + LETTER_SPACING]

WriteGlyph ==
  /\ ~panicked
  /\ LET c == Scrolled(Wrapped(Cursor)) IN
       /\ panicked' = OutOfRange(c)
       /\ Show(Advance(DrawRaster(c)))
  /\ UNCHANGED info

Next == WriteNewline \/ WriteCarriageReturn \/ WriteGlyph

Spec == Init /\ [][Next]_vars

-----------------------------------------------------------------------------
TypeOK ==
  /\ info \in Screens
  /\ x_pos \in Nat /\ x_pos >= BORDER_PADDING
  /\ y_pos \in Nat /\ y_pos >= BORDER_PADDING
  /\ glyphs \subseteq Nat \X Nat
  /\ returned \in BOOLEAN
  /\ panicked \in BOOLEAN

\* The screen holds one glyph inside its border.
HoldsGlyph ==
  BORDER_PADDING + CharWidth <= info.width /\ BORDER_PADDING + CharHeight <= info.height

\* On every screen that holds one glyph, whatever is written, each glyph is drawn
\* whole inside the visible part of the screen, off the upper and left border, and
\* no index is out of the buffer's range.
GlyphsInside ==
  HoldsGlyph =>
    /\ ~panicked
    /\ \A g \in glyphs :
         /\ BORDER_PADDING <= g[1] /\ g[1] + CharWidth <= info.width
         /\ BORDER_PADDING <= g[2] /\ g[2] + CharHeight <= info.height

\* The next glyph will not be drawn over one that is still on the screen, unless
\* a carriage return in its line asked for that: wrapping, erasing and any number
\* of newlines never bring the cursor back to used space.
Overlap(g, h) ==
  /\ g[1] < h[1] + CharWidth  /\ h[1] < g[1] + CharWidth
  /\ g[2] < h[2] + CharHeight /\ h[2] < g[2] + CharHeight

NeverOverdrawn ==
  LET c == Scrolled(Wrapped(Cursor)) IN
    ~c.returned => \A g \in c.glyphs : ~Overlap(g, <<c.x, c.y>>)

\* Text is erased only if less than a line was left on the screen, and never
\* by a newline or a carriage return: a message ending in a newline stays.
EraseStep ==
  ~(glyphs \subseteq glyphs') =>
    /\ WriteGlyph
    /\ y_pos + 2 * (CharHeight + LINE_SPACING) > info.height

ErasesOnlyWhenFull == [][EraseStep]_vars
=============================================================================
