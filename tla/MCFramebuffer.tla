---------------------------- MODULE MCFramebuffer ----------------------------
(* Glyphs of two by three pixels on all screens up to 7 by 18, among them    *)
(* those that hold no glyph, one, one line, one column and several of each.  *)
EXTENDS Framebuffer

MCScreens ==
  {[width |-> w, height |-> h, stride |-> w + pad] : w \in 1 .. 7, h \in 1 .. 18, pad \in {0, 1}}
=============================================================================
