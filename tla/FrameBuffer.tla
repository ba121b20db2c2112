----------------------------- MODULE FrameBuffer -----------------------------
(***************************************************************************)
(* The frame buffer device (avia_gt_fb_core.c) over the graphics viewport  *)
(* (avia_gt_gv.c): what the kernel's console and its users are told of the *)
(* picture, and what the registers of the two chips make of the memory.    *)
(* Areas are copied by the copy engine (avia_gt_accel.c) in bursts.        *)
(***************************************************************************)
EXTENDS Naturals

CONSTANTS
  Sizes,      \* sizes asked for, <<width, height>>
  Offsets,    \* positions and lines asked for
  Colours,    \* [red, green, blue, transp], 16 bits each
  Burst,      \* bytes the copy engine moves at once, by chip
  Side        \* bound: side of the area in which copies are compared

VARIABLES
  chip,                 \* "enx" or "gtx"
  console_transparent,  \* parameter of the module
  gv,       \* what the viewport keeps: [mode, width, height, x, y]
  regs,     \* its registers
  par,      \* current_par: [bpp, xres, yres, stride]; bpp = 0: none yet
  panned,   \* [y, width]: the last pan_display in this mode; width 0: none
  refused,  \* the last size was not one of the chip's
  clut,     \* the entry of the table written last: the word stored
  asked,    \* and what was asked for: [n, colour, text], n = 2: nothing yet
  copy,     \* the last area copied, [sx, sy, w, h, dx, dy], w = 0: none
  memory    \* what was found afterwards in a numbered square

screen == <<console_transparent, gv, regs, par, panned, refused, clut, asked>>
square == <<copy, memory>>
vars == <<chip, screen, square>>

Numbered == [a \in 0..(Side * Side - 1) |-> a]
Clear == [red |-> 0, green |-> 0, blue |-> 0, transp |-> 65535]
Chips == {"enx", "gtx"}
bytes == [m \in 0..4 |-> IF m = 1 \/ m = 2 THEN 1 ELSE IF m = 4 THEN 4 ELSE 2]
Depths == {4, 8, 16, 32}
MODE == [b \in Depths |-> CASE b = 4 -> 1 [] b = 8 -> 2 [] b = 16 -> 3 [] b = 32 -> 4]

-----------------------------------------------------------------------------
(* The viewport.  g is [gv, regs, ok].                                       *)

(* STRIDE counts words of four bytes (eNX) or of two (GTX).                  *)
unit == IF chip = "enx" THEN 4 ELSE 2
avia_gt_gv_set_stride(g) ==
  [g EXCEPT !.regs.stride = unit * ((g.gv.width * bytes[g.gv.mode] + unit - 1) \div unit)]
avia_gt_gv_set_input_mode(g, mode) == avia_gt_gv_set_stride([g EXCEPT !.gv.mode = mode])

(* The steps of a line are eighths of a cycle; a pixel takes input_div.      *)
input_div == [w \in {720, 640, 360, 320} |-> CASE w = 720 -> 8 [] w = 640 -> 9 [] w = 360 -> 16 [] w = 320 -> 18]
delay == IF chip = "enx" THEN 132 - 16 ELSE 132 - 5
skew == IF chip = "enx" THEN 0 ELSE 55
avia_gt_gv_set_pos(g, x, y) ==
  LET div == input_div[g.gv.width] IN
    [g EXCEPT !.gv.x = x, !.gv.y = y, !.regs.ypos = 42 + y, !.regs.spp = ((delay + x) * 8) % div,
              !.regs.xpos = (((delay - skew + x) * 8) \div div) - 3]

(* L halves the pixels of a line, F stretches them, I halves the lines.  The *)
(* registers of the width are written before the height is looked at.        *)
scale == [w \in {720, 640, 360, 320} |-> [L |-> IF w < 640 THEN 1 ELSE 0, F |-> IF w = 320 THEN 1 ELSE 0]]
fields(h) == IF h \in {576, 480} THEN 0 ELSE 1
placed(g) == avia_gt_gv_set_pos(g, g.gv.x, g.gv.y)
avia_gt_gv_set_input_size(g, w, h) ==
  IF w \notin DOMAIN scale THEN [g EXCEPT !.ok = FALSE] ELSE
  LET wide == [g EXCEPT !.regs.L = scale[w].L, !.regs.F = scale[w].F] IN
    IF h \notin {576, 480, 288, 240} THEN [wide EXCEPT !.ok = FALSE] ELSE
    avia_gt_gv_set_stride(placed([wide EXCEPT !.regs.I = fields(h), !.gv.width = w, !.gv.height = h]))

avia_gt_gv_set_size(g, w, h) == [g EXCEPT !.regs.xsz = w, !.regs.ysz = h]
GMD == [enx |-> <<2, 6, 3, 7>>, gtx |-> <<1, 2, 3>>]
avia_gt_gv_show(g) == [g EXCEPT !.regs.gmd = GMD[chip][g.gv.mode]]

(* avia_gt_gv_init: 720 by 576, sixteen bits.                                *)
Init ==
  /\ chip \in Chips /\ console_transparent \in BOOLEAN
  /\ gv = [mode |-> 3, width |-> 720, height |-> 576, x |-> 0, y |-> 0]
  /\ regs = LET zero == [gv |-> gv, ok |-> TRUE, regs |-> [gmd |-> 0, stride |-> 0, L |-> 0, F |-> 0, I |-> 0,
                                   xsz |-> 0, ysz |-> 0, xpos |-> 0, ypos |-> 0, spp |-> 0, start |-> 0]]
            IN avia_gt_gv_set_size(avia_gt_gv_set_input_size(avia_gt_gv_set_pos(zero, 0, 0), 720, 576), 720, 576).regs
  /\ par = [bpp |-> 0, xres |-> 0, yres |-> 0, stride |-> 0]
  /\ panned = [y |-> 0, width |-> 0] /\ refused = FALSE
  /\ clut = <<>> /\ asked = [n |-> 2, colour |-> Clear, text |-> FALSE]
  /\ copy = [sx |-> 0, sy |-> 0, w |-> 0, h |-> 0, dx |-> 0, dy |-> 0] /\ memory = Numbered

-----------------------------------------------------------------------------
(* The frame buffer                                                          *)

(* avia_gt_fb_decode_var: the depth is checked, the size is not.             *)
decoded(bpp) == bpp # 32 \/ chip = "enx"
(* A mutant: the length of a line of the size before. *)
line_length_before(w, bpp) == (par.xres * bpp) \div 8
line_length(w, bpp) == (w * bpp) \div 8

(* avia_gt_fb_set_par.  The blending level 0x5D it sets is none the viewport *)
(* takes.                                                                    *)
avia_gt_fb_set_par(w, h, bpp) ==
  LET g == [gv |-> gv, regs |-> regs, ok |-> TRUE]
      sized == avia_gt_gv_set_input_size(avia_gt_gv_set_pos(avia_gt_gv_set_input_mode(g, MODE[bpp]), 0, 0), w, h)
      shown == avia_gt_gv_show(avia_gt_gv_set_size(sized, w, h)) IN
    /\ gv' = shown.gv /\ regs' = shown.regs /\ refused' = ~shown.ok

SetVar ==
  /\ \E s \in Sizes, bpp \in Depths :
       /\ decoded(bpp)
       /\ avia_gt_fb_set_par(s[1], s[2], bpp)
       /\ par' = [bpp |-> bpp, xres |-> s[1], yres |-> s[2], stride |-> line_length(s[1], bpp)]
       /\ panned' = [y |-> 0, width |-> 0]
  /\ UNCHANGED <<chip, console_transparent, clut, asked, square>>

(* avia_gt_fb_pan_display: lines times pixels.                               *)
avia_gt_fb_pan_display ==
  /\ par.bpp # 0
  /\ \E y \in Offsets : regs' = [regs EXCEPT !.start = y * par.xres] /\ panned' = [y |-> y, width |-> par.xres]
  /\ UNCHANGED <<chip, console_transparent, gv, par, refused, clut, asked, square>>

(* AVIA_GT_GV_SET_POS, AVIA_GT_GV_HIDE, AVIA_GT_GV_SHOW.                     *)
avia_gt_fb_ioctl ==
  LET g == [gv |-> gv, regs |-> regs, ok |-> TRUE] IN
  /\ \E g2 \in {avia_gt_gv_set_pos(g, x, y) : x \in Offsets, y \in {0}}
               \cup {[g EXCEPT !.regs.gmd = 0], avia_gt_gv_show(g)} : gv' = g2.gv /\ regs' = g2.regs
  /\ UNCHANGED <<chip, console_transparent, par, panned, refused, clut, asked, square>>

(* The GTX keeps five bits of each colour, and one of transparency; 0xFC0F   *)
(* is transparent whatever that bit.                                         *)
TCR_COLOR == 64527
top(v, bits) == v \div 2^(16 - bits)
opaque(t) == IF t = 0 THEN 1 ELSE 0
avia_gt_gv_set_clut(c) ==
  IF chip = "enx"
  THEN <<top(c.transp, 8), top(c.red, 8), top(c.green, 8), top(c.blue, 8)>>
  ELSE LET t == top(c.transp, 8) IN
       IF t >= 128 THEN TCR_COLOR
       ELSE opaque(t) * 32768 + top(c.red, 5) * 1024 + top(c.green, 5) * 32 + top(c.blue, 5)
(* getcolreg: what a stored word is read back as, [transp, red, green, blue] *)
(* with the low bits repeated.                                               *)
avia_gt_gv_get_clut(w) ==
  IF chip = "enx" THEN [i \in 1..4 |-> w[i] * 257]
  ELSE IF w = TCR_COLOR THEN <<65535, 0, 0, 0>>
  ELSE LET five(v) == (v % 32) * 8 + (v % 32) * 2048 IN <<0, five(w \div 1024), five(w \div 32), five(w)>>

background(n, text) == n = 0 /\ console_transparent /\ text
(* avia_gt_fb_setcolreg: up to eight bits; a deeper console has its colours  *)
(* in memory.                                                                *)
avia_gt_fb_setcolreg ==
  /\ par.bpp \in {4, 8}
  /\ \E n \in {0, 1}, c \in Colours, text \in BOOLEAN :
       /\ clut' = <<avia_gt_gv_set_clut(IF background(n, text) THEN Clear ELSE c)>>
       /\ asked' = [n |-> n, colour |-> c, text |-> text]
  /\ UNCHANGED <<chip, console_transparent, gv, regs, par, panned, refused, square>>

-----------------------------------------------------------------------------
(* avia_gt_accel_copy: on a GTX a full burst from or to an odd address is    *)
(* two bytes shorter.                                                        *)
counted(c, src, dst, t) ==
  IF c = "gtx" /\ t = Burst[c] /\ (src % 2 = 1 \/ dst % 2 = 1) THEN t - 2 ELSE t
moved(c, src, dst, t) ==
  IF c = "gtx" /\ t = Burst[c] /\ (src % 2 = 1 \/ dst % 2 = 1) THEN t - 2 ELSE t
avia_gt_accel_copy(c, m, src, dst, size) ==
  LET run[left \in 0..size, at \in 0..size] == \* the bytes copied by a run of bursts
        IF left = 0 THEN at ELSE
        LET t == IF left > Burst[c] THEN Burst[c] ELSE left IN
          run[left - counted(c, src, dst, t), at + moved(c, src, dst, t)]
      n == run[size, 0] IN
    [a \in DOMAIN m |-> IF a \in dst..(dst + n - 1) THEN m[src + (a - dst)] ELSE m[a]]

(* avia_gt_gv_copyarea: one line after the other, from the top.              *)
avia_gt_gv_copyarea(c, m, stride, sx, sy, w, h, dx, dy) ==
  LET lines[l \in 0..h] ==
        IF l = 0 THEN m
        ELSE avia_gt_accel_copy(c, lines[l - 1], (sy + l - 1) * stride + sx, (dy + l - 1) * stride + dx, w)
  IN lines[h]

(* AVIA_GT_GV_COPYAREA, in a square of Side bytes by Side lines.             *)
CopyArea ==
  /\ copy.w = 0 \* one copy shows it
  /\ \E sx, sy, dx, dy \in 0..(Side - 1), w, h \in 1..Side :
       /\ sx + w <= Side /\ dx + w <= Side /\ sy + h <= Side /\ dy + h <= Side
       /\ copy' = [sx |-> sx, sy |-> sy, w |-> w, h |-> h, dx |-> dx, dy |-> dy]
       /\ memory' = avia_gt_gv_copyarea(chip, Numbered, Side, sx, sy, w, h, dx, dy)
  /\ UNCHANGED <<chip, screen>>

Screen == SetVar \/ avia_gt_fb_pan_display \/ avia_gt_fb_ioctl \/ avia_gt_fb_setcolreg
Next == Screen \/ CopyArea
Spec == Init /\ [][Next]_vars

-----------------------------------------------------------------------------
TypeOK ==
  /\ chip \in Chips /\ gv.mode \in 1..4 /\ gv.width \in DOMAIN scale /\ regs.stride \in Nat
  /\ par.bpp \in Depths \cup {0} /\ refused \in BOOLEAN

(* What the users are told is what is shown: unless the size was refused     *)
(* inside set_par, which nobody is told, a line is as long as line_length    *)
(* says (four bits are told as four and shown as eight), as wide and high as *)
(* the viewport, and a panned picture begins at the start of a line (where   *)
(* a pixel is a byte).                                                       *)
ShownAsTold ==
  par.bpp # 0 /\ ~refused =>
    /\ par.bpp # 4 => regs.stride = par.stride
    /\ regs.xsz = gv.width /\ regs.ysz = gv.height
    /\ bytes[gv.mode] = 1 /\ panned.width # 0 => regs.start = panned.y * regs.stride

(* Wherever the picture was put, it stays there when its size changes.       *)
StaysInPlace ==
  LET eighths == (regs.xpos + 3) * input_div[gv.width] IN
    eighths <= (delay - skew + gv.x) * 8 /\ (delay - skew + gv.x) * 8 < eighths + input_div[gv.width]

(* A colour reads back as it was set, up to the bits the chip keeps; only    *)
(* the background of a text console is transparent unasked, and on a GTX     *)
(* the one colour that means transparent.                                    *)
ColoursKept ==
  LET c == asked.colour
      given == background(asked.n, asked.text) \* the console's own doing
      word == clut[1] IN
  asked.n # 2 /\ ~(chip = "gtx" /\ word = TCR_COLOR /\ c.transp < 32768 /\ ~given) =>
    LET back == avia_gt_gv_get_clut(word)
        bits == IF chip = "enx" THEN 8 ELSE 5 IN
      IF (asked.n = 0 /\ console_transparent /\ asked.text) \/ c.transp >= 32768
      THEN back[1] >= 32768
      ELSE top(back[2], bits) = top(c.red, bits) /\ top(back[4], bits) = top(c.blue, bits) /\ back[1] < 32768

(* An area copied upwards, sideways to the left or clear of itself arrives   *)
(* as it was, whatever the bursts, and nothing else is touched.              *)
CopyMoves ==
  LET apart == copy.dy < copy.sy \/ (copy.dy = copy.sy /\ copy.dx <= copy.sx) \/ copy.sy + copy.h <= copy.dy
      covered(a) == /\ a % Side \in copy.dx..(copy.dx + copy.w - 1)
                    /\ a \div Side \in copy.dy..(copy.dy + copy.h - 1) IN
  apart => \A a \in DOMAIN memory :
    memory[a] = IF covered(a) THEN (a + Side * copy.sy + copy.sx) - (Side * copy.dy + copy.dx) ELSE a
=============================================================================
