------------------------------- MODULE Display -------------------------------
(***************************************************************************)
(* The display of the front panel (lcd/): its memory with the address that *)
(* advances by itself, the ioctls, and the console that keeps a row and a  *)
(* column of its own and scrolls by reading the memory back.  A cell here  *)
(* is a character of eight columns.                                        *)
(***************************************************************************)
EXTENDS Naturals, Sequences, SequencesExt

CONSTANTS
  Rows, Cols,   \* MAX_ROW, MAX_COL
  Texts,        \* what is written at once: sequences of "a", "b" and "nl"
  MaxDrawn      \* bound: images, pixels and bytes drawn

DisplayAssumption == Rows \in Nat \ {0} /\ Cols \in Nat \ {0} /\ MaxDrawn \in Nat

VARIABLES
  ram,     \* [page -> [column -> cell]]; the last page holds icons, the last column is not seen
  modify,  \* "set modify-read": reading does not advance the address
  row, col, \* of the console
  mode,    \* LCD_MODE: "asc", "bin"
  panel,   \* of the settings: on or off, the line of the memory that is shown first
  lines,   \* history: the last Rows lines of the text, the last one is being written
  pure,    \* history: nothing but text was put into the memory
  drawn

vars == <<ram, modify, row, col, mode, panel, lines, pure, drawn>>

Blank == [p \in 0..Rows |-> [c \in 0..Cols |-> " "]]
Space(k) == [i \in 1..k |-> " "]

(* lcd_reset_init *)
lcd_reset_init == [on |-> 1, idl |-> 0]

Init ==
  /\ ram = Blank /\ modify = FALSE
  /\ row = 0 /\ col = 0 /\ mode = "asc" /\ panel = lcd_reset_init
  /\ lines = <<<<>>>> /\ pure = TRUE /\ drawn = 0

-----------------------------------------------------------------------------
(* The console: s is the memory, the row and the column.                     *)

lcd_console_put_char(s, ch) == [s EXCEPT !.ram[s.row][s.col] = ch]

(* lcd_read_dram, lcd_write_dram: when reading does not advance, all of a    *)
(* page reads as its first cell.                                             *)
lcd_read_dram(m) == [p \in 0..Rows - 1 |-> [c \in 0..Cols - 1 |-> IF modify THEN m[p][0] ELSE m[p][c]]]
lcd_console_scroll_down(m) ==
  [p \in 0..Rows |-> [c \in 0..Cols |->
     IF p = Rows \/ c = Cols THEN m[p][c] ELSE IF p = Rows - 1 THEN " " ELSE lcd_read_dram(m)[p + 1][c]]]

blanked(m, r, from) == [m EXCEPT ![r] = [c \in 0..Cols |-> IF c >= from THEN " " ELSE m[r][c]]]

lcd_console_new_line(s) ==
  LET rest == blanked(s.ram, s.row, s.col) IN
  IF s.row = Rows
  THEN [ram |-> blanked(lcd_console_scroll_down(rest), Rows - 1, 0), row |-> Rows, col |-> 0]
  ELSE [ram |-> rest, row |-> s.row + 1, col |-> 0]

wrapped(s) == IF s.col = Cols THEN [s EXCEPT !.col = 0, !.row = s.row + 1] ELSE s
scrolled(s) == IF s.row = Rows THEN [lcd_console_new_line(s) EXCEPT !.row = Rows - 1] ELSE s

lcd_console_put_data(s, data) ==
  LET put(t, ch) ==
        IF ch = "nl" THEN lcd_console_new_line(t)
        ELSE LET u == lcd_console_put_char(scrolled(wrapped(t)), ch) IN [u EXCEPT !.col = u.col + 1]
  IN FoldLeft(put, s, data)

(* The lines a reader of the text would write down, the last Rows of them.   *)
Typed(ls, data) ==
  LET typed(t, ch) ==
        IF ch = "nl" THEN Append(t, <<>>)
        ELSE IF Len(t[Len(t)]) = Cols THEN Append(t, <<ch>>)
        ELSE [t EXCEPT ![Len(t)] = Append(@, ch)]
      all == FoldLeft(typed, ls, data)
  IN IF Len(all) > Rows + 1 THEN SubSeq(all, Len(all) - Rows, Len(all)) ELSE all

-----------------------------------------------------------------------------
(* lcd_write, to the console or a whole picture.                             *)
WriteText ==
  /\ mode = "asc"
  /\ \E data \in Texts :
       \E s \in {lcd_console_put_data([ram |-> ram, row |-> row, col |-> col], data)} :
         /\ ram' = s.ram /\ row' = s.row /\ col' = s.col
         /\ lines' = Typed(lines, data)
         /\ pure' = (pure /\ ~modify)
  /\ UNCHANGED <<modify, mode, panel, drawn>>

Drawn == drawn < MaxDrawn /\ drawn' = drawn + 1 /\ pure' = FALSE

WritePicture ==
  /\ mode = "bin" /\ Drawn
  /\ ram' = [p \in 0..Rows |-> [c \in 0..Cols |-> IF p = Rows \/ c = Cols THEN ram[p][c] ELSE "*"]]
  /\ UNCHANGED <<modify, row, col, mode, panel, lines>>

(* lcd_set_pixel: the byte is read, changed and written at the place asked.  *)
SetPixel ==
  /\ Drawn
  /\ \E p \in 0..Rows - 1, c \in 0..Cols - 1 :
       ram' = [ram EXCEPT ![p][c] = "*"]
  /\ UNCHANGED <<modify, row, col, mode, panel, lines>>

(* LCD_IOCTL_WRITE_BYTE: the address is the chip's, and anybody's: after     *)
(* LCD_IOCTL_SET_POS, which lets one row and one column too many through,    *)
(* other callers move it.                                                    *)
WriteByte ==
  /\ Drawn
  /\ \E p \in 0..Rows, c \in 0..Cols : ram' = [ram EXCEPT ![p][c] = "*"]
  /\ UNCHANGED <<modify, row, col, mode, panel, lines>>

(* LCD_IOCTL_CLEAR leaves the row and the column of the console.             *)
lcd_clear ==
  /\ Drawn
  /\ ram' = [p \in 0..Rows |-> [c \in 0..Cols |-> IF p = Rows \/ c = Cols THEN ram[p][c] ELSE " "]]
  /\ UNCHANGED <<modify, row, col, mode, panel, lines>>

(* The other ioctls: what a setting may be, and setting it.                  *)
accepted == [on |-> 0..1, idl |-> 0..31]
Set ==
  /\ \E r \in DOMAIN panel : \E v \in {0, 1, 8, 32} \intersect accepted[r] : panel' = [panel EXCEPT ![r] = v]
  /\ UNCHANGED <<ram, modify, row, col, mode, lines, pure, drawn>>
SetMode ==
  /\ mode' \in {"asc", "bin"} /\ modify' \in BOOLEAN
  /\ UNCHANGED <<ram, row, col, panel, lines, pure, drawn>>
Reset ==
  /\ panel' \in {lcd_reset_init, [lcd_reset_init EXCEPT !.on = 0]}
  /\ modify' = FALSE
  /\ UNCHANGED <<ram, row, col, mode, lines, pure, drawn>>

Next ==
  \/ WriteText \/ WritePicture \/ SetPixel \/ WriteByte \/ lcd_clear
  \/ Set \/ SetMode \/ Reset
Spec == Init /\ [][Next]_vars

-----------------------------------------------------------------------------
TypeOK ==
  /\ DOMAIN ram = 0..Rows /\ row \in 0..Rows /\ col \in 0..Cols
  /\ mode \in {"asc", "bin"} /\ modify \in BOOLEAN /\ pure \in BOOLEAN /\ drawn \in 0..MaxDrawn

(* What is seen; the chip has more lines than the display. *)
seen == [r \in 0..Rows - 1 |-> IF panel.on = 0 THEN Blank[r] ELSE ram[(r + panel.idl \div 8) % (Rows + 1)]]

(* The console shows the last lines of the text, wrapped where the display   *)
(* ends, whatever pieces it was written in; a line that was ended at the     *)
(* bottom scrolls up only when the next one begins.                          *)
Pad(l) == l \o Space(Cols - Len(l))
ConsoleShowsText ==
  pure /\ panel = lcd_reset_init =>
    LET pending == row = Rows
        shown == IF pending THEN SubSeq(lines, 1, Len(lines) - 1) ELSE lines
        first == IF Len(shown) > Rows THEN Len(shown) - Rows ELSE 0
    IN /\ row = (IF Len(lines) > Rows THEN (IF pending THEN Rows ELSE Rows - 1) ELSE Len(lines) - 1)
       /\ pending => lines[Len(lines)] = <<>>
       /\ \A r \in 0..Rows - 1 : \A c \in 0..Cols - 1 :
            seen[r][c] = IF first + r + 1 <= Len(shown) THEN Pad(shown[first + r + 1])[c + 1] ELSE " "
=============================================================================
