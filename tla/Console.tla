------------------------------ MODULE Console ------------------------------
(***************************************************************************)
(* The console (entry/drivers/console.c, cursor.c) under its system calls  *)
(* (syscall/console_io.c) and the echo of the keyboard.                    *)
(*                                                                         *)
(* The calls hold console_lock and can be interrupted between any two      *)
(* accesses to the cursor.  An echo is a putbyte too, by the keyboard's    *)
(* handler or by kbd_getline with interrupts off: it takes no lock and     *)
(* nothing interrupts it, so it is one step.                               *)
(*                                                                         *)
(* The cursor is always visible: nothing calls hide_cursor or show_cursor. *)
(***************************************************************************)
EXTENDS Integers

CONSTANTS Callers, Nobody,
          Height, Width,
          Chars,        \* the printable characters
          Colors

ASSUME ConsoleAssumption ==
    /\ Height \in Nat \ {0} /\ Width \in Nat \ {0}
    /\ Nobody \notin Callers
    /\ Colors # {}
    /\ Chars \cap {"nl", "cr", "bs", " "} = {}

VARIABLES
    array,      \* the screen: a character and its color at [row, column]
    off,        \* cursor.off
    crtc,       \* where the hardware shows the cursor
    color,      \* console.color
    owner,      \* of console_lock
    stage, ch, row, col,
    next,       \* the offset on its way to crtc and off
    expect      \* what the call in progress should leave behind, Nobody after
                \* an echo has come in between

screen == <<array, off, crtc, color>>
callLocals == <<ch, row, col, next>>
consoleVars == <<screen, owner, stage, callLocals, expect>>

Inputs == Chars \cup {"nl", "cr", "bs"}

Cells == (0..(Height - 1)) \X (0..(Width - 1))

Coords2Offset(r, c) == r * Width + c

(* Mutant: one column too many. *)
ValidLoose(r, c) == r \in 0..(Height - 1) /\ c \in 0..Width

(* valid_row and valid_col *)
Valid(r, c) == <<r, c>> \in Cells

Pack(x) == <<x, color>>

(* draw_char *)
Draw(a, r, c, x) == IF Valid(r, c) THEN [a EXCEPT ![<<r, c>>] = Pack(x)] ELSE a

(* scroll_console(1) *)
Scroll(a) == [p \in Cells |-> IF p[1] < Height - 1 THEN a[<<p[1] + 1, p[2]>>] ELSE Pack(" ")]

(* inc_cursor(1): / and % of C, for operands that a cursor that moves      *)
(* between two reads makes negative                                        *)
IncCol(c) == IF c + 1 < 0 THEN -((-(c + 1)) % Width) ELSE (c + 1) % Width
IncRow(r, c) == r + (IF c + 1 < 0 THEN -((-(c + 1)) \div Width) ELSE (c + 1) \div Width)

-----------------------------------------------------------------------------
(* What a console promises (console.c:206-216), of a screen [array, row,   *)
(* col]: a character is put at the cursor, which moves on, to the next     *)
(* line when the line is full; newline goes to the start of the next line; *)
(* both scroll at the end; carriage return goes to the start of the line;  *)
(* backspace erases the character before the cursor in its line.           *)

Feed(s) ==
    IF s.row < Height - 1 THEN [s EXCEPT !.row = @ + 1, !.col = 0]
    ELSE [array |-> Scroll(s.array), row |-> s.row, col |-> 0]

Type(s, x) ==
    CASE x = "nl" -> Feed(s)
      [] x = "cr" -> [s EXCEPT !.col = 0]
      [] x = "bs" -> IF s.col = 0 THEN s
                     ELSE [s EXCEPT !.col = @ - 1, !.array[<<s.row, s.col - 1>>] = Pack(" ")]
      [] OTHER ->
           LET drawn == [s EXCEPT !.array[<<s.row, s.col>>] = Pack(x)]
           IN IF s.col < Width - 1 THEN [drawn EXCEPT !.col = @ + 1] ELSE Feed(drawn)

Showing == [array |-> array, row |-> off \div Width, col |-> off % Width]

(* The hardware cursor follows, except where putbyte does nothing. *)
Expected(x) ==
    LET s == Type(Showing, x)
        o == Coords2Offset(s.row, s.col)
    IN [array |-> s.array, off |-> o,
        crtc |-> IF x = "bs" /\ Showing.col = 0 THEN crtc ELSE o]

-----------------------------------------------------------------------------
ConsoleInit ==
    /\ color \in Colors
    /\ array = [p \in Cells |-> Pack(" ")]
    /\ off = 0 /\ crtc = 0
    /\ owner = Nobody
    /\ stage = [t \in Callers |-> "out"]
    /\ ch = [t \in Callers |-> " "]
    /\ row = [t \in Callers |-> 0] /\ col = [t \in Callers |-> 0]
    /\ next = [t \in Callers |-> 0]
    /\ expect = Nobody

AtStage(t, label) == stage[t] = label

ToStage(t, label) == stage' = [stage EXCEPT ![t] = label]

(* Mutant: whoever comes gets the lock. *)
LockAnyway(t) == owner' = t

Lock(t) == owner = Nobody /\ owner' = t

(* mutex_unlock; the locals are gone *)
Leave(t) ==
    /\ owner' = Nobody
    /\ ToStage(t, "out")
    /\ ch' = [ch EXCEPT ![t] = " "]
    /\ row' = [row EXCEPT ![t] = 0] /\ col' = [col EXCEPT ![t] = 0]
    /\ next' = [next EXCEPT ![t] = 0]
    /\ expect' = Nobody

(* set_term_color *)
SetTermColor(t) ==
    /\ AtStage(t, "out") /\ owner = Nobody
    /\ \E c \in Colors : color' = c
    /\ UNCHANGED <<array, off, crtc, owner, stage, callLocals, expect>>

(* putbytes *)
CallPrint(t) ==
    /\ AtStage(t, "out") /\ Lock(t)
    /\ ToStage(t, "next")
    /\ UNCHANGED <<screen, callLocals, expect>>

PrintByte(t) ==
    /\ AtStage(t, "next")
    /\ \E x \in Inputs :
           /\ ch' = [ch EXCEPT ![t] = x]
           /\ expect' = Expected(x)
    /\ ToStage(t, "row")
    /\ UNCHANGED <<screen, owner, row, col, next>>

PrintReturn(t) ==
    /\ AtStage(t, "next")
    /\ Leave(t)
    /\ UNCHANGED screen

(* set_cursor and get_cursor return *)
CursorReturn(t) ==
    /\ AtStage(t, "return") \/ AtStage(t, "got")
    /\ Leave(t)
    /\ UNCHANGED screen

(* get_cursor *)
CallGetCursor(t) ==
    /\ AtStage(t, "out") /\ Lock(t)
    /\ ToStage(t, "get_row")
    /\ expect' = [off |-> Coords2Offset(Showing.row, Showing.col)]
    /\ UNCHANGED <<screen, callLocals>>

-----------------------------------------------------------------------------
(* crs_get_coords, whose callers hand it pointers: the offset is read for  *)
(* the row and again for the column.                                       *)

ReadRow(t) ==
    /\ \E l \in {<<"row", "col">>, <<"inc_row", "inc_col">>, <<"get_row", "get_col">>} :
           AtStage(t, l[1]) /\ ToStage(t, l[2])
    /\ row' = [row EXCEPT ![t] = off \div Width]
    /\ UNCHANGED <<screen, owner, ch, col, next, expect>>

ReadCol(t) ==
    /\ \E l \in {<<"col", "put">>, <<"inc_col", "inc">>, <<"get_col", "got">>} :
           AtStage(t, l[1]) /\ ToStage(t, l[2])
    /\ col' = [col EXCEPT ![t] = off - row[t] * Width]
    /\ UNCHANGED <<screen, owner, ch, row, next, expect>>

(* what comes after set_cursor_raw: ch is blank in set_cursor *)
After(t) == IF ch[t] = " " THEN "return" ELSE "next"

(* set_cursor_raw, to the point where it writes; where goes what fails *)
SetCursorRaw(t, r, c, failed) ==
    IF Valid(r, c)
    THEN ToStage(t, "crtc") /\ next' = [next EXCEPT ![t] = Coords2Offset(r, c)]
    ELSE ToStage(t, failed) /\ UNCHANGED next

PutNewline(t) ==
    /\ AtStage(t, "put") /\ ch[t] = "nl"
    /\ SetCursorRaw(t, row[t] + 1, 0, "newline")
    /\ UNCHANGED array

PutReturn(t) ==
    /\ AtStage(t, "put") /\ ch[t] = "cr"
    /\ SetCursorRaw(t, row[t], 0, "next")
    /\ UNCHANGED array

PutBackspace(t) ==
    /\ AtStage(t, "put") /\ ch[t] = "bs"
    /\ \/ /\ col[t] > 0
          /\ array' = Draw(array, row[t], col[t] - 1, " ")
          /\ SetCursorRaw(t, row[t], col[t] - 1, "next")
       \/ /\ col[t] <= 0
          /\ ToStage(t, "next")
          /\ UNCHANGED <<array, next>>

PutChar(t) ==
    /\ AtStage(t, "put") /\ ch[t] \in Chars
    /\ array' = Draw(array, row[t], col[t], ch[t])
    /\ ToStage(t, "inc_row")
    /\ UNCHANGED next

IncCursor(t) ==
    /\ AtStage(t, "inc")
    /\ SetCursorRaw(t, IncRow(row[t], col[t]), IncCol(col[t]), "newline")
    /\ UNCHANGED array

(* newline: scroll_console(1); set_cursor_raw(CONSOLE_HEIGHT - 1, 0) *)
Newline(t) ==
    /\ AtStage(t, "newline")
    /\ array' = Scroll(array)
    /\ SetCursorRaw(t, Height - 1, 0, "next")

PutByte(t) ==
    /\ \/ PutNewline(t) \/ PutReturn(t) \/ PutBackspace(t)
       \/ PutChar(t) \/ IncCursor(t) \/ Newline(t)
    /\ UNCHANGED <<off, crtc, color, owner, ch, row, col, expect>>

(* set_cursor *)
CallSetCursor(t) ==
    /\ AtStage(t, "out") /\ Lock(t)
    /\ \E r \in -1..Height, c \in -1..Width :
           /\ SetCursorRaw(t, r, c, "return")
           /\ expect' = IF Valid(r, c)
                        THEN [array |-> array, off |-> Coords2Offset(r, c),
                              crtc |-> Coords2Offset(r, c)]
                        ELSE [array |-> array, off |-> off, crtc |-> crtc]
    /\ UNCHANGED <<screen, ch, row, col>>

(* set_crtc: the four outb are one step *)
SetCrtc(t) ==
    /\ AtStage(t, "crtc")
    /\ crtc' = next[t]
    /\ ToStage(t, "offset")
    /\ UNCHANGED <<array, off, color, owner, callLocals, expect>>

(* crs_set_offset *)
SetOffset(t) ==
    /\ AtStage(t, "offset")
    /\ off' = next[t]
    /\ ToStage(t, After(t))
    /\ UNCHANGED <<array, crtc, color, owner, callLocals, expect>>

-----------------------------------------------------------------------------
(* putbyte without interruption, where the cursor is in the screen *)

MoveOrScroll(a, r, c) ==
    IF Valid(r, c) THEN [array |-> a, off |-> Coords2Offset(r, c)]
    ELSE [array |-> Scroll(a), off |-> Coords2Offset(Height - 1, 0)]

EchoByte(x) ==
    LET r == off \div Width
        c == off - r * Width
    IN CASE x = "nl" -> MoveOrScroll(array, r + 1, 0)
         [] x = "cr" -> MoveOrScroll(array, r, 0)
         [] x = "bs" -> IF c > 0 THEN MoveOrScroll(Draw(array, r, c - 1, " "), r, c - 1)
                        ELSE [array |-> array, off |-> off]
         [] OTHER -> MoveOrScroll(Draw(array, r, c, x), IncRow(r, c), IncCol(c))

(* update_getline_globals: putbyte(ch) *)
Echo ==
    /\ \E x \in Inputs :
           LET s == EchoByte(x)
           IN /\ array' = s.array /\ off' = s.off
              /\ crtc' = IF x = "bs" /\ off % Width = 0 THEN crtc ELSE s.off
    /\ expect' = Nobody
    /\ UNCHANGED <<color, owner, stage, callLocals>>

-----------------------------------------------------------------------------
CallStep(t) ==
    \/ PrintByte(t) \/ PrintReturn(t) \/ CursorReturn(t)
    \/ ReadRow(t) \/ ReadCol(t) \/ PutByte(t) \/ SetCrtc(t) \/ SetOffset(t)

Call(t) == SetTermColor(t) \/ CallPrint(t) \/ CallGetCursor(t) \/ CallSetCursor(t)

ConsoleNext == Echo \/ \E t \in Callers : CallStep(t) \/ Call(t)

ConsoleSpec == ConsoleInit /\ [][ConsoleNext]_consoleVars

-----------------------------------------------------------------------------
ConsoleTypes ==
    /\ array \in [Cells -> (Chars \cup {" "}) \X Colors]
    /\ color \in Colors
    /\ DOMAIN stage = Callers /\ DOMAIN next = Callers
    /\ owner \in Callers \cup {Nobody}
    /\ \A t \in Callers : (owner = t) <=> (stage[t] # "out")

(* However a print and the echoes of typed keys mix, the cursor stays in   *)
(* the screen, the hardware's as well (console.c:310-317), though putbyte  *)
(* computes with a row and a column of different moments.                  *)
CursorConsistent ==
    /\ ConsoleTypes
    /\ off \in 0..(Height * Width - 1) /\ crtc \in 0..(Height * Width - 1)
    /\ \A t \in Callers : stage[t] \in {"crtc", "offset"} => next[t] \in 0..(Height * Width - 1)

(* A byte that is printed, and a cursor that is set or read, have the      *)
(* effect that the console promises, whatever was echoed before and        *)
(* whoever else wants to print, unless a key is echoed in the middle of    *)
(* it: then bytes can be lost, as the handler takes no lock                *)
(* (console.c:220).  An echo itself has its effect at whatever moment of a *)
(* print it comes.                                                         *)
CallsAsPromised ==
    \A t \in Callers : expect # Nobody =>
        /\ (stage[t] = "next" /\ ch[t] # " ") \/ stage[t] = "return" =>
               expect = [array |-> array, off |-> off, crtc |-> crtc]
        /\ stage[t] = "got" =>
               Valid(row[t], col[t]) /\ expect = [off |-> Coords2Offset(row[t], col[t])]

EchoAsPromised ==
    Echo => \E x \in Inputs :
                Expected(x) = [array |-> array', off |-> off', crtc |-> crtc']

WorksAsPromised == [][CallsAsPromised' /\ EchoAsPromised]_consoleVars
=============================================================================
