------------------------------ MODULE Terminal ------------------------------
(***************************************************************************)
(* The keyboard (CommonCode/keyboard_v2.c), the virtual terminals          *)
(* (CommonCode/drv_tty.c) and the text screen (CommonCode/scrn.c), as what *)
(* the interrupt handler and the calls of the drivers do to their state.   *)
(* Of what is on the screen and in a terminal only the cells that hold 0   *)
(* are followed: those are what a backspace passes over.                   *)
(***************************************************************************)
EXTENDS Integers, Sequences, FiniteSetsExt

CONSTANTS
    KeyMap,         \* gpKBDUS: KeyMap[layer][key]
    Shifts,         \* KEY_LSHIFT and KEY_RSHIFT
    Caps,           \* KEY_CAPSLOCK
    Printable,      \* the characters
    Width,          \* of a line, 80
    Tab,            \* 8
    Rows,           \* of the screen, 25
    TermSize,       \* VTERM_SIZE
    Terms,          \* the terminals
    Current,        \* tty_currentTerm
    Default,        \* DEFAULT_ATTRIBS
    Yellow,         \* CLR_YELLOW|CLR_FLAG
    None

ASSUME TerminalConstants ==
    /\ {Width, Tab, Rows, TermSize} \subseteq Nat \ {0}
    /\ Width % Tab = 0 /\ TermSize % Width = 0
    /\ Current \in Terms
    /\ Printable \cap (Shifts \cup {Caps}) = {}

VARIABLES
    mailbox,        \* kb_lastChar, None for -1
    keys,           \* giKeyLayer, the keys set in gbaKeystates, gbKbShiftState and gbKbCapsState
    pressed,        \* the keys that are down, whatever the driver thinks, and whether capitals are locked
    typed,          \* history: what has been typed
    taken,          \* history: what has been read
    vt,             \* tty_vterm: pos, flags and the cells that hold 0
    screen          \* giCsrPos, giAttrib, giTmpAttrib and the cells that hold 0

keyVars == <<mailbox, keys, pressed, typed>>
terminalVars == <<keyVars, taken, vt, screen>>
-----------------------------------------------------------------------------
(* The keyboard                                                            *)

IsShift(ch) == ch \in Shifts
Code(layer, key) == KeyMap[layer][key]

(* What the typist sees: the character of the key, capital or not.         *)
Capital == (\E ch \in pressed.down : IsShift(ch)) # pressed.caps

Release(ch) ==
    LET held == keys.held \ {ch}
    IN  /\ keys' = [keys EXCEPT !.layer = 0, !.held = held, !.shift = @ /\ held \cap Shifts # {}]
        /\ pressed' = [pressed EXCEPT !.down = @ \ {ch}]
        /\ UNCHANGED <<mailbox, typed>>

Toggled(ch) == keys.caps # (ch = Caps)
Press(ch) ==
    LET k == [keys EXCEPT !.layer = 0, !.held = @ \cup {ch}, !.shift = @ \/ IsShift(ch), !.caps = Toggled(ch)]
    IN  /\ keys' = k
        /\ pressed' = [down |-> pressed.down \cup {ch}, caps |-> pressed.caps # (ch = Caps)]
        /\ IF ch \in Printable
           THEN /\ mailbox' = [n |-> Len(typed) + 1, ch |-> ch, capital |-> k.shift # k.caps]
                /\ typed' = Append(typed, [ch |-> ch, capital |-> Capital])
           ELSE UNCHANGED <<mailbox, typed>>

(* Keyboard_Handler().  An acknowledgement is put where characters are.    *)
Handle(code) ==
    CASE code.key = "ack" -> mailbox' = [n |-> 0, ch |-> "ack", capital |-> FALSE] /\ UNCHANGED <<keys, pressed, typed>>
      [] code.key \in {"E0", "E1"} ->
            keys' = [keys EXCEPT !.layer = IF code.key = "E0" THEN 1 ELSE 2] /\ UNCHANGED <<mailbox, pressed, typed>>
      [] OTHER -> IF code.up THEN Release(Code(keys.layer, code.key)) ELSE Press(Code(keys.layer, code.key))

(* tty_read(): once there is a character it is copied, and then cleared.   *)
TakeChar == taken' = Append(taken, mailbox) /\ UNCHANGED <<keyVars, vt, screen>>
KeepChar == UNCHANGED <<keyVars, taken, vt, screen>>
ClearChar == mailbox' = None /\ UNCHANGED <<keys, pressed, typed, taken, vt, screen>>
-----------------------------------------------------------------------------
(* Terminals and the screen                                                *)

Cells == 0 .. Rows * Width - 1
AfterTab(k) == Tab * (k \div Tab + 1)
NextLine(k) == Width * (k \div Width + 1)

(* A backspace in a terminal, which steps back and forth again over what   *)
(* is not 0.                                                               *)
StepBack(v) ==
    IF v.pos = 0 THEN 0
    ELSE 1 + Max({k \in 0 .. v.pos - 1 : k = 0 \/ k \notin v.zeros})

Filled(v, to) == [v EXCEPT !.pos = to, !.zeros = @ \cup (v.pos .. to - 1)]

Typed(v, c) ==
    CASE c = "backspace" -> [v EXCEPT !.pos = StepBack(v), !.zeros = @ \ {v.pos}]
      [] c = "tab" -> Filled(v, AfterTab(v.pos))
      [] c = "newline" -> Filled(v, NextLine(v.pos))
      [] OTHER -> [v EXCEPT !.pos = @ + 1, !.zeros = @ \ {v.pos}]

NoWrap(v) == v
Wrapped(v) == IF v.pos >= TermSize THEN [v EXCEPT !.pos = @ - TermSize] ELSE v

(* putch(): a backspace first clears the cell it steps back to.            *)
Before(s) ==
    LET at == s.cursor - 1
        zeros == s.zeros \ {at}
    IN  [s EXCEPT !.cursor = IF at < 0 THEN at ELSE 1 + Max({k \in -1 .. at - 1 : k = -1 \/ k \notin zeros}),
                  !.zeros = zeros]

(* A tab writes as many cells as are before it since the last stop.  Past  *)
(* the screen nobody looks.                                                *)
PutTab(s) == [s EXCEPT !.cursor = AfterTab(@), !.zeros = @ \cup (Cells \cap (s.cursor .. s.cursor + (s.cursor % Tab) - 1))]

Put(s, c) ==
    CASE c = "backspace" -> Before(s)
      [] c = "tab" -> PutTab(s)
      [] c = "newline" -> [s EXCEPT !.cursor = NextLine(@)]
      [] OTHER -> [s EXCEPT !.cursor = @ + 1, !.zeros = @ \ {s.cursor}]

(* scrn_scroll(): what is below the last line that is kept is cleared.     *)
Scroll(s) ==
    LET by == s.cursor \div Width - Rows + 1
    IN  IF s.cursor < Rows * Width THEN s
        ELSE [s EXCEPT !.cursor = (@ % Width) + (Rows - 1) * Width,
                       !.zeros = {z - by * Width : z \in {k \in @ : k >= by * Width}}]

Putch(s, c) == Scroll(Put(s, c))

(* tty_parseEscape(): clear, bright and reset, each of the terminal and    *)
(* then of the screen.                                                     *)
Escapes == {"clear", "bright", "reset"}
Colour(c) == IF c = "bright" THEN "bright" ELSE Default
Escape(v, c) ==
    IF c = "clear" THEN [v EXCEPT !.pos = 0, !.zeros = @ \ (0 .. TermSize - 1)] ELSE [v EXCEPT !.flags = Colour(c)]
Cleared == [screen EXCEPT !.cursor = 0, !.zeros = {}]
EscapeOn(c) == IF c = "clear" THEN Cleared ELSE [screen EXCEPT !.attrib = Colour(c)]

(* tty_write(), by the character or escape sequence.                       *)
Write(t, c) ==
    /\ vt' = [vt EXCEPT ![t] = Wrapped(IF c \in Escapes THEN Escape(@, c) ELSE Typed(@, c))]
    /\ screen' = IF t # Current THEN screen ELSE IF c \in Escapes THEN EscapeOn(c) ELSE Putch(screen, c)
    /\ UNCHANGED <<keyVars, taken>>

(* warning(): with one place to keep the attributes in.                    *)
Warn ==
    /\ screen' = Putch([screen EXCEPT !.saved = screen.attrib, !.attrib = Yellow], "newline")
    /\ UNCHANGED <<keyVars, taken, vt>>

Restore == screen' = [screen EXCEPT !.attrib = screen.saved] /\ UNCHANGED <<keyVars, taken, vt>>

TerminalInit ==
    /\ mailbox = None
    /\ keys = [layer |-> 0, held |-> {}, shift |-> FALSE, caps |-> FALSE]
    /\ pressed = [down |-> {}, caps |-> FALSE]
    /\ typed = <<>>
    /\ taken = <<>>
    /\ vt = [t \in Terms |-> [pos |-> 0, flags |-> Default, zeros |-> 0 .. TermSize - 1]]
    /\ screen = [cursor |-> 0, attrib |-> Default, saved |-> Default, zeros |-> {}]

TerminalTypeOK ==
    /\ \A t \in Terms : vt[t].pos \in 0 .. TermSize - 1
    /\ screen.cursor \in Cells
    /\ screen.zeros \subseteq Cells

(* What is read was typed, in that order and once, capital where a shift   *)
(* key or caps lock made it so.                                            *)
Keys == {i \in DOMAIN taken : taken[i].n # 0}
KeysRight ==
    /\ \A i, j \in Keys : i < j => taken[i].n < taken[j].n
    /\ \A i \in Keys : typed[taken[i].n] = [ch |-> taken[i].ch, capital |-> taken[i].capital]
=============================================================================
