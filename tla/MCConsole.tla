----------------------------- MODULE MCConsole -----------------------------
(***************************************************************************)
(* An instance of Console for TLC: two processes with any two of a few     *)
(* programs, a screen of two lines of four cells, and a BIOS with two      *)
(* graphics modes, one of which the driver has no right code for.          *)
(***************************************************************************)
EXTENDS Console, TLC

MCKeyMap == [l \in 0 .. 2 |-> IF l = 0 THEN [k \in {"a", "L", "R", "C"} |-> k] ELSE [k \in {"a", "L", "R", "C"} |-> IF k = "R" THEN "right" ELSE "nothing"]]
Down(k) == [key |-> k, up |-> FALSE]
Up(k) == [key |-> k, up |-> TRUE]
MCTypings ==
    {<<Down("L"), Down("a"), Down("R"), Up("L"), Down("a"), Up("R"), Down("a")>>,
     <<Down("C"), Down("a"), Up("a"), Down("ack"), Up("C"), Down("E0"), Down("R"), Down("a")>>}

ReadOf(t, n) == [do |-> "read", term |-> t, len |-> n]
WriteOf(t, c) == [do |-> "write", term |-> t, char |-> c]
SetTo(m) == [do |-> "set", mode |-> m]
DrawTo(n) == [do |-> "draw", end |-> n]
CONSTANTS P, Q
Reads == <<ReadOf(1, 2), ReadOf(2, 1), ReadOf(1, 0)>>
Writes == <<WriteOf(1, "x"), WriteOf(1, "tab"), WriteOf(1, "backspace"), WriteOf(1, "newline"), WriteOf(1, "tab")>>
Colours == <<WriteOf(1, "bright"), WriteOf(2, "x"), WriteOf(1, "x"), WriteOf(1, "clear"), WriteOf(1, "newline"), WriteOf(1, "reset")>>
Draws2 == <<SetTo(1), DrawTo(2), DrawTo(3), SetTo(-1), SetTo(0)>>
Sets2 == <<SetTo(2), SetTo(1)>>
MCPrograms ==
    {P :> t[1] @@ Q :> t[2] : t \in
        {<<Reads, Reads>>, <<Reads, Draws2>>, <<Reads, Colours>>, <<Writes, Colours>>,
         <<Colours, Draws2>>, <<Draws2, Sets2>>, <<Sets2, Sets2>>}}

MCSizes == 0 :> 0 @@ 1 :> 2 @@ 2 :> 1
MCCodes == <<1, 9>>

(* What is found is the mode asked for if there is one, and otherwise none *)
(* is nearer by more than one part in a hundred, if one is near at all.    *)
Shapes == [width : {1, 5, 20}, height : {1, 3}, bpp : {8, 16}]
ASSUME ModeFound ==
    \A ms \in {<<a, b, c>> : a, b, c \in Shapes}, d \in Shapes :
        LET found == FindMode(ms, d)
        IN  /\ found = -1 <=> \A i \in DOMAIN ms : Factor(ms[i], d) >= 1000
            /\ \A i \in DOMAIN ms : found # -1 => (ms[i] = d => ms[found] = d) /\ Factor(ms[found], d) <= Factor(ms[i], d)
=============================================================================
