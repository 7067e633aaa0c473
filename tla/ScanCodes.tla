------------------------------- MODULE ScanCodes -------------------------------
(* The scan code automaton of keyb.c: what one pass of keyb_notifier's loop   *)
(* makes of a code, together with the keyboard that sends the codes of a key  *)
(* one after the other.  Codes that come in two versions are the values the   *)
(* notifier compares with; of the character tables the entries of two keys    *)
(* are kept.                                                                  *)
EXTENDS Integers, Sequences, FiniteSets

CONSTANTS
  Key,      \* the keys somebody presses
  Fingers   \* how many of them at a time

ASSUME KeyAssumption ==
  /\ Key \subseteq {"a", "quote", "lshift", "rshift", "ctrl", "rctrl", "alt", "caps", "num",
                    "scroll", "up", "keypad8", "enter", "slash", "pause", "print"}
  /\ Fingers \in Nat

VARIABLES
  flag,   \* brk, ignore, control, shift, special, the locks and alt
  key,    \* the em_msg.key that the last code gave; None if there was none
  line,   \* codes of the moved key that are still to come
  moved,  \* the key
  held,   \* keys that are down
  lifted, \* shift has been lifted, or could seem so, while a shift is down
  alted   \* Alt has been pressed, and the quote key not lifted since

scan_vars == <<flag, key, line, moved, held, lifted, alted>>

KBIT == 128
None == "none"

\* The make codes of the keys; a break code has the high bit set.
Make(k) == CASE k = "a"        -> <<30>>
             [] k = "quote"    -> <<40>>
             [] k = "lshift"   -> <<42>>
             [] k = "rshift"   -> <<54>>
             [] k = "ctrl"     -> <<29>>
             [] k = "rctrl"    -> <<224, 29>>
             [] k = "alt"      -> <<56>>
             [] k = "caps"     -> <<58>>
             [] k = "num"      -> <<69>>
             [] k = "scroll"   -> <<70>>
             [] k = "up"       -> <<224, 72>>
             [] k = "keypad8"  -> <<72>>
             [] k = "enter"    -> <<224, 28>>
             [] k = "slash"    -> <<224, 53>>
             [] k = "pause"    -> <<225, 29, 69, 225, 157, 197>>
             [] k = "print"    -> <<224, 42, 224, 55>>

\* Pause sends nothing when it is lifted.
Break(k) == CASE k = "pause" -> << >>
              [] k = "print" -> <<224, 183, 224, 170>>
              [] OTHER -> LET m == Make(k)
                          IN  [j \in 1 .. Len(m) |->
                                 IF j = Len(m) THEN m[j] + KBIT ELSE m[j]]

-------------------------------------------------------------------------------
(* get_keycode()                                                             *)

MULT == 256
Arrows == {72, 75, 80, 77}
Paging == {82, 71, 73, 83, 79, 81}

\* The tables at the keys a, quote and keypad 8.  The other keys that are
\* looked up in them have no character, as a quote has none under Caps Lock.
small == [c \in {30, 40, 72} |-> CASE c = 30 -> "a" [] c = 40 -> "'" [] c = 72 -> "8"]
shfted == [c \in {30, 40, 72} |-> CASE c = 30 -> "A" [] c = 40 -> "dq" [] c = 72 -> None]
capped == [c \in {30, 40, 72} |-> CASE c = 30 -> "A" [] c = 40 -> None [] c = 72 -> "8"]

Table(f) == IF f.capslock = 1 THEN capped ELSE IF f.shift = 1 THEN shfted ELSE small

\* em_msg.key is the low byte of the key code.
LowByte(n) == IF n % 256 = 0 THEN "nul" ELSE "code"

get_keycode(ch, f) ==
  CASE f.brk = 1 -> None
    [] f.brk = 0 /\ f.special > 0 /\ ch \in Arrows \cup Paging -> LowByte(ch * MULT)
    [] f.brk = 0 /\ f.special > 0 /\ ch = 28 -> "return"
    [] f.brk = 0 /\ f.special > 0 /\ ch = 53 -> "/"
    [] f.brk = 0 /\ f.special = 0 /\ f.alt = 0 /\ ch \in DOMAIN small -> Table(f)[ch]
    [] OTHER -> None

-------------------------------------------------------------------------------
(* keyb_notifier(): every code belongs to one of the classes below, in the    *)
(* order in which the loop tests for them until one sets "done".              *)

Code == line[1]
new_char == Code % KBIT

\* The flags with brk set for a break code.
Seen == IF Code >= KBIT THEN [flag EXCEPT !.brk = 1] ELSE flag

\* The end of the loop: special and brk count down.
Loop(f, found) ==
  /\ flag' = [f EXCEPT !.special = IF @ > 0 THEN @ - 1 ELSE 0,
                       !.brk = IF @ > 0 THEN @ - 1 ELSE 0]
  /\ key' = found

weird ==
  /\ Code = 225 /\ flag.ignore = 0
  /\ Loop([flag EXCEPT !.ignore = 5], None)

ignored ==
  /\ flag.ignore > 0
  /\ Loop([flag EXCEPT !.ignore = @ - 1], None)

\* Variant: the prefix lasts for one code too few.
prefix_short ==
  /\ Code = 224 /\ flag.ignore = 0
  /\ Loop([flag EXCEPT !.special = 1], None)

prefix ==
  /\ Code = 224 /\ flag.ignore = 0
  /\ Loop([flag EXCEPT !.special = 2], None)

\* The code of the left shift key also begins that of Print Screen.
left_shift ==
  /\ Code = 42 /\ flag.ignore = 0
  /\ Loop(IF flag.special = 0 THEN [flag EXCEPT !.shift = 1]
                              ELSE [flag EXCEPT !.ignore = 3], None)

Further == Code \notin {224, 225, 42} /\ flag.ignore = 0

\* Caps, Num and Scroll Lock are flipped by the break code as well.
locks ==
  /\ Further /\ new_char \in {58, 69, 70}
  /\ Loop([Seen EXCEPT !.capslock = IF new_char = 58 THEN 1 - @ ELSE @,
                       !.numlock  = IF new_char = 69 THEN 1 - @ ELSE @,
                       !.scrlock  = IF new_char = 70 THEN 1 - @ ELSE @], None)

\* Alt ends with code 40, which is the quote key.
released ==
  /\ Further /\ Code >= KBIT /\ new_char \in {29, 40, 54, 42}
  /\ Loop([Seen EXCEPT !.control = IF new_char = 29 THEN 0 ELSE @,
                       !.alt     = IF new_char = 40 THEN 0 ELSE @,
                       !.shift   = IF new_char \in {54, 42} THEN 0 ELSE @], None)

pressed ==
  /\ Further /\ Code \in {29, 56, 54}
  /\ Loop([flag EXCEPT !.control = IF Code = 29 THEN 1 ELSE @,
                       !.alt     = IF Code = 56 THEN 1 ELSE @,
                       !.shift   = IF Code = 54 THEN 1 ELSE @], None)

\* What remains is looked up; what is found goes to the event manager.
character ==
  /\ Further /\ new_char \notin {58, 69, 70}
  /\ Code \notin {29, 56, 54, 29 + KBIT, 40 + KBIT, 54 + KBIT, 42 + KBIT}
  /\ Loop(Seen, get_keycode(new_char, Seen))

keyb_notifier ==
  /\ line # << >>
  /\ weird \/ ignored \/ prefix \/ left_shift \/ locks \/ released \/ pressed
       \/ character
  /\ line' = Tail(line)
  /\ UNCHANGED <<moved, held, lifted, alted>>

-------------------------------------------------------------------------------
(* The keyboard.                                                             *)

Shifts == {"lshift", "rshift"}

\* A key that stays down repeats its make codes.  Print Screen is only tapped:
\* the code that the notifier ignores after it is then its own.
press(k) ==
  /\ line = << >> /\ "print" \notin held
  /\ Cardinality(held \cup {k}) <= Fingers
  /\ line' = Make(k) /\ moved' = k
  /\ held' = held \cup {k}
  /\ lifted' = IF k \in Shifts \/ held \cap Shifts = {} THEN FALSE ELSE lifted
  /\ alted' = (alted \/ k = "alt")
  /\ key' = None
  /\ UNCHANGED flag

lift(k) ==
  /\ line = << >> /\ k \in held
  /\ "print" \in held => k = "print"
  /\ line' = Break(k) /\ moved' = k
  /\ held' = held \ {k}
  /\ lifted' = (lifted \/ k \in Shifts \cup {"print"})
  /\ alted' = (alted /\ k # "quote")
  /\ key' = None
  /\ UNCHANGED flag

ScanInit ==
  /\ flag = [brk |-> 0, ignore |-> 0, control |-> 0, shift |-> 0, special |-> 0,
             capslock |-> 0, numlock |-> 0, scrlock |-> 0, alt |-> 0]
  /\ key = None
  /\ line = << >> /\ moved = None /\ held = {} /\ lifted = FALSE /\ alted = FALSE

ScanNext == keyb_notifier \/ \E k \in Key : press(k) \/ lift(k)

ScanSpec == ScanInit /\ [][ScanNext]_scan_vars

-------------------------------------------------------------------------------
(* Properties.                                                               *)

Quiet == line = << >>

\* Between two keys no prefix is pending: the flags that one code leaves for
\* the next have been used up by the key that set them.
PrefixesUsedUp ==
  Quiet => /\ flag.brk = 0 /\ flag.special = 0
           /\ flag.ignore = 0 \/ "print" \in held

Shifted == held \cap Shifts # {} /\ ~ lifted

\* Ctrl and shift are on while their keys are down, although Pause contains the
\* codes of Ctrl, and Print Screen the code of a shift key.  Alt stays on until
\* the quote key is lifted: it does not end with its own key, as the comment in
\* lines 222 to 225 says of all three.
ModifiersEnd ==
  Quiet /\ "print" \notin held =>
    /\ flag.control = 1 => held \cap {"ctrl", "rctrl"} # {}
    /\ flag.shift = 1 <=> Shifted
    /\ flag.alt = 1 <=> alted

\* What a key that goes down has to give, by the keys that are down and the light
\* of Caps Lock: keys with a prefix never give what shares their codes.
Character(k) ==
  CASE k = "a"       -> IF Shifted \/ flag.capslock = 1 THEN "A" ELSE "a"
    [] k = "quote"   -> IF flag.capslock = 1 THEN None ELSE IF Shifted THEN "dq" ELSE "'"
    [] k = "keypad8" -> IF Shifted /\ flag.capslock = 0 THEN None ELSE "8"
    [] k = "up"      -> "nul"
    [] k = "enter"   -> "return"
    [] k = "slash"   -> "/"
    [] OTHER         -> None

\* After Alt only the keys with a prefix still give something.
Expected(k) == IF alted /\ k \in {"a", "quote", "keypad8"} THEN None ELSE Character(k)

\* The last code of a key that goes down, and no other code, sends its character.
SendsTheKey == key = IF Quiet /\ moved \in held THEN Expected(moved) ELSE None

\* Each press of a key sends its character, lifting one sends nothing, a modifier
\* is on until the key that ends it is lifted, and no code leaves a flag behind
\* for the next key (keyb.c).
KeysDecoded == SendsTheKey /\ ModifiersEnd /\ PrefixesUsedUp
===============================================================================
