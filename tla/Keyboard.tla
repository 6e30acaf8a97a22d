------------------------------ MODULE Keyboard ------------------------------
(***************************************************************************)
(* The keyboard driver, after devices/kbd.c of "group projects": from the  *)
(* keys that are pressed and released to the characters put into the input *)
(* buffer.  The user holds a set of keys down; each press and release is   *)
(* one interrupt that reads one byte, or two with the prefix 0xe0.         *)
(***************************************************************************)
EXTENDS Integers, Sequences

CONSTANT Keys        \* the scan codes of the keys that exist

VARIABLES held,      \* the keys that are down
    led,             \* Caps Lock, as the user has switched it
    mod,             \* left_shift ... right_ctrl, by scan code
    caps_lock,
    typed,           \* the last character appended and the key it came from
    rebooted         \* shutdown_reboot has been called

kbdVars == <<held, led, mod, caps_lock, typed, rebooted>>

Caps == 58                              \* 0x3a
Delete == 127                           \* 0177
ShiftKey == {42, 54}                    \* 0x2a, 0x36
AltKey == {56, 224 * 256 + 56}          \* 0x38, 0xe038
CtrlKey == {29, 224 * 256 + 29}         \* 0x1d, 0xe01d
ShiftKeys == ShiftKey \cup AltKey \cup CtrlKey

KbdInit ==
    /\ held = {} /\ led = FALSE /\ mod = [k \in ShiftKeys |-> FALSE]
    /\ caps_lock = FALSE /\ typed = [char |-> 0, key |-> 0] /\ rebooted = FALSE

\* The key maps: first scan code and the characters from there on.  Letters
\* are capitals; the rows of letters and the digits stand for the others.
invariant_keymap == {<<1, <<27>>>>, <<14, <<8>>>>, <<30, <<65, 83, 68>>>>, <<83, <<Delete>>>>}
unshifted_keymap == {<<2, <<49, 50, 51>>>>, <<26, <<91, 93>>>>}
shifted_keymap == {<<2, <<33, 64, 35>>>>, <<26, <<123, 125>>>>}

\* map_key: the characters found, at most one.
map_key(k, code) ==
    {m[2][code - m[1] + 1] : m \in {m \in k : code >= m[1] /\ code < m[1] + Len(m[2])}}

\* The bytes of an interrupt as one code, and back: the prefix stays in the
\* high byte, bit 0x80 of the low byte marks a release.
Scancode(key, release) == key + (IF release THEN 128 ELSE 0)
Released(code) == code % 256 >= 128
Unreleased(code) == IF Released(code) THEN code - 128 ELSE code

tolower(c) == IF c \in 65 .. 90 THEN c + 32 ELSE c

\* The character appended for an ordinary key.
Translate(c, shift, alt, ctrl) ==
    LET b == IF ctrl /\ c >= 64 /\ c < 96 THEN c - 64
             ELSE IF shift = caps_lock THEN tolower(c) ELSE c
    IN  IF alt THEN b + 128 ELSE b

\* Mutant of keyboard_interrupt: a release switches Caps Lock too.
keyboard_interruptTwice(byte) ==
    LET code == Unreleased(byte)
    IN  /\ caps_lock' = IF code = Caps THEN ~caps_lock ELSE caps_lock
        /\ mod' = IF code \in ShiftKeys THEN [mod EXCEPT ![code] = ~Released(byte)] ELSE mod
        /\ UNCHANGED <<typed, rebooted>>

\* keyboard_interrupt.
keyboard_interrupt(byte) ==
    LET shift == \E k \in ShiftKey : mod[k]
        alt == \E k \in AltKey : mod[k]
        ctrl == \E k \in CtrlKey : mod[k]
        release == Released(byte)
        code == Unreleased(byte)
        found == map_key(invariant_keymap, code)
                 \cup map_key(IF shift THEN shifted_keymap ELSE unshifted_keymap, code)
    IN  IF code = Caps
          THEN caps_lock' = (IF release THEN caps_lock ELSE ~caps_lock) /\ UNCHANGED <<mod, typed, rebooted>>
        ELSE IF found # {}
          THEN LET c == CHOOSE c \in found : TRUE
               IN  /\ rebooted' = (rebooted \/ (~release /\ c = Delete /\ ctrl /\ alt))
                   /\ typed' = IF release \/ rebooted' THEN typed
                               ELSE [char |-> Translate(c, shift, alt, ctrl), key |-> code]
                   /\ UNCHANGED <<mod, caps_lock>>
        ELSE /\ mod' = IF code \in ShiftKeys THEN [mod EXCEPT ![code] = ~release] ELSE mod
             /\ UNCHANGED <<caps_lock, typed, rebooted>>

Press(k) ==
    /\ ~rebooted /\ k \notin held
    /\ held' = held \cup {k} /\ led' = (led # (k = Caps))
    /\ keyboard_interrupt(Scancode(k, FALSE))

\* A key held down repeats its code; Caps Lock does not.
Repeat(k) ==
    /\ ~rebooted /\ k \in held /\ k # Caps
    /\ UNCHANGED <<held, led>>
    /\ keyboard_interrupt(Scancode(k, FALSE))

Release(k) ==
    /\ ~rebooted /\ k \in held
    /\ held' = held \ {k} /\ UNCHANGED led
    /\ keyboard_interrupt(Scancode(k, TRUE))

KbdNext == \E k \in Keys : Press(k) \/ Repeat(k) \/ Release(k)

-----------------------------------------------------------------------------
\* The driver's idea of the modifiers is what the user's hands do, for the
\* left and the right key of each pair, with and without prefix, and of Caps
\* Lock what the user has switched.
ModifiersTrue ==
    /\ \A k \in ShiftKeys : mod[k] = (k \in held)
    /\ caps_lock = led

\* What the keys mean, by hand: a letter is a capital with Shift or Caps Lock
\* but not with both, Ctrl makes it a control character whatever else is
\* down, Alt sets the high bit, and Caps Lock leaves other keys alone.
Meaning(k, shift, alt, ctrl, caps) ==
    LET letter == CASE k = 30 -> 65 [] k = 31 -> 83 [] k = 32 -> 68 [] OTHER -> 0
        char == CASE letter # 0 -> IF ctrl THEN letter - 64
                                   ELSE IF shift # caps THEN letter ELSE letter + 32
                  [] k = 3 -> IF ~shift THEN 50 ELSE IF ctrl THEN 0 ELSE 64
                  [] k = 26 -> IF shift THEN 123 ELSE IF ctrl THEN 27 ELSE 91
                  [] OTHER -> Delete
    IN  char + (IF alt THEN 128 ELSE 0)

\* Each character appended is what the held keys mean at that moment, only
\* ordinary keys append one, and only when they go down; Ctrl, Alt and
\* Delete together restart the machine and append nothing.
TypedMeaning ==
    [][LET down(S) == \E k \in S : k \in held
           news == {k \in Keys \ ShiftKeys : k # Caps /\ (k \in held' \ held \/ held' = held)}
       IN  /\ typed' # typed =>
                \E k \in news : typed' = [key |-> k,
                  char |-> Meaning(k, down(ShiftKey), down(AltKey), down(CtrlKey), led)]
           /\ rebooted' => 83 \in held' /\ down(AltKey) /\ down(CtrlKey)]_kbdVars

\* kbd.c: the state of the modifiers is that of the keys held, and a key gives
\* the character its modifiers say.
KeyboardRight == []ModifiersTrue /\ TypedMeaning
=============================================================================
