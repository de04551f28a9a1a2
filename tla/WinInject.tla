------------------------------ MODULE WinInject ------------------------------
(***************************************************************************)
(* winInjector (server/injector_windows.go): what the phone's events       *)
(* become as calls of SendInput, and what those do to the pointer and the  *)
(* keys of the desktop the injector runs on.                               *)
(*                                                                         *)
(* The secure desktop takes no relative moves, so its injector (`absolute`)*)
(* tracks the pointer itself, in pixels of the virtual screen, and sends   *)
(* positions scaled to 0..Scale.  The two axes are treated alike; one is   *)
(* modelled.  SendInput inserts all it is given.                           *)
(***************************************************************************)
EXTENDS Integers, Sequences, FiniteSets, SequencesExt

CONSTANTS
  Half,         (* 2^31 in the code: int32 is -Half..Half-1                 *)
  Metrics,      (* the screens: virtual origin and width, primary width; a  *)
                (* width of 0 is a metric that is not available             *)
  Delta,        (* the distances phones ask for, as Go ints                 *)
  Position,     (* the absolute positions phones ask for                    *)
  Code,         (* key codes vkFor knows                                    *)
  Modifier,     (* Ctrl, Shift, Alt, Meta                                   *)
  Message       (* texts phones send, sequences of code points              *)

Scale == 65535

ASSUME HalfOK == Half \in Nat /\ Half > Scale

ASSUME MetricsOK ==
  /\ Metrics \subseteq [x : -Half..Half - 1, w : 0..Half - 1, p : 0..Half - 1]
  /\ \A m \in Metrics : m.x + m.w <= Half /\ m.x + m.p <= Half

ASSUME DistancesOK == Delta \subseteq Int /\ Position \subseteq Int

ASSUME KeysOK == Code \cap Modifier = {} /\ IsFiniteSet(Modifier)

MaxRune == 1114111

(* The surrogates, which are no code points.                                *)
High == 55296..56319
Low  == 56320..57343

ASSUME MessagesOK ==
  \A t \in Message : /\ t \in Seq(0..MaxRune)
                     /\ \A i \in DOMAIN t : t[i] \notin High \cup Low

VARIABLES
  absolute,     (* winInjector.absolute                                     *)
  seeded, x,    (* winInjector.seeded, x                                    *)
  metrics,      (* GetSystemMetrics                                         *)
  pointer,      (* where the pointer is: scaled to the virtual screen or to *)
                (* the primary monitor, or somewhere else                   *)
  pressed,      (* the keys that are down on the desktop                    *)
  held,         (* the chords phones hold down                              *)
  aim,          (* history: where the phone has moved the pointer with its  *)
                (* last moves, if by relative ones on the present screen    *)
  last          (* history: what came of the last call: where the pointer   *)
                (* was and was aimed at when a button moved; the modifiers  *)
                (* asked for and down when a key went down; a text's units, *)
                (* those of each of its code points                         *)

pos  == <<seeded, x, pointer, aim>>
keys == <<pressed, held>>
vars == <<absolute, metrics, pos, keys, last>>

Somewhere == [space |-> "somewhere", n |-> 0]

Place == [space : {"virtual", "primary"}, n : 0..Scale] \cup {Somewhere}

Chord == Code \X SUBSET Modifier

Nothing == [call |-> "other"]

Outcome ==
  {Nothing}
  \cup [call : {"Button"}, at : Place, aim : Place]
  \cup [call : {"Key"}, mods : SUBSET Modifier, down : SUBSET (Code \cup Modifier)]
  \cup [call : {"Text"}, text : Message, units : Seq(Seq(0..Scale))]

TypeOK ==
  /\ absolute \in BOOLEAN /\ seeded \in BOOLEAN /\ x \in -Half..Half - 1
  /\ metrics \in Metrics
  /\ pointer \in Place /\ aim \in Place
  /\ pressed \subseteq Code \cup Modifier /\ held \subseteq Chord
  /\ last \in Outcome

-----------------------------------------------------------------------------
(* The arithmetic.                                                          *)

(* int32(v).                                                                *)
Int32(v) == ((v + Half) % (2 * Half)) - Half

maxI32(a, b) == IF a > b THEN a ELSE b

clampI32(v, lo, hi) == IF v < lo THEN lo ELSE IF v > hi THEN hi ELSE v

(* Width and origin of the virtual screen, the primary monitor's width if   *)
(* there is none, one pixel if there is no width at all.                    *)
ScreenWidth == IF metrics.w > 0 THEN metrics.w ELSE maxI32(metrics.p, 1)

Left == metrics.x
Right == Int32(Left + ScreenWidth - 1)

(* Planted bug: the last pixel is width, not width - 1.                     *)
normAbsByWidth(v) == ((clampI32(v, Left, Right) - Left) * Scale) \div ScreenWidth

(* In 64 bits, so that the product does not overflow.                       *)
normAbs(v) ==
  ((clampI32(v, Left, Right) - Left) * Scale) \div maxI32(ScreenWidth - 1, 1)

(* Planted bug: the 65536 is not taken off.                                 *)
utf16UnitsRaw(r) ==
  IF r > 65535 THEN <<55296 + (r \div 1024), 56320 + (r % 1024)>> ELSE <<r>>

utf16Units(r) ==
  IF r > 65535 THEN LET s == r - 65536
                    IN <<55296 + (s \div 1024), 56320 + (s % 1024)>>
               ELSE <<r>>

-----------------------------------------------------------------------------
(* The pointer.                                                             *)

(* absMove: the tracked position, seeded from the cursor or from the middle *)
(* of the screen, moved by d; the pointer goes there.                       *)
AbsMove(d) ==
  /\ seeded' = TRUE
  /\ \E from \in IF seeded THEN {x} ELSE Left..Right :
       x' = clampI32(Int32(from + Int32(d)), Left, Right)
  /\ pointer' = [space |-> "virtual", n |-> normAbs(x')]

MoveRel ==
  \E d \in Delta :
    /\ IF absolute
         THEN AbsMove(d) /\ aim' = pointer'
         ELSE pointer' = Somewhere /\ aim' = Somewhere /\ UNCHANGED <<seeded, x>>
    /\ last' = Nothing /\ UNCHANGED <<absolute, metrics, keys>>

(* Planted bug: the position is taken as it comes.                          *)
OnPrimaryRaw(n) == [space |-> "primary", n |-> Int32(n)]

OnPrimary(n) == [space |-> "primary", n |-> clampI32(Int32(n), 0, Scale)]

(* MoveAbs does not touch the tracked position.                             *)
MoveAbs ==
  \E n \in Position :
    /\ pointer' = OnPrimary(n)
    /\ aim' = Somewhere
    /\ last' = Nothing /\ UNCHANGED <<absolute, metrics, seeded, x, keys>>

(* Planted bug: the click goes where the pointer happens to be.             *)
ButtonMovesNothing == UNCHANGED <<seeded, x, pointer>>

(* On the secure desktop the tracked position is asserted again.            *)
ButtonMoves == IF absolute THEN AbsMove(0) ELSE UNCHANGED <<seeded, x, pointer>>

Button ==
  /\ ButtonMoves
  /\ last' = [call |-> "Button", at |-> pointer', aim |-> aim]
  /\ UNCHANGED <<absolute, metrics, aim, keys>>

(* Somebody moves the mouse of the computer.                                *)
MouseMoves ==
  /\ pointer' = Somewhere
  /\ last' = Nothing /\ UNCHANGED <<absolute, metrics, seeded, x, aim, keys>>

(* A monitor comes or goes.                                                 *)
ScreenChanges ==
  /\ metrics' \in Metrics \ {metrics}
  /\ pointer' = Somewhere /\ aim' = Somewhere
  /\ last' = Nothing /\ UNCHANGED <<absolute, seeded, x, keys>>

-----------------------------------------------------------------------------
(* The keys.                                                                *)

keyVK(vk, up) == [vk |-> vk, up |-> up]

(* The modifiers that were asked for, in some order (the code has one).     *)
modKeys(mods, up) ==
  LET asked == SetToSeq(mods)
  IN [i \in DOMAIN asked |-> keyVK(asked[i], up)]

(* Planted bug: the key before its modifiers.                               *)
KeyInputsKeyFirst(code, mods, down) ==
  IF down THEN <<keyVK(code, FALSE)>> \o modKeys(mods, FALSE)
          ELSE <<keyVK(code, TRUE)>> \o modKeys(mods, TRUE)

(* Modifiers go down before the key and up after it.                        *)
KeyInputs(code, mods, down) ==
  IF down THEN modKeys(mods, FALSE) \o <<keyVK(code, FALSE)>>
          ELSE <<keyVK(code, TRUE)>> \o modKeys(mods, TRUE)

(* The keys SendInput leaves down: a key is as its last input has it, or as *)
(* it was if there is none.                                                 *)
SendInput(down, ins) ==
  {k \in Code \cup Modifier :
     \/ k \in down /\ \A i \in DOMAIN ins : ins[i].vk # k
     \/ \E i \in DOMAIN ins : /\ ins[i] = keyVK(k, FALSE)
                              /\ \A j \in i + 1..Len(ins) : ins[j].vk # k}

(* A phone presses a key, with modifiers, that no phone holds down.  A code *)
(* vkFor does not know is passed over.                                      *)
KeyDown ==
  \E code \in Code, mods \in SUBSET Modifier :
    LET ins    == KeyInputs(code, mods, TRUE)
        before == SelectInSeq(ins, LAMBDA in : in.vk = code) - 1
    IN /\ \A c \in held : c[1] # code
       /\ pressed' = SendInput(pressed, ins)
       /\ held' = held \cup {<<code, mods>>}
       /\ last' = [call |-> "Key", mods |-> mods,
                   down |-> SendInput(pressed, SubSeq(ins, 1, before))]
       /\ UNCHANGED <<absolute, metrics, pos>>

KeyUp ==
  \E c \in held :
    /\ pressed' = SendInput(pressed, KeyInputs(c[1], c[2], FALSE))
    /\ held' = held \ {c}
    /\ last' = Nothing /\ UNCHANGED <<absolute, metrics, pos>>

(* Text: a press and a release of each unit, in one SendInput.              *)
Text ==
  \E t \in Message :
    /\ last' = [call |-> "Text", text |-> t,
                units |-> [i \in DOMAIN t |-> utf16Units(t[i])]]
    /\ UNCHANGED <<absolute, metrics, pos, keys>>

-----------------------------------------------------------------------------

Init ==
  /\ absolute \in BOOLEAN /\ metrics \in Metrics
  /\ seeded = FALSE /\ x = 0
  /\ pointer = Somewhere /\ aim = Somewhere
  /\ pressed = {} /\ held = {}
  /\ last = Nothing

Next ==
  \/ MoveRel \/ MoveAbs \/ Button \/ MouseMoves \/ ScreenChanges
  \/ KeyDown \/ KeyUp \/ Text

Spec == Init /\ [][Next]_vars

-----------------------------------------------------------------------------
(* Properties.                                                              *)

(* On the secure desktop a click lands where the phone last moved the       *)
(* pointer to (injector_windows.go:205-206), whatever the computer's own    *)
(* mouse did in between; after a MoveAbs or a change of screens nothing is  *)
(* promised.                                                                *)
ClickLands ==
  last.call = "Button" /\ last.aim # Somewhere => last.at = last.aim

(* However far a phone moves, also by more than an int32 holds and onto     *)
(* screens that have shrunk, the tracked position is on the screen, and the *)
(* first and the last pixel are sent as the two ends of the scale.          *)
Reaches ==
  aim # Somewhere =>
    /\ x \in Left..Right
    /\ x = Left => aim.n = 0
    /\ x = Right /\ Left < Right => aim.n = Scale

(* When a key goes down, the modifiers of its chord are down                *)
(* (injector_windows.go:350-351).                                           *)
ChordWorks == last.call = "Key" => last.mods \subseteq last.down

(* How Windows puts the units of UTF-16 together.                           *)
Pair(h, l) == 65536 + (h - 55296) * 1024 + (l - 56320)

(* It takes a unit together with the one behind it.                         *)
Together(u, v) == u \in High /\ v \in Low

(* A text is injected as what it was (injector_windows.go:334-348): a code  *)
(* point's units are taken as just that code point, and none of them goes   *)
(* together with one of the next.                                           *)
TextArrives ==
  last.call = "Text" =>
    /\ Len(last.units) = Len(last.text)
    /\ \A i \in 1..Len(last.text) :
         LET r == last.text[i]  us == last.units[i]
         IN /\ \/ us = <<r>>
               \/ Len(us) = 2 /\ Together(us[1], us[2]) /\ Pair(us[1], us[2]) = r
            /\ i < Len(last.text) => ~Together(us[Len(us)], last.units[i + 1][1])

=============================================================================
