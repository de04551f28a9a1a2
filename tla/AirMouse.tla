------------------------------ MODULE AirMouse ------------------------------
(***************************************************************************)
(* The air mouse of the phone: MotionController (Models/Motion.swift) and  *)
(* the pane that drives it (Views/AirMouseView.swift).                     *)
(*                                                                         *)
(* Two serial queues work on it.  Samples of the phone's attitude and the  *)
(* calls of the pane are handled on `rm.motion`, what they publish and the *)
(* moves they produce are delivered on the main queue, and the handler of  *)
(* a sample reads the published mode.                                      *)
(*                                                                         *)
(* An azimuth is an even number, 2 * Half of which are a full turn.  The   *)
(* elevation, which does not wrap, is left out, and so is the smoothing;   *)
(* whether the filter lets a relative move through is left open.           *)
(***************************************************************************)
EXTENDS Integers, Sequences, SequencesExt

CONSTANTS
  Half,         (* half a turn                                              *)
  HalfRange,    (* the range before a calibration                           *)
  MinHalfRange, (* the narrowest one a calibration may leave                *)
  Pace,         (* how far the hand turns between two samples               *)
  Reach,        (* how far it turns to either side during a calibration     *)
  Control,      (* the buttons and the scroll strip                         *)
  Strip,        (* the scroll strip                                         *)
  MaxTaps,      (* bound on toggling, and on pressing and dragging          *)
  MaxMain       (* bound on the main queue when a sample arrives            *)

Scale == 65535

ASSUME AnglesOK ==
  /\ Half \in Nat /\ Half % 2 = 0
  /\ Pace \in Nat /\ Pace < Half
  /\ Reach \in Nat /\ Reach < Half
  /\ MinHalfRange \in Nat \ {0} /\ HalfRange \in MinHalfRange..Half

ASSUME StripOK == Strip \in Control

ASSUME BoundsOK == MaxTaps \in Nat /\ MaxMain \in Nat

VARIABLES
  calibrate,    (* the switch, AirMousePane.calibrate                       *)
  handled,      (* its value when onChange last ran                         *)
  held,         (* the controls that are touched                            *)
  calibrating, mode,               (* what MotionController publishes       *)
  ops,          (* the operations on rm.motion                              *)
  mainq,        (* the blocks dispatched to the main queue                  *)
  samples,      (* whether there are any: coming, a last one, over          *)
  paused, hasPrev, prevAz,                          (* MotionController     *)
  capturing, capSeeded, capRefAz, minAzOff, maxAzOff,
  neutralAz, halfRangeAz,
  hand,         (* where the phone pointed at the last sample               *)
  sweep,        (* history: the sweep being captured, as it was made        *)
  swept,        (* history: the sweep of the last calibration               *)
  toggles, touches                 (* what is used of MaxTaps               *)

pane      == <<calibrate, handled, held, toggles, touches>>
published == <<calibrating, mode>>
baseline  == <<hasPrev, prevAz>>
capture   == <<capSeeded, capRefAz, minAzOff, maxAzOff, sweep>>
range     == <<neutralAz, halfRangeAz, swept>>
motion    == <<paused, baseline, capturing, capture, range>>
vars      == <<pane, published, ops, mainq, samples, motion, hand>>

Azimuth == {a \in -Half..Half : a % 2 = 0}

Operation == {"pause", "resume", "relative", "begin", "finish", "cancel"}

Block(what) == [do |-> what, n |-> 0]

Blocks ==
  {Block(b) : b \in {"relative", "calibrating", "calibrated", "cancelled"}}
  \cup [do : {"move"}, n : -Half..Half] \cup [do : {"moveAbs"}, n : 0..Scale]

(* Where a sweep began, where it is, and how far it went to either side.    *)
Sweeps == [from : Azimuth, at : -Reach..Reach, lo : -Reach..0, hi : 0..Reach]
NoSweep == [from |-> 0, at |-> 0, lo |-> 0, hi |-> 0]

TypeOK ==
  /\ calibrate \in BOOLEAN /\ handled \in BOOLEAN /\ held \subseteq Control
  /\ calibrating \in BOOLEAN /\ mode \in {"relative", "absolute"}
  /\ ops \in Seq(Operation) /\ mainq \in Seq(Blocks)
  /\ samples \in {"coming", "last", "over"}
  /\ paused \in BOOLEAN /\ hasPrev \in BOOLEAN /\ prevAz \in Azimuth
  /\ capturing \in BOOLEAN /\ capSeeded \in BOOLEAN /\ capRefAz \in Azimuth
  /\ minAzOff \in -Reach..0 /\ maxAzOff \in 0..Reach
  /\ neutralAz \in -Half..Half /\ halfRangeAz \in MinHalfRange..Half
  /\ hand \in Azimuth
  /\ sweep \in Sweeps /\ swept \in Sweeps
  /\ toggles \in 0..MaxTaps /\ touches \in 0..MaxTaps

-----------------------------------------------------------------------------
(* Angles.                                                                  *)

(* Planted bug: the turn of the circle is forgotten.                        *)
AroundNot(d) == d

(* A difference of two azimuths, the short way around.                      *)
Around(d) ==
  IF d > Half THEN d - 2 * Half ELSE IF d < -Half THEN d + 2 * Half ELSE d

Least(a, b)    == IF a < b THEN a ELSE b
Greatest(a, b) == IF a > b THEN a ELSE b

clamp(v, lo, hi) == Least(Greatest(v, lo), hi)

(* emitAbsolute: where azimuth az is on the screen, before smoothing.       *)
ScreenX(az) ==
  LET d == clamp(Around(az - neutralAz), -halfRangeAz, halfRangeAz)
  IN (Scale * (halfRangeAz + d)) \div (2 * halfRangeAz)

-----------------------------------------------------------------------------
(* The pane, on the main queue.  It is updated before the next touch, so    *)
(* that the onChange of one tap precedes the next one.                      *)

Enqueue(s) == ops' = ops \o s

Touchable == samples = "coming" /\ calibrate = handled

Press(c) ==
  /\ Touchable /\ ~calibrating
  /\ c \notin held /\ touches < MaxTaps
  /\ held' = held \cup {c} /\ touches' = touches + 1
  /\ Enqueue(<<"pause">>)
  /\ UNCHANGED <<calibrate, handled, toggles, published, mainq, samples, motion, hand>>

(* Each change of a drag on the scroll strip pauses again.                  *)
Drag ==
  /\ Touchable
  /\ Strip \in held /\ touches < MaxTaps
  /\ touches' = touches + 1
  /\ Enqueue(<<"pause">>)
  /\ UNCHANGED <<calibrate, handled, held, toggles, published, mainq, samples, motion, hand>>

Release(c) ==
  /\ Touchable
  /\ c \in held
  /\ held' = held \ {c}
  /\ Enqueue(<<"resume">>)
  /\ UNCHANGED <<calibrate, handled, toggles, touches, published, mainq, samples, motion, hand>>

(* The overlay covers the switch.                                           *)
Toggle ==
  /\ Touchable /\ ~calibrating
  /\ toggles < MaxTaps
  /\ calibrate' = ~calibrate /\ toggles' = toggles + 1
  /\ UNCHANGED <<handled, held, touches, published, ops, mainq, samples, motion, hand>>

(* Planted bug: the mode stays when the switch is turned off.               *)
OnChangeOnlyCancels ==
  /\ samples = "coming"
  /\ calibrate # handled
  /\ handled' = calibrate
  /\ Enqueue(IF calibrate THEN <<"begin">> ELSE <<"cancel">>)
  /\ UNCHANGED <<calibrate, held, toggles, touches, published, mainq, samples, motion, hand>>

(* Planted bug: the overlay is shown without waiting for rm.motion.         *)
OnChangeShows ==
  /\ samples = "coming"
  /\ calibrate # handled
  /\ handled' = calibrate
  /\ calibrating' = (calibrate \/ calibrating)
  /\ Enqueue(IF calibrate THEN <<"begin">> ELSE <<"cancel", "relative">>)
  /\ UNCHANGED <<calibrate, held, toggles, touches, mode, mainq, samples, motion, hand>>

OnChange ==
  /\ samples = "coming"
  /\ calibrate # handled
  /\ handled' = calibrate
  /\ Enqueue(IF calibrate THEN <<"begin">> ELSE <<"cancel", "relative">>)
  /\ UNCHANGED <<calibrate, held, toggles, touches, published, mainq, samples, motion, hand>>

(* Who taps the overlay has seen it: what was queued before has run.        *)
CaughtUp ==
  /\ ops = <<>>
  /\ \A i \in DOMAIN mainq : mainq[i].do \in {"move", "moveAbs"}

TapCancel ==
  /\ Touchable /\ calibrating /\ CaughtUp
  /\ calibrate' = FALSE
  /\ Enqueue(<<"cancel">>)
  /\ UNCHANGED <<handled, held, toggles, touches, published, mainq, samples, motion, hand>>

TapFinish ==
  /\ Touchable /\ calibrating /\ CaughtUp
  /\ Enqueue(<<"finish">>)
  /\ UNCHANGED <<pane, published, mainq, samples, motion, hand>>

(* The pane goes away; a sample may still be on rm.motion.                  *)
Disappear ==
  /\ Touchable
  /\ samples' \in {"last", "over"}
  /\ hasPrev' = FALSE
  /\ UNCHANGED <<pane, published, ops, mainq, paused, prevAz, capturing, capture, range, hand>>

(* The main queue runs its next block.                                      *)
RunBlock ==
  /\ mainq # <<>>
  /\ mainq' = Tail(mainq)
  /\ LET b == Head(mainq).do
     IN /\ mode' = CASE b = "relative" -> "relative"
                     [] b = "calibrated" -> "absolute"
                     [] OTHER -> mode
        /\ calibrating' = CASE b = "calibrating" -> TRUE
                            [] b \in {"calibrated", "cancelled"} -> FALSE
                            [] OTHER -> calibrating
  /\ UNCHANGED <<pane, ops, samples, motion, hand>>

-----------------------------------------------------------------------------
(* The operations on rm.motion.                                             *)

Dequeue(o) == ops # <<>> /\ Head(ops) = o /\ ops' = Tail(ops)

Post(what) == mainq' = Append(mainq, Block(what))

Pause ==
  /\ Dequeue("pause")
  /\ paused' = TRUE
  /\ UNCHANGED <<pane, published, mainq, samples, baseline, capturing, capture, range, hand>>

Resume ==
  /\ Dequeue("resume")
  /\ paused' = FALSE /\ hasPrev' = FALSE
  /\ UNCHANGED <<pane, published, mainq, samples, prevAz, capturing, capture, range, hand>>

(* Planted bug: the baseline from before the absolute mode stays.           *)
SetModeKeepsBaseline ==
  /\ Dequeue("relative")
  /\ Post("relative")
  /\ UNCHANGED <<pane, published, samples, motion, hand>>

SetMode ==
  /\ Dequeue("relative")
  /\ hasPrev' = FALSE
  /\ Post("relative")
  /\ UNCHANGED <<pane, published, samples, paused, prevAz, capturing, capture, range, hand>>

BeginCalibration ==
  /\ Dequeue("begin")
  /\ capturing' = TRUE /\ capSeeded' = FALSE
  /\ minAzOff' = 0 /\ maxAzOff' = 0
  /\ Post("calibrating")
  /\ UNCHANGED <<pane, published, samples, paused, baseline, capRefAz, sweep, range, hand>>

(* Planted bug: the sweep is taken to be centred where it began.            *)
NeutralAtStart == capRefAz

Neutral == Around(capRefAz + (maxAzOff + minAzOff) \div 2)

FinishCalibration ==
  /\ Dequeue("finish")
  /\ capturing' = FALSE
  /\ halfRangeAz' = Greatest((maxAzOff - minAzOff) \div 2, MinHalfRange)
  /\ neutralAz' = Neutral
  /\ swept' = IF capSeeded THEN sweep ELSE NoSweep
  /\ Post("calibrated")
  /\ UNCHANGED <<pane, published, samples, paused, baseline, capture, hand>>

CancelCalibration ==
  /\ Dequeue("cancel")
  /\ capturing' = FALSE
  /\ Post("cancelled")
  /\ UNCHANGED <<pane, published, samples, paused, baseline, capture, range, hand>>

-----------------------------------------------------------------------------
(* A sample of the attitude: the hand has turned by t.                      *)

Sample(t) ==
  /\ samples # "over"
  /\ samples' = IF samples = "last" THEN "over" ELSE samples
  /\ hand' = Around(hand + t)
  /\ UNCHANGED <<pane, published, ops>>

captureRange(t) ==
  /\ Sample(t)
  /\ capturing
  /\ LET ref == IF capSeeded THEN capRefAz ELSE hand'
         d   == Around(hand' - ref)
     IN /\ capRefAz' = ref /\ capSeeded' = TRUE
        /\ minAzOff' = Least(minAzOff, d) /\ maxAzOff' = Greatest(maxAzOff, d)
  /\ IF capSeeded
       THEN LET at == sweep.at + t
            IN /\ at \in -Reach..Reach
               /\ sweep' = [sweep EXCEPT !.at = at, !.lo = Least(@, at), !.hi = Greatest(@, at)]
       ELSE sweep' = [NoSweep EXCEPT !.from = hand']
  /\ UNCHANGED <<mainq, paused, baseline, capturing, range>>

PausedSample(t) ==
  /\ Sample(t)
  /\ ~capturing /\ paused
  /\ prevAz' = hand'
  /\ UNCHANGED <<mainq, paused, hasPrev, capturing, capture, range>>

emitRelative(t) ==
  /\ Sample(t)
  /\ ~capturing /\ ~paused /\ mode = "relative"
  /\ prevAz' = hand' /\ hasPrev' = TRUE
  /\ \/ UNCHANGED mainq
     \/ /\ hasPrev /\ Len(mainq) < MaxMain
        /\ mainq' = Append(mainq, [do |-> "move", n |-> Around(hand' - prevAz)])
  /\ UNCHANGED <<paused, capturing, capture, range>>

emitAbsolute(t) ==
  /\ Sample(t)
  /\ ~capturing /\ ~paused /\ mode = "absolute"
  /\ Len(mainq) < MaxMain
  /\ mainq' = Append(mainq, [do |-> "moveAbs", n |-> ScreenX(hand')])
  /\ UNCHANGED motion

-----------------------------------------------------------------------------

Init ==
  /\ calibrate = FALSE /\ handled = FALSE /\ held = {}
  /\ calibrating = FALSE /\ mode = "relative"
  /\ ops = <<>> /\ mainq = <<>>
  /\ samples = "coming"
  /\ paused = FALSE /\ hasPrev = FALSE /\ prevAz = 0
  /\ capturing = FALSE /\ capSeeded = FALSE /\ capRefAz = 0
  /\ minAzOff = 0 /\ maxAzOff = 0
  /\ neutralAz = 0 /\ halfRangeAz = HalfRange
  /\ hand \in Azimuth
  /\ sweep = NoSweep /\ swept = NoSweep
  /\ toggles = 0 /\ touches = 0

User ==
  \/ \E c \in Control : Press(c) \/ Release(c)
  \/ Drag \/ Toggle \/ TapCancel \/ TapFinish \/ Disappear

Operate ==
  \/ Pause \/ Resume \/ SetMode
  \/ BeginCalibration \/ FinishCalibration \/ CancelCalibration

Moves ==
  \E t \in -Pace..Pace :
    /\ t % 2 = 0
    /\ captureRange(t) \/ PausedSample(t) \/ emitRelative(t) \/ emitAbsolute(t)

Next == User \/ OnChange \/ RunBlock \/ Operate \/ Moves

Spec == Init /\ [][Next]_vars

-----------------------------------------------------------------------------
(* Properties.                                                              *)

(* "Cursor is held (no output) until finished" (Motion.swift:124): no move  *)
(* is delivered while the overlay is up, also none that was on its way.     *)
StillWhileCalibrating ==
  calibrating /\ mainq # <<>> => Head(mainq).do \notin {"move", "moveAbs"}

(* The switch, the overlay and the mode, set in three places and on two     *)
(* queues, agree when nothing is on its way: on is calibrating or           *)
(* calibrated (AirMouseView.swift:8-11).                                    *)
ViewAgrees ==
  CaughtUp /\ calibrate = handled =>
    /\ calibrating = capturing
    /\ calibrate <=> calibrating \/ mode = "absolute"

(* The end of a calibration, or of the absolute mode, is on its way.        *)
Ending ==
  \/ calibrate # handled
  \/ \E i \in DOMAIN ops : ops[i] = "relative"
  \/ \E i \in DOMAIN mainq : mainq[i].do = "calibrated"

(* No accumulated jump (Motion.swift:104-106): a relative move is what the  *)
(* hand turned between two samples, also after a pause, a calibration, the  *)
(* absolute mode and across the back of the circle.  Until the end of a     *)
(* calibration has been published it may be more.                           *)
NoJump ==
  [][ Len(mainq') > Len(mainq) /\ mainq'[Len(mainq')].do = "move" /\ ~Ending
      => mainq'[Len(mainq')].n \in -Pace..Pace ]_vars

(* After a calibration the ends of the sweep are the edges of the screen,   *)
(* wherever on the circle it was made (Motion.swift:136-140).               *)
SweepFillsScreen ==
  swept.hi - swept.lo >= 2 * MinHalfRange =>
    /\ ScreenX(Around(swept.from + swept.lo)) = 0
    /\ ScreenX(Around(swept.from + swept.hi)) = Scale

=============================================================================
