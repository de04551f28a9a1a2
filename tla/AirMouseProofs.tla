--------------------------- MODULE AirMouseProofs ---------------------------
(***************************************************************************)
(* What the run of AirMouse shows of a circle of four azimuths holds of    *)
(* every circle, pace and reach of the hand, and any number of controls,   *)
(* touches and queued blocks.                                              *)
(*                                                                         *)
(* Two invariants.  IInv has the types, the sweep as it is captured, and   *)
(* for every block of the main queue whether it will find the overlay up.  *)
(* ViewsInv says of the switch, the overlay, the mode and the baseline     *)
(* where the two queues lead: what each will be when both are through.     *)
(***************************************************************************)
EXTENDS AirMouse, TLAPS

-----------------------------------------------------------------------------
(* The inductive invariant.                                                 *)

Even(n) == n % 2 = 0

(* What is captured is the sweep as it was made: the offsets are its sides, *)
(* and where it is the short way from where it began.                       *)
CaptureInv ==
  /\ ~capSeeded => minAzOff = 0 /\ maxAzOff = 0
  /\ capSeeded => /\ minAzOff = sweep.lo /\ maxAzOff = sweep.hi
                  /\ capRefAz = sweep.from
  /\ capturing /\ capSeeded => Around(hand - capRefAz) = sweep.at
  /\ Even(sweep.at) /\ Even(sweep.lo) /\ Even(sweep.hi)

(* A calibration that was wide enough is centred on its sweep and as wide.  *)
RangeInv ==
  /\ Even(swept.lo) /\ Even(swept.hi)
  /\ swept.hi - swept.lo >= 2 * MinHalfRange =>
       /\ neutralAz = Around(swept.from + (swept.hi + swept.lo) \div 2)
       /\ 2 * halfRangeAz = swept.hi - swept.lo

Ends(b) == b.do \in {"calibrated", "cancelled"}

IsMove(b) == b.do \in {"move", "moveAbs"}

(* The overlay is up when the main queue comes to its block i.              *)
ShownAt(i) ==
  \/ calibrating /\ \A k \in 1..i - 1 : ~Ends(mainq[k])
  \/ \E j \in 1..i - 1 : /\ mainq[j].do = "calibrating"
                         /\ \A k \in j + 1..i - 1 : ~Ends(mainq[k])

(* No move comes to its turn under the overlay, and when all has come to    *)
(* its turn, the overlay is only up during a capture.                       *)
HeldInv ==
  \A i \in 1..Len(mainq) + 1 :
    ShownAt(i) => IF i <= Len(mainq) THEN ~IsMove(mainq[i]) ELSE capturing

IInv == TypeOK /\ CaptureInv /\ RangeInv /\ HeldInv

-----------------------------------------------------------------------------
(* Angles.                                                                  *)

(* What Around returns is an angle, the same one, and keeps its parity.     *)
LEMMA AroundIs ==
  ASSUME NEW d \in -(2 * Half)..2 * Half
  PROVE  /\ Around(d) \in -Half..Half
         /\ Even(d) => Even(Around(d))
<1>1. Half \in Nat /\ d \in Int /\ -(2 * Half) <= d /\ d <= 2 * Half
  BY AnglesOK DEF AnglesOK
<1> QED
  BY <1>1 DEF Around, Even

(* The difference of two angles.                                            *)
LEMMA Difference ==
  ASSUME NEW a \in -Half..Half, NEW b \in -Half..Half
  PROVE  /\ a - b \in -(2 * Half)..2 * Half
         /\ Around(a - b) \in -Half..Half
         /\ Around(a - a) = 0
<1>1. Half \in Nat /\ Half > 0
  BY AnglesOK DEF AnglesOK
<1>2. a - b \in -(2 * Half)..2 * Half /\ a - a = 0
  BY <1>1
<1>3. Around(0) = 0
  BY <1>1 DEF Around
<1> QED
  BY <1>2, <1>3, AroundIs

(* The hand has turned by t, both ways less than half a turn from r.        *)
LEMMA Turned ==
  ASSUME NEW h \in -Half..Half, NEW r \in -Half..Half, NEW t \in -Pace..Pace,
         NEW at \in -Reach..Reach, at + t \in -Reach..Reach,
         Around(h - r) = at
  PROVE  Around(Around(h + t) - r) = at + t
<1>1. /\ Half \in Nat /\ Pace \in Nat /\ Reach \in Nat /\ Reach < Half /\ Pace < Half
      /\ h \in Int /\ r \in Int /\ t \in Int /\ at \in Int
      /\ -Half <= h /\ h <= Half /\ -Half <= r /\ r <= Half
      /\ -Pace <= t /\ t <= Pace /\ -Reach <= at + t /\ at + t <= Reach
      /\ -Reach <= at /\ at <= Reach
  BY AnglesOK DEF AnglesOK
<1> QED
  BY <1>1 DEF Around

(* Two angles a and b that are less than half a turn apart.                 *)
LEMMA Apart ==
  ASSUME NEW a \in -(2 * Half)..2 * Half, NEW b \in -(2 * Half)..2 * Half,
         -Half < a - b, a - b < Half
  PROVE  Around(Around(a) - Around(b)) = a - b
<1>1. /\ Half \in Nat /\ a \in Int /\ b \in Int
      /\ -(2 * Half) <= a /\ a <= 2 * Half /\ -(2 * Half) <= b /\ b <= 2 * Half
  BY AnglesOK DEF AnglesOK
<1> QED
  BY <1>1 DEF Around

LEMMA HalfOf ==
  ASSUME NEW n \in Int
  PROVE  /\ n \div 2 \in Int /\ 2 * (n \div 2) <= n /\ n <= 2 * (n \div 2) + 1
         /\ Even(n) => 2 * (n \div 2) = n
BY DEF Even

(* a of b steps is on the scale, none of them and all of them its ends.     *)
LEMMA OnScale ==
  ASSUME NEW b \in Nat, b >= 1, NEW a \in 0..b
  PROVE  /\ (Scale * a) \div b \in 0..Scale
         /\ a = 0 => (Scale * a) \div b = 0
         /\ a = b => (Scale * a) \div b = Scale
<1> DEFINE n == Scale * a
           q == n \div b
<1>1. n \in Int /\ Scale * b \in Int /\ 0 <= n /\ n <= Scale * b
      /\ (a = 0 => n = 0) /\ (a = b => n = Scale * b)
  BY SMT DEF Scale
<1>2. q \in Int /\ b * q <= n /\ n < b * (q + 1)
  <2> HIDE DEF n
  <2> QED BY SMT, <1>1
<1> QED
  <2> HIDE DEF n, q
  <2>1. q \in Int /\ Scale \in Nat /\ b * Scale = Scale * b BY <1>2 DEF Scale
  <2>2. 0 <= q BY SMT, <1>1, <1>2, <2>1
  <2>3. q <= Scale BY SMT, <1>1, <1>2, <2>1
  <2>4. a = b => Scale <= q BY SMT, <1>1, <1>2, <2>1
  <2>5. a = 0 => q <= 0 BY SMT, <1>1, <1>2, <2>1
  <2>6. q \in 0..Scale /\ (a = 0 => q = 0) /\ (a = b => q = Scale)
    BY SMT, <2>1, <2>2, <2>3, <2>4, <2>5
  <2> QED BY <2>6 DEF q, n

(* An azimuth is a place on the screen.  One that is the range away from    *)
(* the middle is an edge.                                                   *)
LEMMA OnScreen ==
  ASSUME TypeOK, NEW az \in -Half..Half
  PROVE  /\ ScreenX(az) \in 0..Scale
         /\ Around(az - neutralAz) = -halfRangeAz => ScreenX(az) = 0
         /\ Around(az - neutralAz) = halfRangeAz => ScreenX(az) = Scale
<1> DEFINE e == Around(az - neutralAz)
           d == clamp(e, -halfRangeAz, halfRangeAz)
           a == halfRangeAz + d
           b == 2 * halfRangeAz
<1>1. /\ Half \in Nat /\ MinHalfRange \in Nat \ {0} /\ neutralAz \in -Half..Half
      /\ halfRangeAz \in MinHalfRange..Half
  BY AnglesOK DEF AnglesOK, TypeOK
<1>2. e \in -Half..Half
  <2>1. az - neutralAz \in -(2 * Half)..2 * Half BY <1>1
  <2> QED BY <2>1, AroundIs
<1>3. /\ halfRangeAz \in Nat /\ halfRangeAz >= 1 /\ e \in Int
  <2> HIDE DEF e
  <2> QED BY <1>1, <1>2
<1>4. /\ b \in Nat /\ b >= 1 /\ a \in 0..b
      /\ (e = -halfRangeAz => a = 0) /\ (e = halfRangeAz => a = b)
  <2> HIDE DEF e
  <2> QED BY <1>3 DEF clamp, Least, Greatest
<1>5. ScreenX(az) = (Scale * a) \div b
  BY Zenon DEF ScreenX
<1> HIDE DEF a, b, e
<1>6. /\ ScreenX(az) \in 0..Scale
      /\ (a = 0 => ScreenX(az) = 0) /\ (a = b => ScreenX(az) = Scale)
  BY <1>4, <1>5, OnScale
<1> QED BY <1>4, <1>6 DEF e

-----------------------------------------------------------------------------
(* The two queues.                                                          *)

LEMMA Posted ==
  ASSUME TypeOK, NEW b \in Blocks, mainq' = Append(mainq, b)
  PROVE  mainq' \in Seq(Blocks)
BY DEF TypeOK

LEMMA Simple ==
  /\ \A b \in {"relative", "calibrating", "calibrated", "cancelled"} : Block(b) \in Blocks
  /\ \A n \in -Half..Half : [do |-> "move", n |-> n] \in Blocks
  /\ \A n \in 0..Scale : [do |-> "moveAbs", n |-> n] \in Blocks
BY DEF Blocks, Block

LEMMA Dequeued == ASSUME TypeOK, NEW o, Dequeue(o) PROVE ops' \in Seq(Operation)
BY DEF TypeOK, Dequeue

LEMMA Enqueued ==
  ASSUME TypeOK, NEW s \in Seq(Operation), Enqueue(s)
  PROVE  ops' \in Seq(Operation)
BY DEF TypeOK, Enqueue

(* A block joins the main queue: the overlay is up at the earlier ones only *)
(* if it was, and behind it if it was and the block does not take it down,  *)
(* or the block is the one that puts it up.                                 *)
LEMMA ShownBehind ==
  ASSUME TypeOK, NEW b \in Blocks, mainq' = Append(mainq, b), UNCHANGED calibrating,
         NEW n \in Nat, n = Len(mainq)
  PROVE  /\ Len(mainq') = n + 1 /\ mainq'[n + 1] = b
         /\ \A i \in 1..n : mainq'[i] = mainq[i]
         /\ \A i \in 1..n + 1 : ShownAt(i)' => ShownAt(i)
         /\ ShownAt(n + 2)' => b.do = "calibrating" \/ (ShownAt(n + 1) /\ ~Ends(b))
<1>1. /\ n \in Nat /\ Len(mainq') = n + 1 /\ mainq'[n + 1] = b
      /\ \A i \in 1..n : mainq'[i] = mainq[i]
  BY DEF TypeOK
<1>2. ASSUME NEW i \in 1..n + 1, ShownAt(i)' PROVE ShownAt(i)
  <2>1. i \in Nat /\ \A k \in 1..i - 1 : k \in 1..n /\ mainq'[k] = mainq[k]
    BY <1>1
  <2>2. CASE calibrating' /\ \A k \in 1..i - 1 : ~Ends(mainq'[k])
    BY <2>1, <2>2 DEF ShownAt
  <2>3. CASE \E j \in 1..i - 1 : /\ mainq'[j].do = "calibrating"
                                 /\ \A k \in j + 1..i - 1 : ~Ends(mainq'[k])
    <3>1. PICK j \in 1..i - 1 : /\ mainq'[j].do = "calibrating"
                                /\ \A k \in j + 1..i - 1 : ~Ends(mainq'[k])
      BY <2>3
    <3>2. \A k \in j + 1..i - 1 : k \in 1..i - 1
      BY <2>1
    <3>3. mainq[j].do = "calibrating" /\ \A k \in j + 1..i - 1 : ~Ends(mainq[k])
      BY <2>1, <3>1, <3>2
    <3> QED BY <3>3 DEF ShownAt
  <2> QED BY <1>2, <2>2, <2>3 DEF ShownAt
<1>3. ASSUME ShownAt(n + 2)' PROVE b.do = "calibrating" \/ (ShownAt(n + 1) /\ ~Ends(b))
  <2>1. (n + 2) - 1 = n + 1 /\ (n + 1) - 1 = n /\ n + 1 \in 1..n + 1
    BY <1>1
  <2>2. CASE calibrating' /\ \A k \in 1..n + 1 : ~Ends(mainq'[k])
    <3>1. ~Ends(b) /\ \A k \in 1..n : ~Ends(mainq[k])
      BY <1>1, <2>1, <2>2
    <3> QED BY <2>1, <2>2, <3>1 DEF ShownAt
  <2>3. ASSUME NEW j \in 1..n + 1, mainq'[j].do = "calibrating",
               \A k \in j + 1..n + 1 : ~Ends(mainq'[k])
        PROVE  b.do = "calibrating" \/ (ShownAt(n + 1) /\ ~Ends(b))
    <3>1. CASE j = n + 1
      BY <1>1, <2>3, <3>1
    <3>2. CASE j # n + 1
      <4>1. j \in 1..n /\ n + 1 \in j + 1..n + 1
        BY <1>1, <3>2
      <4>2. \A k \in j + 1..n : k \in 1..n /\ k \in j + 1..n + 1
        BY <1>1, <4>1
      <4>3. ~Ends(b) /\ mainq[j].do = "calibrating" /\ \A k \in j + 1..n : ~Ends(mainq[k])
        BY <1>1, <2>3, <4>1, <4>2
      <4> QED BY <2>1, <4>1, <4>3 DEF ShownAt
    <3> QED BY <3>1, <3>2
  <2>4. \/ calibrating' /\ \A k \in 1..n + 1 : ~Ends(mainq'[k])
        \/ \E j \in 1..n + 1 : /\ mainq'[j].do = "calibrating"
                               /\ \A k \in j + 1..n + 1 : ~Ends(mainq'[k])
    BY <1>3, <2>1 DEF ShownAt
  <2> QED BY <2>2, <2>3, <2>4
<1> QED BY <1>1, <1>2, <1>3

(* A block runs: the overlay is up at a later one only if it was to be.     *)
LEMMA ShownAfter ==
  ASSUME TypeOK, RunBlock, NEW n \in Nat, n = Len(mainq')
  PROVE  /\ Len(mainq) = n + 1
         /\ \A i \in 1..n : mainq'[i] = mainq[i + 1]
         /\ \A i \in 1..n + 1 : ShownAt(i)' => ShownAt(i + 1)
<1>1. /\ n \in Nat /\ Len(mainq) = n + 1 /\ Head(mainq) = mainq[1]
      /\ \A i \in 1..n : mainq'[i] = mainq[i + 1]
  BY DEF TypeOK, RunBlock
<1>2. /\ mainq[1].do = "calibrating" => calibrating'
      /\ Ends(mainq[1]) => ~calibrating'
      /\ ~Ends(mainq[1]) /\ mainq[1].do # "calibrating" => calibrating' = calibrating
  BY <1>1 DEF RunBlock, Ends
<1>3. ASSUME NEW i \in 1..n + 1, ShownAt(i)' PROVE ShownAt(i + 1)
  <2>1. i \in Nat /\ (i + 1) - 1 = i /\ 1 \in 1..i /\ \A k \in 1..i - 1 : k \in 1..n
    BY <1>1
  <2>2. \A k \in 2..i : k - 1 \in 1..i - 1 /\ mainq'[k - 1] = mainq[k]
    BY <1>1, <2>1
  <2>3. CASE calibrating' /\ \A k \in 1..i - 1 : ~Ends(mainq'[k])
    <3>1. \A k \in 2..i : ~Ends(mainq[k])
      BY <2>2, <2>3
    <3>2. CASE mainq[1].do = "calibrating"
      BY <2>1, <3>1, <3>2 DEF ShownAt
    <3>3. CASE mainq[1].do # "calibrating"
      <4>1. calibrating /\ ~Ends(mainq[1])
        BY <1>2, <2>3, <3>3
      <4>2. \A k \in 1..i : ~Ends(mainq[k])
        BY <2>1, <3>1, <4>1
      <4> QED BY <2>1, <4>1, <4>2 DEF ShownAt
    <3> QED BY <3>2, <3>3
  <2>4. ASSUME NEW j \in 1..i - 1, mainq'[j].do = "calibrating",
               \A k \in j + 1..i - 1 : ~Ends(mainq'[k])
        PROVE  ShownAt(i + 1)
    <3>1. j + 1 \in 1..i /\ j \in 1..n /\ mainq[j + 1].do = "calibrating"
      BY <1>1, <2>1, <2>4
    <3>2. \A k \in (j + 1) + 1..i : k \in 2..i /\ k - 1 \in j + 1..i - 1
      BY <2>1
    <3>3. \A k \in (j + 1) + 1..i : ~Ends(mainq[k])
      BY <2>2, <2>4, <3>2
    <3> QED BY <2>1, <3>1, <3>3 DEF ShownAt
  <2> QED BY <1>3, <2>3, <2>4 DEF ShownAt
<1> QED BY <1>1, <1>3

-----------------------------------------------------------------------------
(* Samples.                                                                 *)

LEMMA HandTurns ==
  ASSUME TypeOK, NEW t \in -Pace..Pace, Even(t), Sample(t)
  PROVE  /\ hand' \in Azimuth
         /\ samples' \in {"coming", "last", "over"}
<1>1. /\ Half \in Nat /\ Pace \in Nat /\ Pace < Half /\ hand \in -Half..Half /\ Even(hand)
  BY AnglesOK DEF AnglesOK, TypeOK, Azimuth, Even
<1>2. hand + t \in -(2 * Half)..2 * Half /\ Even(hand + t)
  BY <1>1 DEF Even
<1>3. hand' = Around(hand + t)
  BY DEF Sample
<1> QED
  BY <1>2, <1>3, AroundIs DEF Sample, Azimuth, Even, TypeOK

(* What captureRange records of a sample is where the sweep has got to.     *)
LEMMA Captured ==
  ASSUME TypeOK, CaptureInv, NEW t \in -Pace..Pace, Even(t), captureRange(t)
  PROVE  /\ capSeeded' /\ sweep' \in Sweeps /\ CaptureInv'
         /\ capRefAz' \in Azimuth /\ minAzOff' \in -Reach..0 /\ maxAzOff' \in 0..Reach
<1>1. /\ Half \in Nat /\ Half > 0 /\ Reach \in Nat /\ Reach < Half
      /\ hand' \in Azimuth /\ hand' \in Int
  BY HandTurns, AnglesOK DEF captureRange, AnglesOK, Azimuth
<1>2. /\ minAzOff \in -Reach..0 /\ maxAzOff \in 0..Reach /\ capSeeded \in BOOLEAN
      /\ hand \in -Half..Half /\ capRefAz \in Azimuth /\ capRefAz \in -Half..Half
      /\ sweep \in Sweeps
  BY DEF TypeOK, Azimuth
<1>3. CASE ~capSeeded
  <2>1. Around(hand' - hand') = 0 /\ Even(0)
    <3>1. hand' \in -Half..Half BY <1>1 DEF Azimuth
    <3> QED BY <3>1, Difference DEF Even
  <2>2. /\ capRefAz' = hand' /\ capSeeded'
        /\ minAzOff' = Least(0, 0) /\ maxAzOff' = Greatest(0, 0)
        /\ sweep' = [NoSweep EXCEPT !.from = hand']
    BY <1>3, <2>1 DEF captureRange, CaptureInv
  <2>3. minAzOff' = 0 /\ maxAzOff' = 0
    BY <2>2 DEF Least, Greatest
  <2>4. /\ sweep' \in Sweeps
        /\ sweep'.from = hand' /\ sweep'.at = 0 /\ sweep'.lo = 0 /\ sweep'.hi = 0
    BY <1>1, <2>2 DEF NoSweep, Sweeps
  <2> QED BY <1>1, <2>1, <2>2, <2>3, <2>4 DEF CaptureInv
<1>4. CASE capSeeded
  <2> DEFINE at == sweep.at + t
             d  == Around(hand' - capRefAz)
  <2>1. /\ at \in -Reach..Reach /\ Even(at) /\ sweep.at \in -Reach..Reach
        /\ sweep.lo \in -Reach..0 /\ sweep.hi \in 0..Reach
        /\ Even(sweep.lo) /\ Even(sweep.hi)
        /\ sweep' = [sweep EXCEPT !.at = at, !.lo = Least(@, at), !.hi = Greatest(@, at)]
    <3>1. sweep.at \in -Reach..Reach /\ sweep.lo \in -Reach..0 /\ sweep.hi \in 0..Reach
      BY <1>2 DEF Sweeps
    <3>2. sweep.at \in Int /\ t \in Int
      BY <1>1, <3>1, AnglesOK DEF AnglesOK
    <3> QED BY <1>4, <3>1, <3>2 DEF captureRange, CaptureInv, Even
  <2>2. d = at
    <3>1. Around(hand - capRefAz) = sweep.at /\ hand' = Around(hand + t)
      BY <1>4 DEF CaptureInv, captureRange, Sample
    <3> QED BY <1>2, <2>1, <3>1, Turned
  <2>3. /\ capRefAz' = capRefAz /\ capSeeded'
        /\ minAzOff' = Least(minAzOff, at) /\ maxAzOff' = Greatest(maxAzOff, at)
    BY <1>4, <2>2 DEF captureRange
  <2>4. /\ minAzOff = sweep.lo /\ maxAzOff = sweep.hi /\ capRefAz = sweep.from
    BY <1>4 DEF CaptureInv
  <2>5. /\ sweep'.from = sweep.from /\ sweep'.at = at
        /\ sweep'.lo = Least(sweep.lo, at) /\ sweep'.hi = Greatest(sweep.hi, at)
    BY <1>2, <2>1 DEF Sweeps
  <2> HIDE DEF at
  <2>6. /\ Least(sweep.lo, at) \in -Reach..0 /\ Greatest(sweep.hi, at) \in 0..Reach
        /\ Even(Least(sweep.lo, at)) /\ Even(Greatest(sweep.hi, at))
    BY <1>1, <2>1 DEF Least, Greatest
  <2>7. sweep' \in Sweeps
    <3> HIDE DEF Least, Greatest
    <3> QED BY <1>2, <2>1, <2>6 DEF Sweeps
  <2> QED
    BY <1>2, <2>1, <2>2, <2>3, <2>4, <2>5, <2>6, <2>7 DEF CaptureInv
<1> QED BY <1>2, <1>3, <1>4

(* A move that is posted is a block.                                        *)
LEMMA RelativePosts ==
  ASSUME TypeOK, NEW t \in -Pace..Pace, Even(t), emitRelative(t)
  PROVE  \/ UNCHANGED mainq
         \/ \E b \in Blocks : IsMove(b) /\ mainq' = Append(mainq, b)
<1>1. hand' \in -Half..Half /\ prevAz \in -Half..Half
  BY HandTurns DEF emitRelative, TypeOK, Azimuth
<1>2. Around(hand' - prevAz) \in -Half..Half
  BY <1>1, Difference
<1> DEFINE b == [do |-> "move", n |-> Around(hand' - prevAz)]
<1>3. b \in Blocks /\ b.do = "move"
  BY <1>2, Simple
<1> QED BY <1>3 DEF emitRelative, IsMove

LEMMA AbsolutePosts ==
  ASSUME TypeOK, NEW t \in -Pace..Pace, Even(t), emitAbsolute(t)
  PROVE  \E b \in Blocks : IsMove(b) /\ mainq' = Append(mainq, b)
<1>1. hand' \in -Half..Half
  BY HandTurns DEF emitAbsolute, Azimuth
<1> DEFINE b == [do |-> "moveAbs", n |-> ScreenX(hand')]
<1>2. neutralAz \in Int /\ UNCHANGED <<neutralAz, halfRangeAz>>
  BY AnglesOK DEF emitAbsolute, motion, range, AnglesOK, TypeOK
<1>3. ScreenX(hand') \in 0..Scale
  BY <1>1, OnScreen
<1>4. b \in Blocks /\ b.do = "moveAbs"
  BY <1>3, Simple
<1> QED BY <1>4 DEF emitAbsolute, IsMove

-----------------------------------------------------------------------------
(* Types.                                                                   *)

LEMMA UserTypes == ASSUME TypeOK, User \/ OnChange PROVE TypeOK'
<1>1. CASE \E c \in Control : Press(c) \/ Release(c)
  <2>1. <<"pause">> \in Seq(Operation) /\ <<"resume">> \in Seq(Operation)
    BY DEF Operation
  <2>2. ops' \in Seq(Operation)
    BY <1>1, <2>1, Enqueued DEF Press, Release
  <2> QED
    BY <1>1, <2>2, BoundsOK
    DEF TypeOK, Press, Release, published, motion, baseline, capture, range, BoundsOK
<1>2. CASE Drag
  <2>1. <<"pause">> \in Seq(Operation)
    BY DEF Operation
  <2>2. ops' \in Seq(Operation)
    BY <1>2, <2>1, Enqueued DEF Drag
  <2> QED
    BY <1>2, <2>2, BoundsOK
    DEF TypeOK, Drag, published, motion, baseline, capture, range, BoundsOK
<1>3. CASE Toggle
  BY <1>3, BoundsOK DEF TypeOK, Toggle, published, motion, baseline, capture, range, BoundsOK
<1>4. CASE TapCancel \/ TapFinish
  <2>1. <<"cancel">> \in Seq(Operation) /\ <<"finish">> \in Seq(Operation)
    BY DEF Operation
  <2>2. ops' \in Seq(Operation)
    BY <1>4, <2>1, Enqueued DEF TapCancel, TapFinish
  <2> USE DEF TypeOK, pane, published, motion, baseline, capture, range
  <2>3. CASE TapCancel BY <2>2, <2>3 DEF TapCancel
  <2>4. CASE TapFinish BY <2>2, <2>4 DEF TapFinish
  <2> QED BY <1>4, <2>3, <2>4
<1>5. CASE Disappear
  BY <1>5 DEF TypeOK, Disappear, pane, published, capture, range
<1>6. CASE OnChange
  <2>1. <<"begin">> \in Seq(Operation) /\ <<"cancel", "relative">> \in Seq(Operation)
    BY DEF Operation
  <2>2. ops' \in Seq(Operation)
    <3>1. PICK s \in {<<"begin">>, <<"cancel", "relative">>} : Enqueue(s)
      BY <1>6 DEF OnChange
    <3> QED BY <2>1, <3>1, Enqueued
  <2> QED BY <1>6, <2>2 DEF TypeOK, OnChange, published, motion, baseline, capture, range
<1> QED BY <1>1, <1>2, <1>3, <1>4, <1>5, <1>6 DEF User

LEMMA BlockTypes == ASSUME TypeOK, RunBlock PROVE TypeOK'
<1>1. mainq' \in Seq(Blocks)
  BY DEF TypeOK, RunBlock
<1>2. mode' \in {"relative", "absolute"} /\ calibrating' \in BOOLEAN
  BY Zenon DEF TypeOK, RunBlock
<1> QED
  BY <1>1, <1>2 DEF TypeOK, RunBlock, pane, motion, baseline, capture, range

(* The range of a calibration: half the sweep, from the middle of it.       *)
LEMMA Calibrated ==
  ASSUME TypeOK, CaptureInv, FinishCalibration
  PROVE  /\ neutralAz' \in -Half..Half /\ halfRangeAz' \in MinHalfRange..Half
         /\ swept' \in Sweeps /\ RangeInv'
<1> DEFINE sum  == maxAzOff + minAzOff
           wide == maxAzOff - minAzOff
<1>1. /\ Half \in Nat /\ Reach \in Nat /\ Reach < Half
      /\ MinHalfRange \in Nat /\ MinHalfRange >= 1 /\ MinHalfRange <= Half
      /\ minAzOff \in -Reach..0 /\ maxAzOff \in 0..Reach
      /\ capRefAz \in -Half..Half /\ capSeeded \in BOOLEAN /\ sweep \in Sweeps
  BY AnglesOK DEF AnglesOK, TypeOK, Azimuth
<1>2. sum \in Int /\ wide \in Int /\ -Reach <= sum /\ sum <= Reach /\ 0 <= wide /\ wide <= 2 * Reach
  BY <1>1
<1>3. /\ swept' = (IF capSeeded THEN sweep ELSE NoSweep)
      /\ neutralAz' = Around(capRefAz + sum \div 2)
      /\ halfRangeAz' = Greatest(wide \div 2, MinHalfRange)
  BY DEF FinishCalibration, Neutral
<1> HIDE DEF sum, wide
<1>4. /\ sum \div 2 \in Int /\ 2 * (sum \div 2) <= sum /\ sum <= 2 * (sum \div 2) + 1
      /\ wide \div 2 \in Int /\ 2 * (wide \div 2) <= wide /\ wide <= 2 * (wide \div 2) + 1
      /\ Even(wide) => 2 * (wide \div 2) = wide
  BY <1>2, HalfOf
<1>5. neutralAz' \in -Half..Half
  <2>1. capRefAz + sum \div 2 \in -(2 * Half)..2 * Half
    BY <1>1, <1>2, <1>4
  <2> QED BY <1>3, <2>1, AroundIs
<1>6. halfRangeAz' \in MinHalfRange..Half
  BY <1>1, <1>2, <1>3, <1>4 DEF Greatest
<1>7. /\ NoSweep \in Sweeps /\ NoSweep.lo = 0 /\ NoSweep.hi = 0 /\ NoSweep.from = 0
  <2>1. 0 \in Azimuth /\ 0 \in -Reach..Reach /\ 0 \in -Reach..0 /\ 0 \in 0..Reach
    BY <1>1 DEF Azimuth
  <2> QED BY <2>1 DEF NoSweep, Sweeps
<1>8. RangeInv'
  <2>1. CASE ~capSeeded
    <3>1. swept' = NoSweep /\ Even(0)
      BY <1>3, <2>1 DEF Even
    <3> QED BY <1>1, <1>7, <3>1 DEF RangeInv
  <2>2. CASE capSeeded
    <3>1. /\ swept' = sweep /\ minAzOff = sweep.lo /\ maxAzOff = sweep.hi
          /\ capRefAz = sweep.from /\ Even(sweep.lo) /\ Even(sweep.hi)
      BY <1>3, <2>2 DEF CaptureInv
    <3>2. sum = sweep.hi + sweep.lo /\ wide = sweep.hi - sweep.lo /\ Even(wide)
      BY <1>1, <3>1 DEF sum, wide, Even
    <3>3. wide >= 2 * MinHalfRange => 2 * halfRangeAz' = wide
      <4>1. wide >= 2 * MinHalfRange => wide \div 2 >= MinHalfRange
        BY <1>1, <1>2, <1>4
      <4>2. wide \div 2 >= MinHalfRange => Greatest(wide \div 2, MinHalfRange) = wide \div 2
        BY <1>1, <1>4 DEF Greatest
      <4> QED BY <1>3, <1>4, <3>2, <4>1, <4>2
    <3> QED BY <1>3, <3>1, <3>2, <3>3 DEF RangeInv
  <2> QED BY <1>1, <2>1, <2>2
<1> QED BY <1>1, <1>3, <1>5, <1>6, <1>7, <1>8

LEMMA OperateTypes == ASSUME TypeOK, CaptureInv, Operate PROVE TypeOK'
<1>1. ops' \in Seq(Operation)
  BY Dequeued DEF Operate, Pause, Resume, SetMode, BeginCalibration, FinishCalibration,
                  CancelCalibration
<1>2. mainq' \in Seq(Blocks)
  <2>1. \/ UNCHANGED mainq
        \/ \E b \in {"relative", "calibrating", "calibrated", "cancelled"} : Post(b)
    BY DEF Operate, Pause, Resume, SetMode, BeginCalibration, FinishCalibration,
           CancelCalibration
  <2> QED BY <2>1, Posted, Simple DEF Post, TypeOK
<1>3. CASE Pause \/ Resume \/ SetMode \/ CancelCalibration
  <2> USE DEF TypeOK, pane, published, baseline, capture, range
  <2>1. CASE Pause BY <1>1, <1>2, <2>1 DEF Pause
  <2>2. CASE Resume BY <1>1, <1>2, <2>2 DEF Resume
  <2>3. CASE SetMode BY <1>1, <1>2, <2>3 DEF SetMode
  <2>4. CASE CancelCalibration BY <1>1, <1>2, <2>4 DEF CancelCalibration
  <2> QED BY <1>3, <2>1, <2>2, <2>3, <2>4
<1>4. CASE BeginCalibration
  <2>1. 0 \in -Reach..0 /\ 0 \in 0..Reach
    BY AnglesOK DEF AnglesOK
  <2> QED
    BY <1>1, <1>2, <1>4, <2>1 DEF TypeOK, BeginCalibration, pane, published, baseline, range
<1>5. CASE FinishCalibration
  BY <1>1, <1>2, <1>5, Calibrated DEF TypeOK, FinishCalibration, pane, published, baseline, capture
<1> QED BY <1>3, <1>4, <1>5 DEF Operate

LEMMA MovesTypes ==
  ASSUME TypeOK, CaptureInv, NEW t \in -Pace..Pace, Even(t),
         captureRange(t) \/ PausedSample(t) \/ emitRelative(t) \/ emitAbsolute(t)
  PROVE  TypeOK'
<1>1. /\ Sample(t) /\ hand' \in Azimuth /\ samples' \in {"coming", "last", "over"}
  BY HandTurns DEF captureRange, PausedSample, emitRelative, emitAbsolute
<1>2. CASE captureRange(t)
  BY <1>1, <1>2, Captured DEF TypeOK, captureRange, Sample, pane, published, baseline, range
<1>3. CASE PausedSample(t)
  BY <1>1, <1>3 DEF TypeOK, PausedSample, Sample, pane, published, capture, range
<1>4. CASE emitRelative(t)
  <2>1. mainq' \in Seq(Blocks)
    BY <1>4, RelativePosts, Posted DEF TypeOK
  <2>2. prevAz' \in Azimuth /\ hasPrev' \in BOOLEAN
    BY <1>1, <1>4 DEF emitRelative
  <2> QED
    BY <1>1, <1>4, <2>1, <2>2 DEF TypeOK, emitRelative, Sample, pane, published, capture, range
<1>5. CASE emitAbsolute(t)
  <2>1. mainq' \in Seq(Blocks)
    BY <1>5, AbsolutePosts, Posted
  <2> QED
    BY <1>1, <1>5, <2>1
    DEF TypeOK, emitAbsolute, Sample, pane, published, motion, baseline, capture, range
<1> QED BY <1>2, <1>3, <1>4, <1>5

-----------------------------------------------------------------------------
(* The sweep.                                                               *)

LEMMA CaptureStep == ASSUME TypeOK, CaptureInv, RangeInv, Next PROVE CaptureInv' /\ RangeInv'
<1>1. CASE User \/ OnChange \/ RunBlock
  <2>1. UNCHANGED <<capturing, capture, range, hand>>
    BY <1>1
    DEF User, OnChange, RunBlock, Press, Release, Drag, Toggle, TapCancel, TapFinish, Disappear,
        motion
  <2> QED BY <2>1 DEF CaptureInv, RangeInv, capture, range
<1>2. CASE Pause \/ Resume \/ SetMode \/ CancelCalibration
  BY <1>2
  DEF CaptureInv, RangeInv, Pause, Resume, SetMode, CancelCalibration, capture, range
<1>3. CASE BeginCalibration
  BY <1>3 DEF CaptureInv, RangeInv, BeginCalibration, range
<1>4. CASE FinishCalibration
  BY <1>4, Calibrated DEF CaptureInv, FinishCalibration, capture
<1>5. ASSUME NEW t \in -Pace..Pace, Even(t), captureRange(t) PROVE CaptureInv' /\ RangeInv'
  BY <1>5, Captured DEF RangeInv, captureRange, range
<1>6. ASSUME NEW t \in -Pace..Pace,
             PausedSample(t) \/ emitRelative(t) \/ emitAbsolute(t)
      PROVE  CaptureInv' /\ RangeInv'
  <2>1. ~capturing' /\ UNCHANGED <<capture, range>>
    BY <1>6 DEF PausedSample, emitRelative, emitAbsolute, motion
  <2> QED BY <2>1 DEF CaptureInv, RangeInv, capture, range
<1> QED BY <1>1, <1>2, <1>3, <1>4, <1>5, <1>6 DEF Next, Operate, Moves, Even

-----------------------------------------------------------------------------
(* The overlay and the moves.                                               *)

(* What joins the main queue is no move that will find the overlay up: a    *)
(* move is posted only when nothing is captured.                            *)
LEMMA PostKeepsHeld ==
  ASSUME TypeOK, HeldInv, NEW b \in Blocks, mainq' = Append(mainq, b), UNCHANGED calibrating,
         IsMove(b) => ~capturing,
         b.do = "calibrating" => capturing',
         capturing /\ ~Ends(b) => capturing'
  PROVE  HeldInv'
<1>1. PICK n \in Nat : n = Len(mainq)
  BY DEF TypeOK
<1>2. /\ Len(mainq') = n + 1 /\ mainq'[n + 1] = b
      /\ \A i \in 1..n : mainq'[i] = mainq[i]
      /\ \A i \in 1..n + 1 : ShownAt(i)' => ShownAt(i)
      /\ ShownAt(n + 2)' => b.do = "calibrating" \/ (ShownAt(n + 1) /\ ~Ends(b))
  BY <1>1, ShownBehind
<1>3. /\ \A i \in 1..n : ShownAt(i) => ~IsMove(mainq[i])
      /\ ShownAt(n + 1) => capturing
  BY <1>1 DEF HeldInv
<1>4. ASSUME NEW i \in 1..n + 1, ShownAt(i)' PROVE ~IsMove(mainq'[i])
  <2>1. ShownAt(i)
    BY <1>2, <1>4
  <2>2. CASE i = n + 1
    BY <1>2, <1>3, <2>1, <2>2
  <2>3. CASE i # n + 1
    <3>1. i \in 1..n
      BY <1>1, <2>3
    <3> QED BY <1>2, <1>3, <2>1, <3>1
  <2> QED BY <2>2, <2>3
<1>5. ShownAt(n + 2)' => capturing'
  BY <1>2, <1>3
<1>6. ASSUME NEW i \in 1..Len(mainq') + 1, ShownAt(i)'
      PROVE  IF i <= Len(mainq') THEN ~IsMove(mainq'[i]) ELSE capturing'
  <2>1. CASE i <= Len(mainq')
    BY <1>1, <1>2, <1>4, <1>6, <2>1
  <2>2. CASE ~(i <= Len(mainq'))
    <3>1. i = n + 2
      BY <1>1, <1>2, <2>2
    <3> QED BY <1>5, <1>6, <2>2, <3>1
  <2> QED BY <2>1, <2>2
<1> QED BY <1>6 DEF HeldInv

LEMMA BlockKeepsHeld == ASSUME TypeOK, HeldInv, RunBlock PROVE HeldInv'
<1>1. PICK n \in Nat : n = Len(mainq')
  BY BlockTypes DEF TypeOK
<1>2. /\ Len(mainq) = n + 1
      /\ \A i \in 1..n : mainq'[i] = mainq[i + 1]
      /\ \A i \in 1..n + 1 : ShownAt(i)' => ShownAt(i + 1)
  BY <1>1, ShownAfter
<1>3. capturing' = capturing
  BY DEF RunBlock, motion
<1>4. ASSUME NEW i \in 1..n + 1, ShownAt(i)'
      PROVE  IF i <= n THEN ~IsMove(mainq'[i]) ELSE capturing'
  <2>1. i + 1 \in 1..n + 1 + 1 /\ (i <= n => i \in 1..n) /\ (i <= n <=> i + 1 <= n + 1)
    BY <1>1
  <2>2. ShownAt(i + 1)
    BY <1>2, <1>4
  <2>3. IF i + 1 <= n + 1 THEN ~IsMove(mainq[i + 1]) ELSE capturing
    BY <1>2, <2>1, <2>2 DEF HeldInv
  <2> QED BY <1>2, <1>3, <2>1, <2>3
<1> QED BY <1>1, <1>4 DEF HeldInv

LEMMA StillKeepsHeld ==
  ASSUME HeldInv, UNCHANGED <<mainq, calibrating, capturing>>
  PROVE  HeldInv'
BY DEF HeldInv, ShownAt

LEMMA HeldStep == ASSUME TypeOK, HeldInv, Next PROVE HeldInv'
<1>1. CASE User \/ OnChange \/ Pause \/ Resume
  <2>1. UNCHANGED <<mainq, calibrating, capturing>>
    BY <1>1
    DEF User, OnChange, Press, Release, Drag, Toggle, TapCancel, TapFinish, Disappear, Pause,
        Resume, published, motion
  <2> QED BY <2>1, StillKeepsHeld
<1>2. CASE RunBlock
  BY <1>2, BlockKeepsHeld
<1>3. ASSUME NEW w \in {"relative", "calibrating", "calibrated", "cancelled"}, Post(w),
             UNCHANGED calibrating,
             w = "calibrating" => capturing',
             w = "relative" => capturing' = capturing
      PROVE  HeldInv'
  <2>1. Block(w) \in Blocks /\ Block(w).do = w /\ mainq' = Append(mainq, Block(w))
    BY <1>3, Simple DEF Post, Block
  <2>2. ~IsMove(Block(w)) /\ (capturing /\ ~Ends(Block(w)) => capturing')
    BY <1>3, <2>1 DEF IsMove, Ends
  <2> QED BY <1>3, <2>1, <2>2, PostKeepsHeld
<1>4. CASE SetMode \/ BeginCalibration \/ FinishCalibration \/ CancelCalibration
  <2>1. PICK w \in {"relative", "calibrating", "calibrated", "cancelled"} :
          /\ Post(w) /\ UNCHANGED calibrating
          /\ w = "calibrating" => capturing'
          /\ w = "relative" => capturing' = capturing
    BY <1>4 DEF SetMode, BeginCalibration, FinishCalibration, CancelCalibration, published
  <2> QED BY <1>3, <2>1
<1>5. ASSUME NEW t \in -Pace..Pace, Even(t),
             captureRange(t) \/ PausedSample(t) \/ emitRelative(t) \/ emitAbsolute(t)
      PROVE  HeldInv'
  <2>1. UNCHANGED <<calibrating, capturing>>
    BY <1>5 DEF captureRange, PausedSample, emitRelative, emitAbsolute, Sample, published, motion
  <2>2. CASE UNCHANGED mainq
    BY <2>1, <2>2, StillKeepsHeld
  <2>3. CASE mainq' # mainq
    <3>1. ~capturing /\ \E b \in Blocks : IsMove(b) /\ mainq' = Append(mainq, b)
      <4>1. emitRelative(t) \/ emitAbsolute(t)
        BY <1>5, <2>3 DEF captureRange, PausedSample
      <4> QED BY <1>5, <2>3, <4>1, RelativePosts, AbsolutePosts DEF emitRelative, emitAbsolute
    <3>2. PICK b \in Blocks : IsMove(b) /\ mainq' = Append(mainq, b)
      BY <3>1
    <3>3. b.do # "calibrating"
      BY <3>2 DEF IsMove
    <3> QED BY <2>1, <3>1, <3>2, <3>3, PostKeepsHeld
  <2> QED BY <2>2, <2>3
<1> QED BY <1>1, <1>2, <1>4, <1>5 DEF Next, Operate, Moves, Even

-----------------------------------------------------------------------------
(* Where the two queues lead.                                               *)

(* Whether a switch that is now at start is on when the queue s is through, *)
(* if the members of on turn it on and those of off turn it off.            *)
Up(s, start, on, off) ==
  \/ start /\ \A i \in 1..Len(s) : s[i] \notin off
  \/ \E j \in 1..Len(s) : s[j] \in on /\ \A i \in j + 1..Len(s) : s[i] \notin off

Has(s, A) == \E i \in 1..Len(s) : s[i] \in A

AtMostOne(s, A) ==
  \A i \in 1..Len(s), j \in 1..Len(s) : s[i] \in A /\ s[j] \in A => i = j

BlocksOf(names) == {b \in Blocks : b.do \in names}

(* When the main queue is through: the overlay is up, and the published     *)
(* mode is absolute.                                                        *)
Shown    == Up(mainq, calibrating, BlocksOf({"calibrating"}), BlocksOf({"calibrated", "cancelled"}))
Absolute == Up(mainq, mode = "absolute", BlocksOf({"calibrated"}), BlocksOf({"relative"}))

(* When both queues are through.                                            *)
Captures   == Up(ops, capturing, {"begin"}, {"finish", "cancel"})
ToAbsolute == Up(ops, Absolute, {"finish"}, {"relative"})

(* A calibration will be cancelled without the relative mode being set.     *)
Cancelling == Up(ops, FALSE, {"cancel"}, {"relative"})

(* The overlay follows the capture, and what the switch shows is what the   *)
(* queues lead to.                                                          *)
ViewInv ==
  /\ capturing <=> Shown
  /\ calibrate = handled => (calibrate <=> Captures \/ ToAbsolute)

(* The one end of a calibration that is on its way is under the overlay,    *)
(* and nothing else is under way.                                           *)
FinishInv ==
  /\ AtMostOne(ops, {"finish"}) /\ AtMostOne(mainq, BlocksOf({"calibrated"}))
  /\ ~(Has(ops, {"finish"}) /\ Has(mainq, BlocksOf({"calibrated"})))
  /\ Has(ops, {"finish"}) \/ Has(mainq, BlocksOf({"calibrated"})) =>
       /\ calibrating /\ calibrate /\ handled
       /\ ~Has(ops, {"begin", "cancel", "relative"})
       /\ ~Has(mainq, BlocksOf({"calibrating", "cancelled", "relative"}))

(* The switch has been turned off, and onChange has not run yet.            *)
TurnedOff == handled /\ ~calibrate

(* The baseline is of the last sample, unless no sample will use it before  *)
(* the relative mode is set anew, or the end of a calibration is on its way.*)
BaselineInv ==
  /\ Cancelling => TurnedOff
  /\ mode = "absolute" /\ hasPrev => ~Has(mainq, BlocksOf({"relative"}))
  /\ hasPrev /\ prevAz # hand =>
       \/ capturing \/ TurnedOff
       \/ Has(ops, {"relative"}) \/ Has(mainq, BlocksOf({"calibrated"}))
       \/ mode = "absolute" /\ ~Has(mainq, BlocksOf({"relative"}))

LEMMA UpAppend ==
  ASSUME NEW S, NEW s \in Seq(S), NEW x \in S, NEW start \in BOOLEAN, NEW on, NEW off
  PROVE  Up(Append(s, x), start, on, off) <=> x \in on \/ (Up(s, start, on, off) /\ x \notin off)
<1> DEFINE n == Len(s)
           v == Append(s, x)
<1>1. /\ n \in Nat /\ Len(v) = n + 1 /\ v[n + 1] = x
      /\ \A i \in 1..n : v[i] = s[i]
  OBVIOUS
<1> HIDE DEF n, v
<1>2. ASSUME x \in on  PROVE Up(v, start, on, off)
  <2>1. n + 1 \in 1..Len(v) /\ v[n + 1] \in on /\ \A i \in (n + 1) + 1..Len(v) : v[i] \notin off
    BY <1>1, <1>2
  <2> QED  BY <2>1 DEF Up
<1>3. ASSUME Up(s, start, on, off), x \notin off  PROVE Up(v, start, on, off)
  <2>1. CASE start /\ \A i \in 1..n : s[i] \notin off
    <3>1. \A i \in 1..Len(v) : v[i] \notin off
      BY <1>1, <1>3, <2>1
    <3> QED  BY <2>1, <3>1 DEF Up
  <2>2. ASSUME NEW j \in 1..n, s[j] \in on, \A i \in j + 1..n : s[i] \notin off
        PROVE  Up(v, start, on, off)
    <3>1. j \in 1..Len(v) /\ v[j] \in on /\ \A i \in j + 1..Len(v) : v[i] \notin off
      BY <1>1, <1>3, <2>2
    <3> QED  BY <3>1 DEF Up
  <2> QED  BY <1>3, <2>1, <2>2 DEF Up, n
<1>4. ASSUME Up(v, start, on, off), x \notin on  PROVE Up(s, start, on, off) /\ x \notin off
  <2>1. CASE start /\ \A i \in 1..Len(v) : v[i] \notin off
    <3>1. x \notin off /\ \A i \in 1..n : s[i] \notin off
      BY <1>1, <2>1
    <3> QED  BY <2>1, <3>1 DEF Up, n
  <2>2. ASSUME NEW j \in 1..Len(v), v[j] \in on, \A i \in j + 1..Len(v) : v[i] \notin off
        PROVE  Up(s, start, on, off) /\ x \notin off
    <3>1. /\ j \in 1..n /\ s[j] \in on /\ x \notin off
          /\ \A i \in j + 1..n : s[i] \notin off
      BY <1>1, <1>4, <2>2
    <3> QED  BY <3>1 DEF Up, n
  <2> QED  BY <1>4, <2>1, <2>2 DEF Up
<1> QED  BY <1>2, <1>3, <1>4 DEF v

LEMMA UpTail ==
  ASSUME NEW S, NEW s \in Seq(S), s # <<>>, NEW start \in BOOLEAN, NEW on, NEW off
  PROVE  Up(s, start, on, off)
           <=> Up(Tail(s), Head(s) \in on \/ (start /\ Head(s) \notin off), on, off)
<1> DEFINE n == Len(s)
           v == Tail(s)
<1>1. /\ n \in Nat \ {0} /\ Len(v) = n - 1 /\ Head(s) = s[1]
      /\ \A i \in 1..n - 1 : v[i] = s[i + 1]
      /\ \A i \in 2..n : i - 1 \in 1..n - 1 /\ v[i - 1] = s[i]
  OBVIOUS
<1> HIDE DEF n, v
<1>2. ASSUME Up(s, start, on, off)
      PROVE  Up(v, s[1] \in on \/ (start /\ s[1] \notin off), on, off)
  <2>1. CASE start /\ \A i \in 1..n : s[i] \notin off
    <3>1. s[1] \notin off /\ \A i \in 1..Len(v) : v[i] \notin off
      BY <1>1, <2>1
    <3> QED  BY <2>1, <3>1 DEF Up
  <2>2. ASSUME NEW j \in 1..n, s[j] \in on, \A i \in j + 1..n : s[i] \notin off
        PROVE  Up(v, s[1] \in on \/ (start /\ s[1] \notin off), on, off)
    <3>1. CASE j = 1
      <4>1. ASSUME NEW i \in 1..Len(v)  PROVE v[i] \notin off
        <5>1. i + 1 \in j + 1..n /\ v[i] = s[i + 1]
          BY <1>1, <3>1
        <5> QED  BY <2>2, <5>1
      <4> QED  BY <2>2, <3>1, <4>1 DEF Up
    <3>2. CASE j # 1
      <4>1. j - 1 \in 1..Len(v) /\ v[j - 1] \in on
        BY <1>1, <2>2, <3>2
      <4>2. ASSUME NEW i \in (j - 1) + 1..Len(v)  PROVE v[i] \notin off
        <5>1. i + 1 \in j + 1..n /\ v[i] = s[i + 1]
          BY <1>1, <3>2
        <5> QED  BY <2>2, <5>1
      <4> QED  BY <4>1, <4>2 DEF Up
    <3> QED  BY <3>1, <3>2
  <2> QED  BY <1>2, <2>1, <2>2 DEF Up, n
<1>3. ASSUME Up(v, s[1] \in on \/ (start /\ s[1] \notin off), on, off)
      PROVE  Up(s, start, on, off)
  <2>1. CASE /\ s[1] \in on \/ (start /\ s[1] \notin off)
             /\ \A i \in 1..Len(v) : v[i] \notin off
    <3>0. ASSUME NEW i \in 1 + 1..n  PROVE s[i] \notin off
      <4>1. i - 1 \in 1..Len(v) /\ v[i - 1] = s[i]
        BY <1>1
      <4> QED  BY <2>1, <4>1
    <3>1. 1 \in 1..n /\ \A i \in 1 + 1..n : s[i] \notin off
      BY <1>1, <3>0
    <3>2. CASE s[1] \in on
      BY <3>1, <3>2 DEF Up, n
    <3>3. CASE start /\ s[1] \notin off
      <4>1. \A i \in 1..n : s[i] \notin off
        BY <1>1, <3>1, <3>3
      <4> QED  BY <3>3, <4>1 DEF Up, n
    <3> QED  BY <2>1, <3>2, <3>3
  <2>2. ASSUME NEW j \in 1..Len(v), v[j] \in on, \A i \in j + 1..Len(v) : v[i] \notin off
        PROVE  Up(s, start, on, off)
    <3>1. j + 1 \in 1..n /\ s[j + 1] \in on
      BY <1>1, <2>2
    <3>2. ASSUME NEW i \in (j + 1) + 1..n  PROVE s[i] \notin off
      <4>1. i - 1 \in j + 1..Len(v) /\ v[i - 1] = s[i]
        BY <1>1
      <4> QED  BY <2>2, <4>1
    <3> QED  BY <3>1, <3>2 DEF Up, n
  <2> QED  BY <1>3, <2>1, <2>2 DEF Up
<1> QED  BY <1>1, <1>2, <1>3 DEF v

LEMMA HasAppend ==
  ASSUME NEW S, NEW s \in Seq(S), NEW x \in S, NEW A
  PROVE  /\ Has(Append(s, x), A) <=> Has(s, A) \/ x \in A
         /\ AtMostOne(s, A) /\ (x \in A => ~Has(s, A)) => AtMostOne(Append(s, x), A)
<1> DEFINE n == Len(s)
           v == Append(s, x)
<1>1. /\ n \in Nat /\ Len(v) = n + 1 /\ v[n + 1] = x
      /\ \A i \in 1..n : v[i] = s[i]
  OBVIOUS
<1> HIDE DEF n, v
<1>2. Has(v, A) <=> Has(s, A) \/ x \in A
  <2>1. ASSUME Has(v, A), x \notin A  PROVE Has(s, A)
    BY <1>1, <2>1 DEF Has, n
  <2>2. ASSUME Has(s, A)  PROVE Has(v, A)
    BY <1>1, <2>2 DEF Has, n
  <2>3. ASSUME x \in A  PROVE Has(v, A)
    <3>1. n + 1 \in 1..Len(v)
      BY <1>1
    <3> QED  BY <1>1, <2>3, <3>1 DEF Has
  <2> QED  BY <2>1, <2>2, <2>3
<1>3. ASSUME AtMostOne(s, A), x \in A => ~Has(s, A)  PROVE AtMostOne(v, A)
  <2>1. SUFFICES ASSUME NEW i \in 1..n + 1, NEW j \in 1..n + 1, v[i] \in A, v[j] \in A
                 PROVE  i = j
    BY <1>1 DEF AtMostOne
  <2>2. CASE i \in 1..n /\ j \in 1..n
    BY <1>1, <1>3, <2>1, <2>2 DEF AtMostOne, n
  <2>3. CASE i = n + 1 \/ j = n + 1
    BY <1>1, <1>3, <2>1, <2>3 DEF Has, n
  <2> QED  BY <1>1, <2>2, <2>3
<1> QED  BY <1>2, <1>3 DEF v

LEMMA HasTail ==
  ASSUME NEW S, NEW s \in Seq(S), s # <<>>, NEW A
  PROVE  /\ Has(s, A) <=> Head(s) \in A \/ Has(Tail(s), A)
         /\ AtMostOne(s, A) => AtMostOne(Tail(s), A) /\ (Head(s) \in A => ~Has(Tail(s), A))
<1> DEFINE n == Len(s)
           v == Tail(s)
<1>1. /\ n \in Nat \ {0} /\ Len(v) = n - 1 /\ Head(s) = s[1] /\ 1 \in 1..n
      /\ \A i \in 1..n - 1 : v[i] = s[i + 1] /\ i + 1 \in 1..n
      /\ \A i \in 2..n : i - 1 \in 1..n - 1 /\ v[i - 1] = s[i]
  OBVIOUS
<1> HIDE DEF n, v
<1>2. Has(s, A) <=> s[1] \in A \/ Has(v, A)
  <2>1. ASSUME Has(v, A)  PROVE Has(s, A)
    BY <1>1, <2>1 DEF Has, n
  <2>2. ASSUME Has(s, A), s[1] \notin A  PROVE Has(v, A)
    <3>1. PICK i \in 1..n : s[i] \in A
      BY <2>2 DEF Has, n
    <3>2. i \in 2..n
      BY <1>1, <2>2, <3>1
    <3> QED  BY <1>1, <3>1, <3>2 DEF Has
  <2>3. s[1] \in A => Has(s, A)
    BY <1>1 DEF Has, n
  <2> QED  BY <2>1, <2>2, <2>3
<1>3. ASSUME AtMostOne(s, A)  PROVE AtMostOne(v, A) /\ (s[1] \in A => ~Has(v, A))
  BY <1>1, <1>3 DEF AtMostOne, Has, n
<1> QED  BY <1>1, <1>2, <1>3 DEF v

(* What the steps of the queues do to where these lead.                     *)

LEMMA OpQueued ==
  ASSUME TypeOK, NEW o \in Operation, ops' = Append(ops, o), UNCHANGED <<mainq, mode, capturing>>
  PROVE  /\ Captures' <=> o = "begin" \/ (Captures /\ o \notin {"finish", "cancel"})
         /\ ToAbsolute' <=> o = "finish" \/ (ToAbsolute /\ o # "relative")
         /\ Cancelling' <=> o = "cancel" \/ (Cancelling /\ o # "relative")
         /\ \A A : Has(ops', A) <=> Has(ops, A) \/ o \in A
         /\ AtMostOne(ops, {"finish"}) /\ (o = "finish" => ~Has(ops, {"finish"}))
              => AtMostOne(ops', {"finish"})
<1>1. ops \in Seq(Operation) /\ capturing \in BOOLEAN /\ Absolute \in BOOLEAN /\ Absolute' = Absolute
  BY DEF TypeOK, Absolute, Up
<1>2. Captures' <=> o = "begin" \/ (Captures /\ o \notin {"finish", "cancel"})
  BY <1>1, UpAppend DEF Captures
<1>3. ToAbsolute' <=> o = "finish" \/ (ToAbsolute /\ o # "relative")
  BY <1>1, UpAppend DEF ToAbsolute
<1>4. Cancelling' <=> o = "cancel" \/ (Cancelling /\ o # "relative")
  <2>1. PICK no \in BOOLEAN : no = FALSE
    OBVIOUS
  <2>2. Up(Append(ops, o), no, {"cancel"}, {"relative"})
          <=> o \in {"cancel"} \/ (Up(ops, no, {"cancel"}, {"relative"}) /\ o \notin {"relative"})
    BY <1>1, UpAppend
  <2> QED  BY <2>1, <2>2 DEF Cancelling
<1> QED  BY <1>1, <1>2, <1>3, <1>4, HasAppend

LEMMA OpTaken ==
  ASSUME TypeOK, NEW o, Dequeue(o)
  PROVE  /\ o \in Operation /\ ops' \in Seq(Operation)
         /\ Captures <=> Up(ops', o = "begin" \/ (capturing /\ o \notin {"finish", "cancel"}),
                            {"begin"}, {"finish", "cancel"})
         /\ ToAbsolute <=> Up(ops', o = "finish" \/ (Absolute /\ o # "relative"),
                              {"finish"}, {"relative"})
         /\ Cancelling <=> Up(ops', o = "cancel", {"cancel"}, {"relative"})
         /\ \A A : Has(ops, A) <=> o \in A \/ Has(ops', A)
         /\ AtMostOne(ops, {"finish"}) =>
              AtMostOne(ops', {"finish"}) /\ (o = "finish" => ~Has(ops', {"finish"}))
<1>1. /\ ops \in Seq(Operation) /\ ops # <<>> /\ ops' = Tail(ops) /\ Head(ops) = o
      /\ capturing \in BOOLEAN /\ Absolute \in BOOLEAN
  BY DEF TypeOK, Absolute, Up, Dequeue
<1>2. o \in Operation /\ ops' \in Seq(Operation)
  BY <1>1
<1>3. Captures <=> Up(ops', o = "begin" \/ (capturing /\ o \notin {"finish", "cancel"}),
                      {"begin"}, {"finish", "cancel"})
  <2>1. Captures <=> Up(ops', o \in {"begin"} \/ (capturing /\ o \notin {"finish", "cancel"}),
                        {"begin"}, {"finish", "cancel"})
    BY <1>1, UpTail DEF Captures
  <2>2. (o \in {"begin"} \/ (capturing /\ o \notin {"finish", "cancel"}))
          = (o = "begin" \/ (capturing /\ o \notin {"finish", "cancel"}))
    OBVIOUS
  <2> QED  BY <2>1, <2>2
<1>4. ToAbsolute <=> Up(ops', o = "finish" \/ (Absolute /\ o # "relative"), {"finish"}, {"relative"})
  <2>1. ToAbsolute <=> Up(ops', o \in {"finish"} \/ (Absolute /\ o \notin {"relative"}),
                          {"finish"}, {"relative"})
    BY <1>1, UpTail DEF ToAbsolute
  <2>2. (o \in {"finish"} \/ (Absolute /\ o \notin {"relative"}))
          = (o = "finish" \/ (Absolute /\ o # "relative"))
    OBVIOUS
  <2> QED  BY <2>1, <2>2
<1>5. Cancelling <=> Up(ops', o = "cancel", {"cancel"}, {"relative"})
  <2>1. Cancelling <=> Up(ops', o \in {"cancel"} \/ (FALSE /\ o \notin {"relative"}),
                          {"cancel"}, {"relative"})
    BY <1>1, UpTail DEF Cancelling
  <2>2. (o \in {"cancel"} \/ (FALSE /\ o \notin {"relative"})) = (o = "cancel")
    OBVIOUS
  <2> QED  BY <2>1, <2>2
<1>6. \A A : Has(ops, A) <=> o \in A \/ Has(ops', A)
  BY <1>1, HasTail
<1>7. AtMostOne(ops, {"finish"}) =>
        AtMostOne(ops', {"finish"}) /\ (o = "finish" => ~Has(ops', {"finish"}))
  BY <1>1, HasTail
<1> QED  BY <1>2, <1>3, <1>4, <1>5, <1>6, <1>7

LEMMA BlockPosted ==
  ASSUME TypeOK, NEW b \in Blocks, mainq' = Append(mainq, b), UNCHANGED <<calibrating, mode>>
  PROVE  /\ Shown' <=> b.do = "calibrating" \/ (Shown /\ b.do \notin {"calibrated", "cancelled"})
         /\ Absolute' <=> b.do = "calibrated" \/ (Absolute /\ b.do # "relative")
         /\ \A names : Has(mainq', BlocksOf(names)) <=> Has(mainq, BlocksOf(names)) \/ b.do \in names
         /\ /\ AtMostOne(mainq, BlocksOf({"calibrated"}))
            /\ b.do = "calibrated" => ~Has(mainq, BlocksOf({"calibrated"}))
            => AtMostOne(mainq', BlocksOf({"calibrated"}))
<1>1. mainq \in Seq(Blocks) /\ calibrating \in BOOLEAN /\ (mode = "absolute") \in BOOLEAN
  BY DEF TypeOK
<1>2. \A names : b \in BlocksOf(names) <=> b.do \in names
  BY DEF BlocksOf
<1>3. Shown' <=> b.do = "calibrating" \/ (Shown /\ b.do \notin {"calibrated", "cancelled"})
  <2>1. Shown' <=> \/ b \in BlocksOf({"calibrating"})
                   \/ Shown /\ b \notin BlocksOf({"calibrated", "cancelled"})
    BY <1>1, UpAppend DEF Shown
  <2> QED  BY <1>2, <2>1
<1>4. Absolute' <=> b.do = "calibrated" \/ (Absolute /\ b.do # "relative")
  <2>1. Absolute' <=> \/ b \in BlocksOf({"calibrated"})
                      \/ Absolute /\ b \notin BlocksOf({"relative"})
    <3>1. PICK now \in BOOLEAN : now = (mode = "absolute")
      BY <1>1
    <3>2. Up(Append(mainq, b), now, BlocksOf({"calibrated"}), BlocksOf({"relative"}))
            <=> \/ b \in BlocksOf({"calibrated"})
                \/ /\ Up(mainq, now, BlocksOf({"calibrated"}), BlocksOf({"relative"}))
                   /\ b \notin BlocksOf({"relative"})
      BY <1>1, UpAppend
    <3> QED  BY <3>1, <3>2 DEF Absolute
  <2> QED  BY <1>2, <2>1
<1>5. \A names : Has(mainq', BlocksOf(names)) <=> Has(mainq, BlocksOf(names)) \/ b.do \in names
  BY <1>1, <1>2, HasAppend
<1>6. /\ AtMostOne(mainq, BlocksOf({"calibrated"}))
      /\ b.do = "calibrated" => ~Has(mainq, BlocksOf({"calibrated"}))
      => AtMostOne(mainq', BlocksOf({"calibrated"}))
  BY <1>1, <1>2, HasAppend
<1> QED  BY <1>3, <1>4, <1>5, <1>6

LEMMA BlockRun ==
  ASSUME TypeOK, RunBlock, NEW b \in Blocks, b = Head(mainq)
  PROVE  /\ Shown' <=> Shown
         /\ Absolute' <=> Absolute
         /\ calibrating' <=> b.do = "calibrating" \/ (calibrating /\ b.do \notin {"calibrated", "cancelled"})
         /\ mode' = "absolute" <=> b.do = "calibrated" \/ (mode = "absolute" /\ b.do # "relative")
         /\ \A names : Has(mainq, BlocksOf(names)) <=> b.do \in names \/ Has(mainq', BlocksOf(names))
         /\ AtMostOne(mainq, BlocksOf({"calibrated"})) =>
              /\ AtMostOne(mainq', BlocksOf({"calibrated"}))
              /\ b.do = "calibrated" => ~Has(mainq', BlocksOf({"calibrated"}))
<1>1. /\ mainq \in Seq(Blocks) /\ mainq # <<>> /\ mainq' = Tail(mainq)
      /\ calibrating \in BOOLEAN /\ (mode = "absolute") \in BOOLEAN
  BY DEF TypeOK, RunBlock
<1>2. \A names : b \in BlocksOf(names) <=> b.do \in names
  BY DEF BlocksOf
<1>3. calibrating' = (b.do = "calibrating" \/ (calibrating /\ b.do \notin {"calibrated", "cancelled"}))
  BY <1>1 DEF RunBlock
<1>4. (mode' = "absolute") = (b.do = "calibrated" \/ (mode = "absolute" /\ b.do # "relative"))
  BY <1>1 DEF RunBlock
<1>5. Shown' <=> Shown
  <2>1. Shown <=> Up(mainq', b \in BlocksOf({"calibrating"})
                             \/ (calibrating /\ b \notin BlocksOf({"calibrated", "cancelled"})),
                     BlocksOf({"calibrating"}), BlocksOf({"calibrated", "cancelled"}))
    BY <1>1, UpTail DEF Shown
  <2>2. calibrating' = (b \in BlocksOf({"calibrating"})
                        \/ (calibrating /\ b \notin BlocksOf({"calibrated", "cancelled"})))
    BY <1>2, <1>3
  <2> QED  BY <2>1, <2>2 DEF Shown
<1>6. Absolute' <=> Absolute
  <2>1. Absolute <=> Up(mainq', b \in BlocksOf({"calibrated"})
                                \/ (mode = "absolute" /\ b \notin BlocksOf({"relative"})),
                        BlocksOf({"calibrated"}), BlocksOf({"relative"}))
    BY <1>1, UpTail DEF Absolute
  <2>2. (mode' = "absolute") = (b \in BlocksOf({"calibrated"})
                                \/ (mode = "absolute" /\ b \notin BlocksOf({"relative"})))
    BY <1>2, <1>4
  <2> QED  BY <2>1, <2>2 DEF Absolute
<1>7. \A names : Has(mainq, BlocksOf(names)) <=> b.do \in names \/ Has(mainq', BlocksOf(names))
  BY <1>1, <1>2, HasTail
<1>8. AtMostOne(mainq, BlocksOf({"calibrated"})) =>
        /\ AtMostOne(mainq', BlocksOf({"calibrated"}))
        /\ b.do = "calibrated" => ~Has(mainq', BlocksOf({"calibrated"}))
  BY <1>1, <1>2, HasTail
<1> QED  BY <1>3, <1>4, <1>5, <1>6, <1>7, <1>8

-----------------------------------------------------------------------------
(* The switch, the overlay, the mode and the baseline.                      *)

ViewsInv == ViewInv /\ FinishInv /\ BaselineInv

(* Nothing that counts is on the queues.                                    *)
LEMMA Quiet ==
  ASSUME TypeOK, CaughtUp
  PROVE  /\ Shown <=> calibrating
         /\ Absolute <=> mode = "absolute"
         /\ Captures <=> capturing
         /\ ToAbsolute <=> mode = "absolute"
         /\ \A A : ~Has(ops, A)
         /\ \A names : "move" \notin names /\ "moveAbs" \notin names => ~Has(mainq, BlocksOf(names))
<1>1. /\ ops = <<>> /\ \A i \in 1..Len(mainq) : mainq[i].do \in {"move", "moveAbs"}
      /\ 1..Len(ops) = {}
  BY DEF TypeOK, CaughtUp
<1>2. \A names : "move" \notin names /\ "moveAbs" \notin names => ~Has(mainq, BlocksOf(names))
  BY <1>1 DEF Has, BlocksOf
<1>3. (Shown <=> calibrating) /\ (Absolute <=> mode = "absolute")
  BY <1>1 DEF Shown, Absolute, Up, BlocksOf
<1>4. (Captures <=> capturing) /\ (ToAbsolute <=> Absolute)
  BY <1>1 DEF Captures, ToAbsolute, Up
<1>5. \A A : ~Has(ops, A)
  BY <1>1 DEF Has
<1> QED  BY <1>2, <1>3, <1>4, <1>5

(* The user is not concerned with what only pauses or resumes.              *)
LEMMA PauseViews ==
  ASSUME TypeOK, ViewsInv, NEW o \in {"pause", "resume"}, ops' = Append(ops, o),
         UNCHANGED <<calibrate, handled, published, mainq, capturing, baseline, hand>>
  PROVE  ViewsInv'
<1>1. o \in Operation /\ UNCHANGED <<calibrating, mode, hasPrev, prevAz>>
  BY DEF Operation, published, baseline
<1>2. /\ Captures' <=> Captures
      /\ ToAbsolute' <=> ToAbsolute
      /\ Cancelling' <=> Cancelling
      /\ \A A : Has(ops', A) <=> Has(ops, A) \/ o \in A
      /\ AtMostOne(ops, {"finish"}) => AtMostOne(ops', {"finish"})
  BY <1>1, OpQueued
<1>3. Shown' <=> Shown
  BY <1>1 DEF Shown
<1>4. ViewInv'
  BY <1>2, <1>3 DEF ViewsInv, ViewInv
<1>5. FinishInv'
  BY <1>1, <1>2 DEF ViewsInv, FinishInv
<1>6. BaselineInv'
  BY <1>1, <1>2 DEF ViewsInv, BaselineInv, TurnedOff
<1> QED  BY <1>4, <1>5, <1>6 DEF ViewsInv

LEMMA ToggleViews == ASSUME TypeOK, ViewsInv, Toggle PROVE ViewsInv'
<1>1. /\ calibrate = handled /\ ~calibrating /\ calibrate' = ~calibrate
      /\ UNCHANGED <<handled, calibrating, mode, ops, mainq, capturing, hasPrev, prevAz, hand>>
  BY DEF Toggle, Touchable, published, motion, baseline
<1>2. UNCHANGED <<Shown, Captures, ToAbsolute, Cancelling>>
  BY <1>1 DEF Shown, Absolute, Captures, ToAbsolute, Cancelling
<1>3. ViewInv'
  BY <1>1, <1>2 DEF ViewsInv, ViewInv, TypeOK
<1>4. FinishInv'
  BY <1>1 DEF ViewsInv, FinishInv
<1>5. BaselineInv'
  BY <1>1, <1>2 DEF ViewsInv, BaselineInv, TurnedOff
<1> QED  BY <1>3, <1>4, <1>5 DEF ViewsInv

(* The overlay is tapped: the switch is on, and nothing else is under way.  *)
LEMMA TapViews == ASSUME TypeOK, ViewsInv, TapCancel \/ TapFinish PROVE ViewsInv'
<1>1. /\ CaughtUp /\ calibrating /\ calibrate = handled
      /\ UNCHANGED <<handled, calibrating, mode, mainq, capturing, hasPrev, prevAz, hand>>
  BY DEF TapCancel, TapFinish, Touchable, pane, published, motion, baseline
<1>2. capturing /\ Captures /\ calibrate /\ handled
  BY <1>1, Quiet DEF ViewsInv, ViewInv, TypeOK
<1>3. UNCHANGED <<Shown, Absolute>>
  BY <1>1 DEF Shown, Absolute
<1>4. /\ \A A : ~Has(ops, A)
      /\ ~Has(mainq, BlocksOf({"calibrated"})) /\ ~Has(mainq, BlocksOf({"relative"}))
      /\ ~Has(mainq, BlocksOf({"calibrating", "cancelled", "relative"}))
  BY <1>1, Quiet
<1>5. CASE TapCancel
  <2>1. ops' = Append(ops, "cancel") /\ "cancel" \in Operation /\ calibrate' = FALSE
    BY <1>5 DEF TapCancel, Enqueue, Operation, TypeOK
  <2>2. /\ \A A : Has(ops', A) <=> "cancel" \in A
        /\ AtMostOne(ops, {"finish"}) => AtMostOne(ops', {"finish"})
    BY <1>1, <1>4, <2>1, OpQueued
  <2>3. ViewInv'
    BY <1>1, <1>2, <1>3, <2>1 DEF ViewsInv, ViewInv
  <2>4. FinishInv'
    BY <1>1, <1>4, <2>2 DEF ViewsInv, FinishInv
  <2>5. BaselineInv'
    BY <1>1, <1>2, <1>4, <2>1 DEF ViewsInv, BaselineInv, TurnedOff
  <2> QED  BY <2>3, <2>4, <2>5 DEF ViewsInv
<1>6. CASE TapFinish
  <2>1. ops' = Append(ops, "finish") /\ "finish" \in Operation /\ calibrate' = calibrate
    BY <1>6 DEF TapFinish, Enqueue, Operation, TypeOK, pane
  <2>2. /\ ToAbsolute' /\ (Cancelling' <=> Cancelling)
        /\ \A A : Has(ops', A) <=> "finish" \in A
        /\ AtMostOne(ops, {"finish"}) => AtMostOne(ops', {"finish"})
    BY <1>1, <1>4, <2>1, OpQueued
  <2>3. ViewInv'
    BY <1>1, <1>2, <1>3, <2>1, <2>2 DEF ViewsInv, ViewInv
  <2>4. FinishInv'
    BY <1>1, <1>2, <1>4, <2>1, <2>2 DEF ViewsInv, FinishInv
  <2>5. BaselineInv'
    BY <1>1, <1>2, <1>4, <2>1, <2>2 DEF ViewsInv, BaselineInv, TurnedOff
  <2> QED  BY <2>3, <2>4, <2>5 DEF ViewsInv
<1> QED  BY <1>5, <1>6

(* What onChange puts on the queue is what the switch shows.                *)
LEMMA OnChangeViews == ASSUME TypeOK, ViewsInv, OnChange PROVE ViewsInv'
<1>1. /\ calibrate # handled /\ handled' = calibrate /\ calibrate \in BOOLEAN /\ handled \in BOOLEAN
      /\ UNCHANGED <<calibrate, calibrating, mode, mainq, capturing, hasPrev, prevAz, hand>>
      /\ Enqueue(IF calibrate THEN <<"begin">> ELSE <<"cancel", "relative">>)
  BY DEF OnChange, published, motion, baseline, TypeOK
<1>2. UNCHANGED <<Shown, Absolute>>
  BY <1>1 DEF Shown, Absolute
<1>3. /\ AtMostOne(ops, {"finish"}) /\ AtMostOne(mainq, BlocksOf({"calibrated"}))
      /\ ~Has(ops, {"finish"}) /\ ~Has(mainq, BlocksOf({"calibrated"}))
  BY <1>1 DEF ViewsInv, FinishInv
<1>4. ops \in Seq(Operation) /\ capturing \in BOOLEAN /\ Absolute \in BOOLEAN
  BY DEF TypeOK, Absolute, Up
<1>5. CASE calibrate
  <2>1. ops' = Append(ops, "begin") /\ "begin" \in Operation
    BY <1>1, <1>4, <1>5 DEF Enqueue, Operation
  <2>2. /\ Captures' /\ (Cancelling' <=> Cancelling)
        /\ \A A : Has(ops', A) <=> Has(ops, A) \/ "begin" \in A
        /\ AtMostOne(ops', {"finish"})
    BY <1>1, <1>3, <2>1, OpQueued
  <2>3. ViewInv'
    BY <1>1, <1>2, <1>5, <2>2 DEF ViewsInv, ViewInv
  <2>4. FinishInv'
    BY <1>1, <1>3, <2>2 DEF FinishInv
  <2>5. BaselineInv'
    BY <1>1, <1>5, <2>2 DEF ViewsInv, BaselineInv, TurnedOff
  <2> QED  BY <2>3, <2>4, <2>5 DEF ViewsInv
<1>6. CASE ~calibrate
  <2>1. PICK s : s = Append(ops, "cancel")
    OBVIOUS
  <2>2. /\ s \in Seq(Operation) /\ ops' = Append(s, "relative")
        /\ "cancel" \in Operation /\ "relative" \in Operation
    BY <1>1, <1>4, <1>6, <2>1 DEF Enqueue, Operation
  <2>3. ~Captures'
    <3>1. ~Up(s, capturing, {"begin"}, {"finish", "cancel"})
      BY <1>4, <2>1, <2>2, UpAppend
    <3>2. ~Up(ops', capturing, {"begin"}, {"finish", "cancel"})
      BY <1>4, <2>2, <3>1, UpAppend
    <3> QED  BY <1>1, <3>2 DEF Captures
  <2>4. ~ToAbsolute'
    <3>1. ~Up(ops', Absolute, {"finish"}, {"relative"})
      BY <1>4, <2>2, UpAppend
    <3> QED  BY <1>2, <3>1 DEF ToAbsolute
  <2>5. ~Cancelling'
    <3>1. PICK no \in BOOLEAN : no = FALSE
      OBVIOUS
    <3>2. ~Up(ops', no, {"cancel"}, {"relative"})
      BY <2>2, UpAppend
    <3> QED  BY <3>1, <3>2 DEF Cancelling
  <2>6. Has(ops', {"relative"}) /\ ~Has(ops', {"finish"}) /\ AtMostOne(ops', {"finish"})
    <3>1. ~Has(s, {"finish"}) /\ AtMostOne(s, {"finish"})
      BY <1>3, <1>4, <2>1, <2>2, HasAppend
    <3> QED  BY <2>2, <3>1, HasAppend
  <2>7. ViewInv'
    BY <1>1, <1>2, <1>6, <2>3, <2>4 DEF ViewsInv, ViewInv
  <2>8. FinishInv'
    BY <1>1, <1>3, <2>6 DEF FinishInv
  <2>9. BaselineInv'
    BY <1>1, <2>5, <2>6 DEF ViewsInv, BaselineInv
  <2> QED  BY <2>7, <2>8, <2>9 DEF ViewsInv
<1> QED  BY <1>5, <1>6

(* A block that runs does what was counted on.                              *)
LEMMA BlockViews == ASSUME TypeOK, ViewsInv, RunBlock PROVE ViewsInv'
<1>1. PICK b \in Blocks : b = Head(mainq)
  BY DEF TypeOK, RunBlock
<1>2. /\ UNCHANGED <<calibrate, handled, ops, capturing, hasPrev, prevAz, hand>>
      /\ (mode = "absolute") \in BOOLEAN
  BY DEF RunBlock, pane, motion, baseline
<1>3. /\ (Shown' <=> Shown) /\ (Absolute' <=> Absolute)
      /\ calibrating' <=> b.do = "calibrating" \/ (calibrating /\ b.do \notin {"calibrated", "cancelled"})
      /\ mode' = "absolute" <=> b.do = "calibrated" \/ (mode = "absolute" /\ b.do # "relative")
      /\ \A names : Has(mainq, BlocksOf(names)) <=> b.do \in names \/ Has(mainq', BlocksOf(names))
      /\ AtMostOne(mainq, BlocksOf({"calibrated"})) =>
           /\ AtMostOne(mainq', BlocksOf({"calibrated"}))
           /\ b.do = "calibrated" => ~Has(mainq', BlocksOf({"calibrated"}))
  BY <1>1, BlockRun
<1>4. /\ Captures' <=> Captures
      /\ ToAbsolute' <=> ToAbsolute
      /\ Cancelling' <=> Cancelling
  <2>1. Absolute' = Absolute
    BY <1>3 DEF Absolute, Up
  <2> QED  BY <1>2, <2>1 DEF Captures, ToAbsolute, Cancelling
<1>5. ViewInv'
  BY <1>2, <1>3, <1>4 DEF ViewsInv, ViewInv
<1>6. FinishInv'
  <2>1. /\ AtMostOne(ops', {"finish"}) /\ AtMostOne(mainq', BlocksOf({"calibrated"}))
        /\ ~(Has(ops', {"finish"}) /\ Has(mainq', BlocksOf({"calibrated"})))
    BY <1>2, <1>3 DEF ViewsInv, FinishInv
  <2>2. ASSUME Has(ops, {"finish"}) \/ Has(mainq', BlocksOf({"calibrated"}))
        PROVE  /\ calibrating' /\ calibrate /\ handled
               /\ ~Has(ops, {"begin", "cancel", "relative"})
               /\ ~Has(mainq', BlocksOf({"calibrating", "cancelled", "relative"}))
    <3>1. b.do # "calibrated"
      BY <1>3, <2>2 DEF ViewsInv, FinishInv
    <3> QED  BY <1>3, <2>2, <3>1 DEF ViewsInv, FinishInv
  <2> QED  BY <1>2, <2>1, <2>2 DEF FinishInv
<1>7. BaselineInv'
  <2>1. Has(mainq, BlocksOf({"calibrated"})) => ~Has(mainq, BlocksOf({"relative"}))
    BY DEF ViewsInv, FinishInv, Has, BlocksOf
  <2>2. Cancelling' => TurnedOff'
    BY <1>2, <1>4 DEF ViewsInv, BaselineInv, TurnedOff
  <2>3. mode' = "absolute" /\ hasPrev' => ~Has(mainq', BlocksOf({"relative"}))
    BY <1>2, <1>3, <2>1 DEF ViewsInv, BaselineInv
  <2>4. ASSUME hasPrev, prevAz # hand
        PROVE  \/ capturing \/ TurnedOff'
               \/ Has(ops, {"relative"}) \/ Has(mainq', BlocksOf({"calibrated"}))
               \/ mode' = "absolute" /\ ~Has(mainq', BlocksOf({"relative"}))
    BY <1>2, <1>3, <2>1, <2>4 DEF ViewsInv, BaselineInv, TurnedOff
  <2> QED  BY <1>2, <2>2, <2>3, <2>4 DEF BaselineInv
<1> QED  BY <1>5, <1>6, <1>7 DEF ViewsInv

(* What an operation on rm.motion does, and the block it posts.             *)
LEMMA Operated ==
  ASSUME TypeOK, Operate
  PROVE  \E o \in Operation :
           /\ Dequeue(o)
           /\ UNCHANGED <<calibrate, handled, calibrating, mode, prevAz, hand>>
           /\ capturing' = (o = "begin" \/ (capturing /\ o \notin {"finish", "cancel"}))
           /\ hasPrev' = (hasPrev /\ o \notin {"resume", "relative"})
           /\ \/ o \in {"pause", "resume"} /\ UNCHANGED mainq
              \/ \E b \in Blocks :
                   /\ mainq' = Append(mainq, b)
                   /\ \/ o = "relative" /\ b.do = "relative"
                      \/ o = "begin" /\ b.do = "calibrating"
                      \/ o = "finish" /\ b.do = "calibrated"
                      \/ o = "cancel" /\ b.do = "cancelled"
<1>1. capturing \in BOOLEAN /\ hasPrev \in BOOLEAN
  BY DEF TypeOK
<1>2. \A what \in {"relative", "calibrating", "calibrated", "cancelled"} :
        Block(what) \in Blocks /\ Block(what).do = what
  BY Simple DEF Block
<1> USE <1>1 DEF Operation, pane, published, motion, baseline
<1>3. CASE Pause
  BY <1>3 DEF Pause
<1>4. CASE Resume
  BY <1>4 DEF Resume
<1>5. CASE SetMode
  BY <1>2, <1>5 DEF SetMode, Post
<1>6. CASE BeginCalibration
  BY <1>2, <1>6 DEF BeginCalibration, Post
<1>7. CASE FinishCalibration
  BY <1>2, <1>7 DEF FinishCalibration, Post
<1>8. CASE CancelCalibration
  BY <1>2, <1>8 DEF CancelCalibration, Post
<1> QED  BY <1>3, <1>4, <1>5, <1>6, <1>7, <1>8 DEF Operate

(* An operation does what was counted on.  One that cancels is followed by  *)
(* the relative mode, or the switch has been turned off.                    *)
LEMMA OperateViews == ASSUME TypeOK, ViewsInv, Operate PROVE ViewsInv'
<1>1. PICK o \in Operation :
        /\ Dequeue(o)
        /\ UNCHANGED <<calibrate, handled, calibrating, mode, prevAz, hand>>
        /\ capturing' = (o = "begin" \/ (capturing /\ o \notin {"finish", "cancel"}))
        /\ hasPrev' = (hasPrev /\ o \notin {"resume", "relative"})
        /\ \/ o \in {"pause", "resume"} /\ UNCHANGED mainq
           \/ \E b \in Blocks :
                /\ mainq' = Append(mainq, b)
                /\ \/ o = "relative" /\ b.do = "relative"
                   \/ o = "begin" /\ b.do = "calibrating"
                   \/ o = "finish" /\ b.do = "calibrated"
                   \/ o = "cancel" /\ b.do = "cancelled"
  BY Operated
<1>2. /\ Captures <=> Up(ops', o = "begin" \/ (capturing /\ o \notin {"finish", "cancel"}),
                         {"begin"}, {"finish", "cancel"})
      /\ ToAbsolute <=> Up(ops', o = "finish" \/ (Absolute /\ o # "relative"),
                           {"finish"}, {"relative"})
      /\ Cancelling <=> Up(ops', o = "cancel", {"cancel"}, {"relative"})
      /\ \A A : Has(ops, A) <=> o \in A \/ Has(ops', A)
      /\ AtMostOne(ops, {"finish"}) =>
           AtMostOne(ops', {"finish"}) /\ (o = "finish" => ~Has(ops', {"finish"}))
  BY <1>1, OpTaken
<1>3. /\ Shown' <=> o = "begin" \/ (Shown /\ o \notin {"finish", "cancel"})
      /\ Absolute' <=> o = "finish" \/ (Absolute /\ o # "relative")
      /\ Has(mainq', BlocksOf({"relative"})) <=> Has(mainq, BlocksOf({"relative"})) \/ o = "relative"
      /\ Has(mainq', BlocksOf({"calibrated"})) <=> Has(mainq, BlocksOf({"calibrated"})) \/ o = "finish"
      /\ Has(mainq', BlocksOf({"calibrating", "cancelled", "relative"}))
           <=> \/ Has(mainq, BlocksOf({"calibrating", "cancelled", "relative"}))
               \/ o \in {"begin", "cancel", "relative"}
      /\ /\ AtMostOne(mainq, BlocksOf({"calibrated"}))
         /\ o = "finish" => ~Has(mainq, BlocksOf({"calibrated"}))
         => AtMostOne(mainq', BlocksOf({"calibrated"}))
  <2>1. CASE o \in {"pause", "resume"} /\ UNCHANGED mainq
    <3>1. (Shown' <=> Shown) /\ (Absolute' <=> Absolute)
      BY <1>1, <2>1 DEF Shown, Absolute
    <3> QED  BY <2>1, <3>1
  <2>2. CASE o \notin {"pause", "resume"}
    <3>1. PICK b \in Blocks :
            /\ mainq' = Append(mainq, b)
            /\ \/ o = "relative" /\ b.do = "relative"
               \/ o = "begin" /\ b.do = "calibrating"
               \/ o = "finish" /\ b.do = "calibrated"
               \/ o = "cancel" /\ b.do = "cancelled"
      BY <1>1, <2>2
    <3>2. /\ Shown' <=> b.do = "calibrating" \/ (Shown /\ b.do \notin {"calibrated", "cancelled"})
          /\ Absolute' <=> b.do = "calibrated" \/ (Absolute /\ b.do # "relative")
          /\ \A names : Has(mainq', BlocksOf(names)) <=> Has(mainq, BlocksOf(names)) \/ b.do \in names
          /\ /\ AtMostOne(mainq, BlocksOf({"calibrated"}))
             /\ b.do = "calibrated" => ~Has(mainq, BlocksOf({"calibrated"}))
             => AtMostOne(mainq', BlocksOf({"calibrated"}))
      BY <1>1, <3>1, BlockPosted
    <3> QED  BY <3>1, <3>2
  <2> QED  BY <1>1, <2>1, <2>2
<1>4. ViewInv'
  <2>1. Captures' <=> Captures
    BY <1>1, <1>2 DEF Captures
  <2>2. ToAbsolute' <=> ToAbsolute
    <3>1. Absolute' = (o = "finish" \/ (Absolute /\ o # "relative"))
      BY <1>3 DEF Absolute, Up
    <3> QED  BY <1>2, <3>1 DEF ToAbsolute
  <2>3. capturing' <=> Shown'
    BY <1>1, <1>3 DEF ViewsInv, ViewInv
  <2> QED  BY <1>1, <2>1, <2>2, <2>3 DEF ViewsInv, ViewInv
<1>5. FinishInv'
  BY <1>1, <1>2, <1>3 DEF ViewsInv, FinishInv
<1>6. BaselineInv'
  <2>1. TurnedOff' <=> TurnedOff
    BY <1>1 DEF TurnedOff
  <2>2. Cancelling' => TurnedOff'
    <3>1. Cancelling' => Cancelling
      BY <1>2 DEF Cancelling, Up
    <3> QED  BY <2>1, <3>1 DEF ViewsInv, BaselineInv
  <2>3. mode' = "absolute" /\ hasPrev' => ~Has(mainq', BlocksOf({"relative"}))
    BY <1>1, <1>3 DEF ViewsInv, BaselineInv
  <2>4. ASSUME hasPrev', prevAz' # hand'
        PROVE  \/ capturing' \/ TurnedOff'
               \/ Has(ops', {"relative"}) \/ Has(mainq', BlocksOf({"calibrated"}))
               \/ mode' = "absolute" /\ ~Has(mainq', BlocksOf({"relative"}))
    <3>1. hasPrev /\ prevAz # hand /\ o \notin {"resume", "relative"}
      BY <1>1, <2>4
    <3>2. CASE capturing
      <4>1. o = "cancel" /\ ~TurnedOff => Has(ops', {"relative"})
        BY <1>2 DEF ViewsInv, BaselineInv, Up, Has
      <4> QED  BY <1>1, <1>3, <2>1, <3>2, <4>1
    <3>3. CASE ~capturing
      BY <1>1, <1>2, <1>3, <2>1, <3>1, <3>3 DEF ViewsInv, BaselineInv
    <3> QED  BY <3>2, <3>3, <1>1 DEF TypeOK
  <2> QED  BY <2>2, <2>3, <2>4 DEF BaselineInv
<1> QED  BY <1>4, <1>5, <1>6 DEF ViewsInv

(* A move on the main queue is no concern of the switch or the overlay.     *)
LEMMA MoveQueued ==
  ASSUME TypeOK, ViewsInv, UNCHANGED <<pane, published, ops, capturing>>,
         UNCHANGED mainq \/ \E b \in Blocks : IsMove(b) /\ mainq' = Append(mainq, b)
  PROVE  /\ ViewInv' /\ FinishInv'
         /\ Cancelling' => TurnedOff'
         /\ TurnedOff' <=> TurnedOff
         /\ \A name : name \notin {"move", "moveAbs"} =>
              (Has(mainq', BlocksOf({name})) <=> Has(mainq, BlocksOf({name})))
<1>1. UNCHANGED <<calibrate, handled, calibrating, mode>>
  BY DEF pane, published
<1>2. /\ Shown' <=> Shown
      /\ Absolute' <=> Absolute
      /\ \A names : "move" \notin names /\ "moveAbs" \notin names =>
           (Has(mainq', BlocksOf(names)) <=> Has(mainq, BlocksOf(names)))
      /\ AtMostOne(mainq, BlocksOf({"calibrated"})) => AtMostOne(mainq', BlocksOf({"calibrated"}))
  <2>1. CASE UNCHANGED mainq
    BY <1>1, <2>1 DEF Shown, Absolute
  <2>2. ASSUME NEW b \in Blocks, IsMove(b), mainq' = Append(mainq, b)
        PROVE  /\ (Shown' <=> Shown) /\ (Absolute' <=> Absolute)
               /\ \A names : "move" \notin names /\ "moveAbs" \notin names =>
                    (Has(mainq', BlocksOf(names)) <=> Has(mainq, BlocksOf(names)))
               /\ AtMostOne(mainq, BlocksOf({"calibrated"}))
                    => AtMostOne(mainq', BlocksOf({"calibrated"}))
    <3>1. b.do \in {"move", "moveAbs"}
      BY <2>2 DEF IsMove
    <3> QED  BY <1>1, <2>2, <3>1, BlockPosted
  <2> QED  BY <2>1, <2>2
<1>3. /\ Captures' <=> Captures
      /\ ToAbsolute' <=> ToAbsolute
      /\ Cancelling' <=> Cancelling
  <2>1. Absolute' = Absolute
    BY <1>2 DEF Absolute, Up
  <2> QED  BY <2>1 DEF Captures, ToAbsolute, Cancelling
<1>4. ViewInv'
  BY <1>1, <1>2, <1>3 DEF ViewsInv, ViewInv
<1>5. FinishInv'
  BY <1>1, <1>2 DEF ViewsInv, FinishInv
<1>6. (TurnedOff' <=> TurnedOff) /\ (Cancelling' => TurnedOff')
  BY <1>1, <1>3 DEF ViewsInv, BaselineInv, TurnedOff
<1> QED  BY <1>2, <1>4, <1>5, <1>6

(* Every sample is a new baseline, or is not used for one.                  *)
LEMMA MovesViews ==
  ASSUME TypeOK, ViewsInv, NEW t \in -Pace..Pace, Even(t),
         captureRange(t) \/ PausedSample(t) \/ emitRelative(t) \/ emitAbsolute(t)
  PROVE  ViewsInv'
<1>1. UNCHANGED <<pane, published, ops, capturing, calibrating, mode>>
  BY DEF captureRange, PausedSample, emitRelative, emitAbsolute, Sample, motion, published
<1>2. UNCHANGED mainq \/ \E b \in Blocks : IsMove(b) /\ mainq' = Append(mainq, b)
  BY RelativePosts, AbsolutePosts DEF captureRange, PausedSample
<1>3. /\ ViewInv' /\ FinishInv'
      /\ Cancelling' => TurnedOff'
      /\ TurnedOff' <=> TurnedOff
      /\ Has(mainq', BlocksOf({"relative"})) <=> Has(mainq, BlocksOf({"relative"}))
      /\ Has(mainq', BlocksOf({"calibrated"})) <=> Has(mainq, BlocksOf({"calibrated"}))
  BY <1>1, <1>2, MoveQueued
<1>4. BaselineInv'
  <2>1. CASE captureRange(t)
    <3>1. capturing /\ UNCHANGED <<hasPrev, prevAz>>
      BY <2>1 DEF captureRange, baseline
    <3> QED  BY <1>1, <1>3, <3>1 DEF ViewsInv, BaselineInv
  <2>2. CASE PausedSample(t)
    <3>1. prevAz' = hand' /\ UNCHANGED hasPrev
      BY <2>2 DEF PausedSample
    <3> QED  BY <1>1, <1>3, <3>1 DEF ViewsInv, BaselineInv
  <2>3. CASE emitRelative(t)
    <3>1. prevAz' = hand' /\ mode = "relative"
      BY <2>3 DEF emitRelative
    <3> QED  BY <1>1, <1>3, <3>1 DEF BaselineInv
  <2>4. CASE emitAbsolute(t)
    <3>1. mode = "absolute" /\ UNCHANGED <<hasPrev, prevAz>>
      BY <2>4 DEF emitAbsolute, motion, baseline
    <3> QED  BY <1>1, <1>3, <3>1 DEF ViewsInv, BaselineInv
  <2> QED  BY <2>1, <2>2, <2>3, <2>4
<1> QED  BY <1>3, <1>4 DEF ViewsInv

(* Only the baseline is forgotten when the pane goes away.                  *)
LEMMA DisappearViews == ASSUME TypeOK, ViewsInv, Disappear PROVE ViewsInv'
<1>1. /\ UNCHANGED <<pane, published, ops, mainq, capturing, prevAz, hand, mode>>
      /\ hasPrev' = FALSE
  BY DEF Disappear, published
<1>2. ViewInv' /\ FinishInv' /\ (Cancelling' => TurnedOff')
  BY <1>1, MoveQueued
<1>3. BaselineInv'
  BY <1>1, <1>2 DEF BaselineInv
<1> QED  BY <1>2, <1>3 DEF ViewsInv

LEMMA InitViews == ASSUME Init PROVE ViewsInv
<1>1. /\ 1..Len(ops) = {} /\ 1..Len(mainq) = {}
      /\ ~calibrate /\ ~calibrating /\ mode # "absolute" /\ ~capturing /\ ~hasPrev
  BY DEF Init
<1>2. ~Shown /\ ~Absolute
  BY <1>1 DEF Shown, Absolute, Up
<1>3. ~Captures /\ ~ToAbsolute /\ ~Cancelling
  BY <1>1, <1>2 DEF Captures, ToAbsolute, Cancelling, Up
<1>4. \A A : ~Has(ops, A) /\ ~Has(mainq, A) /\ AtMostOne(ops, A) /\ AtMostOne(mainq, A)
  BY <1>1 DEF Has, AtMostOne
<1> QED  BY <1>1, <1>2, <1>3, <1>4 DEF ViewsInv, ViewInv, FinishInv, BaselineInv

LEMMA NextViews == ASSUME TypeOK, ViewsInv, Next PROVE ViewsInv'
<1>1. CASE \/ \E c \in Control : Press(c) \/ Release(c)
           \/ Drag
  <2>1. PICK o \in {"pause", "resume"} : Enqueue(<<o>>)
    BY <1>1 DEF Press, Release, Drag
  <2>2. ops' = Append(ops, o) /\ UNCHANGED <<calibrate, handled, published, mainq, motion, hand>>
    BY <1>1, <2>1 DEF Press, Release, Drag, Enqueue, TypeOK
  <2> QED  BY <2>2, PauseViews DEF motion
<1>2. CASE Moves
  BY <1>2, MovesViews DEF Moves, Even
<1> QED
  BY <1>1, <1>2, ToggleViews, TapViews, DisappearViews, OnChangeViews, BlockViews, OperateViews
  DEF Next, User

LEMMA StillViews == ASSUME ViewsInv, UNCHANGED vars PROVE ViewsInv'
<1> USE DEF vars, pane, published, motion, baseline
<1>1. UNCHANGED <<Shown, Captures, ToAbsolute, Cancelling, TurnedOff>>
  BY DEF Shown, Absolute, Captures, ToAbsolute, Cancelling, TurnedOff
<1>2. ViewInv'
  BY <1>1 DEF ViewsInv, ViewInv
<1>3. FinishInv'
  BY <1>1 DEF ViewsInv, FinishInv
<1>4. BaselineInv'
  BY <1>1 DEF ViewsInv, BaselineInv
<1> QED  BY <1>2, <1>3, <1>4 DEF ViewsInv

(* The only move of the relative mode that is posted while no end is on its *)
(* way is how far the hand turned since the sample before.                  *)
LEMMA MoveIsTurn ==
  ASSUME TypeOK, ViewsInv, ~Ending, Next,
         NEW n \in Nat, n = Len(mainq'), n > Len(mainq), mainq'[n].do = "move"
  PROVE  mainq'[n].n \in -Pace..Pace
<1>1. mainq \in Seq(Blocks)
  BY DEF TypeOK
<1>2. ~(User \/ OnChange \/ RunBlock)
  <2>1. User \/ OnChange => UNCHANGED mainq
    BY DEF User, OnChange, Press, Release, Drag, Toggle, TapCancel, TapFinish, Disappear
  <2>2. RunBlock => n < Len(mainq)
    BY <1>1 DEF RunBlock
  <2> QED  BY <1>1, <2>1, <2>2
<1>3. ~Operate
  <2>1. ASSUME Operate  PROVE FALSE
    <3>1. \E b \in Blocks :
            /\ mainq' = Append(mainq, b)
            /\ b.do \in {"relative", "calibrating", "calibrated", "cancelled"}
      BY <1>1, <2>1, Operated
    <3> QED  BY <1>1, <3>1
  <2> QED  BY <2>1
<1>4. PICK t \in -Pace..Pace :
        /\ Even(t)
        /\ captureRange(t) \/ PausedSample(t) \/ emitRelative(t) \/ emitAbsolute(t)
  BY <1>2, <1>3 DEF Next, Moves, Even
<1>5. mainq' # mainq
  BY <1>1
<1>6. ~emitAbsolute(t)
  <2>1. ASSUME emitAbsolute(t)  PROVE FALSE
    <3>1. mainq' = Append(mainq, [do |-> "moveAbs", n |-> ScreenX(hand')])
      BY <2>1 DEF emitAbsolute
    <3> QED  BY <1>1, <3>1
  <2> QED  BY <2>1
<1>7. /\ hasPrev /\ ~capturing /\ mode = "relative"
      /\ mainq' = Append(mainq, [do |-> "move", n |-> Around(hand' - prevAz)])
      /\ hand' = Around(hand + t)
  BY <1>4, <1>5, <1>6 DEF captureRange, PausedSample, emitRelative, Sample
<1>8. prevAz = hand
  <2>1. ~TurnedOff
    BY DEF Ending, TurnedOff, TypeOK
  <2>2. ~Has(ops, {"relative"}) /\ ~Has(mainq, BlocksOf({"calibrated"}))
    BY DEF Ending, Has, BlocksOf, TypeOK
  <2> QED  BY <1>7, <2>1, <2>2 DEF ViewsInv, BaselineInv
<1>9. mainq'[n].n = Around(hand' - prevAz)
  BY <1>1, <1>7
<1>10. Around(Around(hand + t) - hand) = t
  <2>1. /\ Half \in Nat /\ Pace \in Nat /\ Pace < Half /\ hand \in Int /\ t \in Int
        /\ -Half <= hand /\ hand <= Half /\ -Pace <= t /\ t <= Pace
    BY AnglesOK DEF AnglesOK, TypeOK, Azimuth
  <2> QED  BY <2>1 DEF Around
<1> QED  BY <1>7, <1>8, <1>9, <1>10

-----------------------------------------------------------------------------
(* Theorems.                                                                *)

LEMMA InitInv == ASSUME Init PROVE IInv
<1>1. TypeOK
  <2>1. 0 \in -Half..Half /\ 0 \in -Reach..0 /\ 0 \in 0..Reach /\ 0 \in -Reach..Reach
        /\ 0 \in Azimuth
    BY AnglesOK DEF AnglesOK, Azimuth
  <2>2. NoSweep \in Sweeps
    BY <2>1 DEF NoSweep, Sweeps
  <2>3. halfRangeAz \in MinHalfRange..Half /\ toggles \in 0..MaxTaps /\ touches \in 0..MaxTaps
    BY AnglesOK, BoundsOK DEF Init, AnglesOK, BoundsOK
  <2>4. ops \in Seq(Operation) /\ mainq \in Seq(Blocks) /\ held \subseteq Control
    BY DEF Init
  <2> QED BY <2>1, <2>2, <2>3, <2>4 DEF Init, TypeOK
<1>2. /\ NoSweep.lo = 0 /\ NoSweep.hi = 0 /\ NoSweep.at = 0 /\ Even(0)
  BY DEF NoSweep, Even
<1>3. CaptureInv /\ RangeInv
  BY <1>2, AnglesOK DEF Init, CaptureInv, RangeInv, AnglesOK
<1>4. HeldInv
  BY DEF Init, HeldInv, ShownAt
<1> QED BY <1>1, <1>3, <1>4 DEF IInv

LEMMA NextInv == ASSUME IInv, Next PROVE IInv'
<1>1. TypeOK'
  BY UserTypes, BlockTypes, OperateTypes, MovesTypes DEF IInv, Next, Moves, Even
<1> QED BY <1>1, CaptureStep, HeldStep DEF IInv

(* Captured offsets, calibrated range and queued moves are right in every   *)
(* reachable state (MotionController's handler and operations).             *)
THEOREM Invariance == Spec => []IInv
<1>1. IInv /\ UNCHANGED vars => IInv'
  <2> SUFFICES ASSUME IInv, UNCHANGED vars PROVE IInv'
    OBVIOUS
  <2> USE DEF IInv, vars, pane, published, motion, baseline, capture, range
  <2>1. TypeOK' BY DEF TypeOK
  <2>2. CaptureInv' /\ RangeInv' BY DEF CaptureInv, RangeInv
  <2>3. HeldInv' BY StillKeepsHeld
  <2> QED BY <2>1, <2>2, <2>3
<1> QED
  BY <1>1, InitInv, NextInv, PTL DEF Spec

(* Every variable keeps its type: angles stay on the circle, the range of a *)
(* calibration is never empty and never more than the circle, and positions *)
(* are on the scale of the screen (finishCalibration and emitAbsolute).     *)
THEOREM TypeCorrect == Spec => []TypeOK
<1>1. IInv => TypeOK
  BY DEF IInv
<1> QED
  BY <1>1, Invariance, PTL

(* However taps, touches, samples and the two queues interleave, no move is *)
(* delivered under the overlay (beginCalibration, captureRange).            *)
THEOREM StillWhileCalibratingHolds == Spec => []StillWhileCalibrating
<1>1. IInv => StillWhileCalibrating
  <2> SUFFICES ASSUME IInv, calibrating, mainq # <<>> PROVE ~IsMove(Head(mainq))
    BY DEF StillWhileCalibrating, IsMove
  <2>1. 1 \in 1..Len(mainq) /\ Head(mainq) = mainq[1]
    BY DEF IInv, TypeOK
  <2>2. ShownAt(1)
    BY DEF ShownAt
  <2> QED BY <2>1, <2>2 DEF IInv, HeldInv
<1> QED
  BY <1>1, Invariance, PTL

LEMMA ViewsInvariance == Spec => []ViewsInv
<1>1. TypeOK /\ ViewsInv /\ [Next]_vars => ViewsInv'
  BY NextViews, StillViews
<1> QED
  BY <1>1, InitViews, TypeCorrect, PTL DEF Spec

(* However the taps on the switch and the overlay, onChange and the two     *)
(* queues interleave: when nothing is on its way, the overlay is up exactly *)
(* during a capture, and the switch is on when the pane is calibrating or   *)
(* absolute (AirMousePane.body, onChange, MotionController).                *)
THEOREM ViewAgreesHolds == Spec => []ViewAgrees
<1>1. ASSUME TypeOK, ViewsInv, CaughtUp, calibrate = handled
      PROVE  calibrating = capturing /\ (calibrate <=> calibrating \/ mode = "absolute")
  <2>1. /\ Shown <=> calibrating
        /\ Captures <=> capturing
        /\ ToAbsolute <=> mode = "absolute"
    BY <1>1, Quiet
  <2>2. calibrating \in BOOLEAN /\ capturing \in BOOLEAN
    BY <1>1 DEF TypeOK
  <2> QED  BY <1>1, <2>1, <2>2 DEF ViewsInv, ViewInv
<1>2. TypeOK /\ ViewsInv => ViewAgrees
  BY <1>1 DEF ViewAgrees
<1> QED
  BY <1>2, TypeCorrect, ViewsInvariance, PTL

(* No step posts a relative move of more than the hand turned between two   *)
(* samples, whatever paused, calibrated or set the mode before: every       *)
(* sample that is not to be followed by a forgotten baseline becomes one    *)
(* (handle, setPaused, setMode, emitRelative).                              *)
THEOREM NoJumpHolds == Spec => NoJump
<1>1. ASSUME IInv, ViewsInv, [Next]_vars
      PROVE  Len(mainq') > Len(mainq) /\ mainq'[Len(mainq')].do = "move" /\ ~Ending
               => mainq'[Len(mainq')].n \in -Pace..Pace
  <2>1. SUFFICES ASSUME Len(mainq') > Len(mainq), mainq'[Len(mainq')].do = "move", ~Ending
                 PROVE  mainq'[Len(mainq')].n \in -Pace..Pace
    OBVIOUS
  <2>2. Next
    BY <1>1, <2>1 DEF vars, IInv, TypeOK
  <2>3. mainq' \in Seq(Blocks)
    BY <1>1, <2>2, NextInv DEF IInv, TypeOK
  <2>4. PICK n \in Nat : n = Len(mainq')
    BY <2>3
  <2> QED  BY <1>1, <2>1, <2>2, <2>4, MoveIsTurn DEF IInv
<1> QED
  BY <1>1, Invariance, ViewsInvariance, PTL DEF NoJump, Spec

(* Wherever on the circle a sweep was made, and however it went, its ends   *)
(* are the edges of the screen (finishCalibration, emitAbsolute).           *)
THEOREM SweepFillsScreenHolds == Spec => []SweepFillsScreen
<1>1. ASSUME IInv, swept.hi - swept.lo >= 2 * MinHalfRange
      PROVE  /\ ScreenX(Around(swept.from + swept.lo)) = 0
             /\ ScreenX(Around(swept.from + swept.hi)) = Scale
  <2> DEFINE m == (swept.hi + swept.lo) \div 2
             left == swept.from + swept.lo
             right == swept.from + swept.hi
             middle == swept.from + m
  <2>1. /\ Half \in Nat /\ Reach \in Nat /\ Reach < Half
        /\ swept.from \in -Half..Half /\ swept.lo \in -Reach..0 /\ swept.hi \in 0..Reach
        /\ halfRangeAz \in MinHalfRange..Half /\ halfRangeAz \in Int
    BY <1>1, AnglesOK DEF IInv, TypeOK, Sweeps, Azimuth, AnglesOK
  <2>2. m \in Int /\ 2 * m = swept.hi + swept.lo
    <3>1. swept.hi + swept.lo \in Int /\ Even(swept.hi + swept.lo)
      BY <1>1, <2>1 DEF IInv, RangeInv, Even
    <3> QED BY <3>1, HalfOf
  <2>3. neutralAz = Around(middle) /\ 2 * halfRangeAz = swept.hi - swept.lo
    BY <1>1 DEF IInv, RangeInv
  <2> HIDE DEF m
  <2>4. /\ left \in -(2 * Half)..2 * Half /\ right \in -(2 * Half)..2 * Half
        /\ middle \in -(2 * Half)..2 * Half
        /\ left - middle = -halfRangeAz /\ right - middle = halfRangeAz
        /\ -Half < left - middle /\ left - middle < Half
        /\ -Half < right - middle /\ right - middle < Half
    BY <2>1, <2>2, <2>3
  <2> HIDE DEF left, right, middle
  <2>5. /\ Around(Around(left) - neutralAz) = -halfRangeAz
        /\ Around(Around(right) - neutralAz) = halfRangeAz
    BY <2>3, <2>4, Apart
  <2>6. Around(left) \in -Half..Half /\ Around(right) \in -Half..Half
    BY <2>4, AroundIs
  <2>7. ScreenX(Around(left)) = 0 /\ ScreenX(Around(right)) = Scale
    BY <1>1, <2>5, <2>6, OnScreen DEF IInv
  <2> QED BY <2>7 DEF left, right
<1>2. IInv => SweepFillsScreen
  BY <1>1 DEF SweepFillsScreen
<1> QED
  BY <1>2, Invariance, PTL

=============================================================================
