--------------------------- MODULE WinInjectProofs ---------------------------
(* Proofs about WinInject, for all screens, distances and widths of int32,  *)
(* any keys, modifiers and texts: clicks land where the pointer was moved   *)
(* to, every pixel of the screen is reached, keys go down under their       *)
(* modifiers and do not stick, and every code point has units of 16 bits.   *)
EXTENDS WinInject, FiniteSetTheorems, TLAPS

-----------------------------------------------------------------------------
(* Arithmetic.                                                              *)

(* A conversion to int32 is one: its value has 32 bits.                     *)
LEMMA Int32Range == ASSUME NEW v \in Int PROVE Int32(v) \in -Half..Half - 1
<1> DEFINE m == 2 * Half
<1>1. m \in Nat /\ m > 0 /\ Half \in Nat BY SMT, HalfOK DEF HalfOK, Scale
<1>2. (v + Half) % m \in 0..m - 1
  <2> HIDE DEF m
  <2> QED BY SMT, <1>1
<1> QED BY SMT, <1>1, <1>2 DEF Int32

(* It leaves alone what fits.                                               *)
LEMMA Int32Same == ASSUME NEW v \in -Half..Half - 1 PROVE Int32(v) = v
<1> DEFINE m == 2 * Half
           a == v + Half
<1>1. m \in Nat /\ m > 0 /\ Half \in Nat /\ v \in Int /\ a \in 0..m - 1
  BY SMT, HalfOK DEF HalfOK, Scale
<1>2. a % m = a
  <2> HIDE DEF m, a
  <2> QED BY SMT, <1>1
<1> QED BY SMT, <1>1, <1>2 DEF Int32

(* Clamping.                                                                *)
LEMMA Clamped ==
  ASSUME NEW v \in Int, NEW lo \in Int, NEW hi \in Int, lo <= hi
  PROVE  /\ clampI32(v, lo, hi) \in lo..hi
         /\ v \in lo..hi => clampI32(v, lo, hi) = v
BY DEF clampI32

(* No division by zero, and a right edge that has 32 bits.                  *)
LEMMA Screen ==
  ASSUME metrics \in Metrics
  PROVE  /\ ScreenWidth \in Nat /\ ScreenWidth >= 1
         /\ Left \in -Half..Half - 1 /\ Right \in -Half..Half - 1
         /\ Right = Left + (ScreenWidth - 1) /\ Left <= Right
<1>1. /\ metrics.x \in -Half..Half - 1 /\ metrics.w \in Nat /\ metrics.p \in Nat
      /\ metrics.x + metrics.w <= Half /\ metrics.x + metrics.p <= Half
      /\ Half \in Nat
  BY SMT, HalfOK, MetricsOK DEF HalfOK, MetricsOK, Scale
<1>2. ScreenWidth \in Nat /\ ScreenWidth >= 1 /\ Left + (ScreenWidth - 1) \in -Half..Half - 1
  BY <1>1 DEF ScreenWidth, maxI32, Left
<1>3. Right = Left + (ScreenWidth - 1)
  <2>1. Left + ScreenWidth - 1 = Left + (ScreenWidth - 1) BY <1>1, <1>2 DEF Left
  <2> QED BY <1>2, <2>1, Int32Same DEF Right
<1> QED BY <1>1, <1>2, <1>3 DEF Left

(* a of b steps is on the scale, and all b of them are its end.             *)
LEMMA Scaled ==
  ASSUME NEW b \in Nat, b >= 1, NEW a \in 0..b
  PROVE  /\ (a * Scale) \div b \in 0..Scale
         /\ a = 0 => (a * Scale) \div b = 0
         /\ a = b => (a * Scale) \div b = Scale
<1> DEFINE q == (a * Scale) \div b
<1>1. a * Scale \in Int /\ b * Scale \in Int /\ 0 <= a * Scale /\ a * Scale <= b * Scale
  BY SMT DEF Scale
<1>2. q \in Int /\ b * q <= a * Scale /\ a * Scale < b * (q + 1)
  <2> DEFINE n == a * Scale
  <2>1. n \in Int BY <1>1
  <2>2. n \div b \in Int /\ b * (n \div b) <= n /\ n < b * ((n \div b) + 1)
    <3> HIDE DEF n
    <3> QED BY SMT, <2>1
  <2> QED BY <2>2
<1> QED
  <2> HIDE DEF q
  <2>1. q \in Int /\ Scale \in Nat BY <1>2 DEF Scale
  <2>2. 0 <= q BY SMT, <1>1, <1>2, <2>1
  <2>3. q <= Scale BY SMT, <1>1, <1>2, <2>1
  <2>4. a = b => Scale <= q BY SMT, <1>1, <1>2, <2>1
  <2>5. a = 0 => q <= 0 BY SMT, <1>1, <1>2, <2>1
  <2> QED BY SMT, <2>1, <2>2, <2>3, <2>4, <2>5 DEF q

(* The first and the last pixel of the screen are the ends of the scale.    *)
LEMMA Ends ==
  ASSUME metrics \in Metrics, NEW v \in Left..Right
  PROVE  /\ normAbs(v) \in 0..Scale
         /\ v = Left => normAbs(v) = 0
         /\ v = Right /\ Left < Right => normAbs(v) = Scale
<1> DEFINE b == maxI32(ScreenWidth - 1, 1)
           a == v - Left
<1>1. /\ ScreenWidth \in Nat /\ ScreenWidth >= 1 /\ Left \in Int /\ Right \in Int
      /\ Right = Left + (ScreenWidth - 1) /\ Left <= Right
  BY SMT, Screen, HalfOK DEF HalfOK
<1>2. b \in Nat /\ b >= 1 /\ a \in 0..b /\ (v = Left => a = 0)
      /\ (v = Right /\ Left < Right => a = b)
  BY SMT, <1>1 DEF maxI32
<1>3. normAbs(v) = (a * Scale) \div b
  BY <1>1, Clamped DEF normAbs
<1> HIDE DEF a, b
<1> QED BY SMT, <1>2, <1>3, Scaled

-----------------------------------------------------------------------------
(* The pointer.                                                             *)

PosInv == metrics \in Metrics /\ x \in Int

(* While the phone's aim is known, it is the tracked position.              *)
AimInv ==
  aim # Somewhere =>
    /\ absolute /\ seeded /\ x \in Left..Right
    /\ aim = [space |-> "virtual", n |-> normAbs(x)]

IInv == PosInv /\ AimInv /\ ClickLands

(* Moving leaves the tracked position on the screen; moving by nothing      *)
(* leaves it where it is, if it is there.                                   *)
LEMMA Moved ==
  ASSUME PosInv, NEW d \in Int, AbsMove(d), UNCHANGED metrics
  PROVE  /\ seeded' /\ x' \in Left..Right
         /\ pointer' = [space |-> "virtual", n |-> normAbs(x')]
         /\ d = 0 /\ seeded /\ x \in Left..Right => x' = x
<1>1. /\ Left \in -Half..Half - 1 /\ Right \in -Half..Half - 1 /\ Left <= Right
      /\ Half \in Nat /\ 0 \in -Half..Half - 1
  BY SMT, Screen, HalfOK DEF HalfOK, PosInv, Scale
<1>2. PICK from \in IF seeded THEN {x} ELSE Left..Right :
        x' = clampI32(Int32(from + Int32(d)), Left, Right)
  BY DEF AbsMove
<1>3. from \in Int BY SMT, <1>1, <1>2 DEF PosInv
<1>4. Int32(d) \in Int BY SMT, <1>1, Int32Range
<1>5. Int32(from + Int32(d)) \in Int
  <2>1. from + Int32(d) \in Int BY SMT, <1>3, <1>4
  <2> HIDE DEF Int32
  <2> QED BY SMT, <1>1, <2>1, Int32Range
<1>6. x' \in Left..Right BY <1>1, <1>2, <1>5, Clamped
<1>7. ASSUME d = 0, seeded, x \in Left..Right PROVE x' = x
  <2>1. Int32(d) = 0 BY <1>1, <1>7, Int32Same
  <2>2. from = x BY <1>2, <1>7
  <2>3. from + Int32(d) = x BY SMT, <2>1, <2>2, <1>3
  <2>4. x \in -Half..Half - 1 BY SMT, <1>1, <1>7
  <2>5. Int32(x) = x BY <2>4, Int32Same
  <2>6. clampI32(x, Left, Right) = x BY <1>1, <1>3, <2>2, <1>7, Clamped
  <2> QED BY <1>2, <2>3, <2>5, <2>6
<1> QED BY <1>6, <1>7 DEF AbsMove

LEMMA InitOK == Init => IInv
BY SMT, HalfOK DEF Init, IInv, PosInv, AimInv, ClickLands, Nothing, HalfOK

(* What moves the pointer on purpose.                                       *)
LEMMA MoveStep == IInv /\ MoveRel => IInv'
<1> SUFFICES ASSUME IInv, MoveRel PROVE IInv' OBVIOUS
<1>1. PICK d \in Delta :
        /\ IF absolute
             THEN AbsMove(d) /\ aim' = pointer'
             ELSE pointer' = Somewhere /\ aim' = Somewhere /\ UNCHANGED <<seeded, x>>
        /\ last' = Nothing /\ UNCHANGED <<absolute, metrics, keys>>
  BY DEF MoveRel
<1>2. ClickLands' BY <1>1 DEF ClickLands, Nothing
<1>3. CASE absolute
  <2>1. d \in Int BY SMT, DistancesOK DEF DistancesOK
  <2>2. /\ seeded' /\ x' \in Left..Right
        /\ pointer' = [space |-> "virtual", n |-> normAbs(x')]
    BY <1>1, <1>3, <2>1, Moved DEF IInv
  <2>3. /\ (x \in Left..Right)' /\ x' \in Int
        /\ aim' = [space |-> "virtual", n |-> normAbs(x)]'
    <3>1. Left' = Left /\ Right' = Right /\ normAbs(x)' = normAbs(x')
      BY <1>1 DEF Left, Right, ScreenWidth, normAbs
    <3>2. Left \in Int /\ Right \in Int
      BY SMT, Screen, HalfOK DEF HalfOK, IInv, PosInv
    <3> QED BY SMT, <1>1, <1>3, <2>2, <3>1, <3>2
  <2> QED BY <1>1, <1>2, <1>3, <2>2, <2>3 DEF IInv, PosInv, AimInv
<1>4. CASE ~absolute
  BY <1>1, <1>2, <1>4 DEF IInv, PosInv, AimInv, Somewhere
<1> QED BY <1>3, <1>4

(* A button, whether the pointer is asserted again or not.                  *)
LEMMA ButtonStep == IInv /\ Button => IInv'
<1> SUFFICES ASSUME IInv, Button PROVE IInv' OBVIOUS
<1>1. /\ ButtonMoves /\ last' = [call |-> "Button", at |-> pointer', aim |-> aim]
      /\ UNCHANGED <<absolute, metrics, aim>>
  BY DEF Button
<1>2. normAbs(x)' = normAbs(x') /\ Left' = Left /\ Right' = Right
  BY <1>1 DEF Left, Right, ScreenWidth, normAbs
<1>3. Left \in Int /\ Right \in Int
  BY SMT, Screen, HalfOK DEF HalfOK, IInv, PosInv
<1>4. CASE absolute
  <2>1. AbsMove(0) BY <1>1, <1>4 DEF ButtonMoves
  <2>2. /\ seeded' /\ x' \in Left..Right
        /\ pointer' = [space |-> "virtual", n |-> normAbs(x')]
        /\ seeded /\ x \in Left..Right => x' = x
    BY <1>1, <2>1, Moved DEF IInv
  <2>3. PosInv' BY SMT, <1>1, <1>3, <2>2 DEF IInv, PosInv
  <2>4. ASSUME aim # Somewhere PROVE x' = x /\ pointer' = aim
    BY <2>2, <2>4 DEF IInv, AimInv
  <2>5. AimInv' BY <1>1, <1>2, <1>4, <2>2, <2>4 DEF IInv, AimInv
  <2>6. ClickLands' BY <1>1, <2>4 DEF ClickLands
  <2> QED BY <2>3, <2>5, <2>6 DEF IInv
<1>5. CASE ~absolute
  BY <1>1, <1>5 DEF IInv, PosInv, AimInv, ButtonMoves, ClickLands
<1> QED BY <1>4, <1>5

(* Everything else gives up the aim, or leaves it and the screen alone.     *)
LEMMA OtherStep ==
  ASSUME IInv,
         MoveAbs \/ MouseMoves \/ ScreenChanges \/ KeyDown \/ KeyUp \/ Text
  PROVE  IInv'
<1>1. ASSUME MoveAbs PROVE IInv'
  <2> USE <1>1 DEF MoveAbs
  <2>1. PosInv' BY DEF IInv, PosInv
  <2>2. AimInv' /\ ClickLands' BY DEF AimInv, ClickLands, Nothing
  <2> QED BY <2>1, <2>2 DEF IInv
<1>2. ASSUME ScreenChanges PROVE IInv'
  <2> USE <1>2 DEF ScreenChanges
  <2>1. PosInv' BY DEF IInv, PosInv
  <2>2. AimInv' /\ ClickLands' BY DEF AimInv, ClickLands, Nothing
  <2> QED BY <2>1, <2>2 DEF IInv
<1>3. ASSUME UNCHANGED <<absolute, metrics, seeded, x, aim>>, last'.call # "Button"
      PROVE  IInv'
  <2>1. normAbs(x)' = normAbs(x) /\ Left' = Left /\ Right' = Right
    BY <1>3 DEF Left, Right, ScreenWidth, normAbs
  <2> QED BY <1>3, <2>1 DEF IInv, PosInv, AimInv, ClickLands
<1>4. ASSUME MouseMoves PROVE IInv' BY <1>3, <1>4 DEF MouseMoves, Nothing
<1>5. ASSUME KeyDown PROVE IInv' BY <1>3, <1>5 DEF KeyDown, pos
<1>6. ASSUME KeyUp PROVE IInv' BY <1>3, <1>6 DEF KeyUp, pos, Nothing
<1>7. ASSUME Text PROVE IInv' BY <1>3, <1>7 DEF Text, pos
<1> QED BY <1>1, <1>2, <1>4, <1>5, <1>6, <1>7

LEMMA StepOK == IInv /\ [Next]_vars => IInv'
<1> SUFFICES ASSUME IInv, [Next]_vars PROVE IInv' OBVIOUS
<1>1. CASE UNCHANGED vars
  <2>1. normAbs(x)' = normAbs(x) /\ Left' = Left /\ Right' = Right
    BY <1>1 DEF Left, Right, ScreenWidth, normAbs, vars, pos
  <2> QED BY <1>1, <2>1 DEF IInv, PosInv, AimInv, ClickLands, vars, pos
<1>2. CASE Next BY <1>2, MoveStep, ButtonStep, OtherStep DEF Next
<1> QED BY <1>1, <1>2

-----------------------------------------------------------------------------
(* The keys.                                                                *)

Keys == Code \cup Modifier

(* SetToSeq lists a finite set, each of its elements once.                  *)
LEMMA Listed ==
  ASSUME NEW S, IsFiniteSet(S)
  PROVE  \E n \in Nat : /\ SetToSeq(S) \in [1..n -> S]
                        /\ \A i, j \in 1..n : SetToSeq(S)[i] = SetToSeq(S)[j] => i = j
                        /\ \A e \in S : \E i \in 1..n : SetToSeq(S)[i] = e
<1> DEFINE n == Cardinality(S)
           f == SetToSeq(S)
<1>1. n \in Nat /\ ExistsBijection(1..n, S)
  BY FS_CardinalityType
<1>2. \E g \in [1..n -> S] : IsInjective(g)
  BY <1>1 DEF ExistsBijection, Bijection, Injection
<1>3. f \in [1..n -> S] /\ IsInjective(f)
  BY <1>2 DEF SetToSeq
<1>4. f \in Injection(1..n, S)
  BY <1>3 DEF Injection
<1>5. Cardinality(1..n) = n
  BY <1>1, FS_Interval
<1>6. f \in Surjection(1..n, S)
  BY <1>4, <1>5, FS_Injection
<1>7. \A e \in S : \E i \in 1..n : f[i] = e
  BY <1>6 DEF Surjection
<1> QED  BY <1>1, <1>3, <1>7 DEF IsInjective

Pressed(ins) == {ins[i].vk : i \in 1..Len(ins)}

(* Inputs that press, or release, some keys once each.                      *)
Once(ins, up) ==
  /\ ins \in Seq([vk : Keys, up : {up}])
  /\ \A i, j \in 1..Len(ins) : ins[i].vk = ins[j].vk => i = j

(* Each of mods once, all pressed or all released.                          *)
LEMMA ModKeysAre ==
  ASSUME NEW mods \in SUBSET Modifier, NEW up \in BOOLEAN
  PROVE  Once(modKeys(mods, up), up) /\ Pressed(modKeys(mods, up)) = mods
<1>1. IsFiniteSet(mods)
  BY KeysOK, FS_Subset DEF KeysOK
<1>2. PICK n \in Nat : /\ SetToSeq(mods) \in [1..n -> mods]
                       /\ \A i, j \in 1..n : SetToSeq(mods)[i] = SetToSeq(mods)[j] => i = j
                       /\ \A e \in mods : \E i \in 1..n : SetToSeq(mods)[i] = e
  BY <1>1, Listed
<1>3. PICK f \in [1..n -> mods] : f = SetToSeq(mods)
  BY <1>2
<1>4. PICK ms : ms = modKeys(mods, up)
  OBVIOUS
<1>5. ms = [i \in 1..n |-> keyVK(f[i], up)]
  BY <1>3, <1>4 DEF modKeys
<1>6. PICK I : I = [vk : Keys, up : {up}]
  OBVIOUS
<1>7. \A i \in 1..n : keyVK(f[i], up) \in I /\ keyVK(f[i], up).vk = f[i]
  BY <1>6 DEF keyVK, Keys
<1>8. ms \in Seq(I) /\ Len(ms) = n /\ \A i \in 1..n : ms[i].vk = f[i]
  BY <1>5, <1>7
<1>9. Once(ms, up)
  BY <1>2, <1>3, <1>6, <1>8 DEF Once
<1>10. Pressed(ms) = mods
  BY <1>2, <1>3, <1>8 DEF Pressed
<1> QED  BY <1>4, <1>9, <1>10

LEMMA Joined ==
  ASSUME NEW S, NEW s \in Seq(S), NEW e \in S
  PROVE  /\ s \o <<e>> \in Seq(S) /\ Len(s \o <<e>>) = Len(s) + 1
         /\ \A i \in 1..Len(s) : (s \o <<e>>)[i] = s[i]
         /\ (s \o <<e>>)[Len(s) + 1] = e
         /\ SubSeq(s \o <<e>>, 1, Len(s)) = s
         /\ <<e>> \o s \in Seq(S) /\ Len(<<e>> \o s) = Len(s) + 1
         /\ \A i \in 1..Len(s) : (<<e>> \o s)[i + 1] = s[i]
         /\ (<<e>> \o s)[1] = e
OBVIOUS

(* One more key, behind the others or before them.                          *)
LEMMA OnceMore ==
  ASSUME NEW s, NEW up \in BOOLEAN, Once(s, up), NEW k \in Keys, k \notin Pressed(s)
  PROVE  /\ Once(s \o <<keyVK(k, up)>>, up) /\ Pressed(s \o <<keyVK(k, up)>>) = Pressed(s) \cup {k}
         /\ Once(<<keyVK(k, up)>> \o s, up) /\ Pressed(<<keyVK(k, up)>> \o s) = Pressed(s) \cup {k}
<1>1. PICK I : I = [vk : Keys, up : {up}]
  OBVIOUS
<1>2. PICK e : e = keyVK(k, up)
  OBVIOUS
<1>3. e \in I /\ e.vk = k /\ s \in Seq(I)
  BY <1>1, <1>2 DEF keyVK, Once
<1>4. PICK n \in Nat : n = Len(s)
  BY <1>3
<1>5. /\ \A i, j \in 1..n : s[i].vk = s[j].vk => i = j
      /\ \A i \in 1..n : s[i].vk # k
      /\ Pressed(s) = {s[i].vk : i \in 1..n}
  BY <1>4 DEF Once, Pressed
<1>6. PICK v : v = s \o <<e>>
  OBVIOUS
<1>7. v \in Seq(I) /\ Len(v) = n + 1 /\ v[n + 1] = e /\ \A i \in 1..n : v[i] = s[i]
  BY <1>3, <1>4, <1>6, Joined
<1>8. Once(v, up) /\ Pressed(v) = Pressed(s) \cup {k}
  <2>1. \A i, j \in 1..n + 1 : v[i].vk = v[j].vk => i = j
    BY <1>3, <1>5, <1>7
  <2>2. {v[i].vk : i \in 1..n + 1} = {s[i].vk : i \in 1..n} \cup {k}
    BY <1>3, <1>7
  <2> QED  BY <1>1, <1>5, <1>7, <2>1, <2>2 DEF Once, Pressed
<1>9. PICK w : w = <<e>> \o s
  OBVIOUS
<1>10. w \in Seq(I) /\ Len(w) = n + 1 /\ w[1] = e /\ \A i \in 1..n : w[i + 1] = s[i]
  BY <1>3, <1>4, <1>9, Joined
<1>11. Once(w, up) /\ Pressed(w) = Pressed(s) \cup {k}
  <2>1. \A i \in 2..n + 1 : i - 1 \in 1..n /\ w[i] = s[i - 1]
    <3>1. \A i \in 2..n + 1 : i - 1 \in 1..n /\ (i - 1) + 1 = i
      OBVIOUS
    <3> QED  BY <1>10, <3>1
  <2>2. \A i \in 2..n + 1 : w[i].vk # k
    BY <1>5, <2>1
  <2>3. \A i, j \in 2..n + 1 : w[i].vk = w[j].vk => i = j
    BY <1>5, <2>1
  <2>4. \A i, j \in 1..n + 1 : w[i].vk = w[j].vk => i = j
    <3>1. \A i \in 1..n + 1 : i = 1 \/ i \in 2..n + 1
      OBVIOUS
    <3> QED  BY <1>3, <1>10, <2>2, <2>3, <3>1
  <2>5. {w[i].vk : i \in 1..n + 1} = {s[i].vk : i \in 1..n} \cup {k}
    <3>1. \A i \in 1..n + 1 : i = 1 \/ i \in 2..n + 1
      OBVIOUS
    <3>2. 1 \in 1..n + 1 /\ \A i \in 1..n : i + 1 \in 1..n + 1
      OBVIOUS
    <3> QED  BY <1>3, <1>10, <2>1, <3>1, <3>2
  <2> QED  BY <1>1, <1>5, <1>10, <2>4, <2>5 DEF Once, Pressed
<1> QED  BY <1>2, <1>6, <1>8, <1>9, <1>11

LEMMA SentOnce ==
  ASSUME NEW down \in SUBSET Keys, NEW up \in BOOLEAN, NEW ins, Once(ins, up)
  PROVE  /\ up => SendInput(down, ins) = down \ Pressed(ins)
         /\ ~up => SendInput(down, ins) = down \cup Pressed(ins)
<1>0. PICK I : I = [vk : Keys, up : {up}]
  OBVIOUS
<1>1. /\ DOMAIN ins = 1..Len(ins) /\ Len(ins) \in Nat
      /\ \A i \in 1..Len(ins) : ins[i] \in [vk : Keys, up : {up}]
      /\ \A i, j \in 1..Len(ins) : ins[i].vk = ins[j].vk => i = j
  <2>1. ins \in Seq(I)
    BY <1>0 DEF Once
  <2>2. DOMAIN ins = 1..Len(ins) /\ Len(ins) \in Nat /\ \A i \in 1..Len(ins) : ins[i] \in I
    BY <2>1
  <2> QED  BY <1>0, <2>2 DEF Once
<1>2. \A i \in 1..Len(ins) : ins[i] = keyVK(ins[i].vk, up) /\ ins[i].vk \in Keys /\ ins[i].up = up
  BY <1>1 DEF keyVK
<1>3. \A k : k \in Pressed(ins) <=> \E i \in 1..Len(ins) : ins[i].vk = k
  BY DEF Pressed
<1>4. ASSUME NEW k \in Keys
      PROVE  k \in SendInput(down, ins) <=> (k \in down /\ k \notin Pressed(ins)) \/ (~up /\ k \in Pressed(ins))
  <2>1. k \in SendInput(down, ins) <=>
          \/ k \in down /\ \A i \in 1..Len(ins) : ins[i].vk # k
          \/ \E i \in 1..Len(ins) : /\ ins[i] = keyVK(k, FALSE)
                                    /\ \A j \in i + 1..Len(ins) : ins[j].vk # k
    BY <1>1 DEF SendInput, Keys
  <2>2. ASSUME NEW i \in 1..Len(ins), ins[i].vk = k
        PROVE  \A j \in i + 1..Len(ins) : ins[j].vk # k
    BY <1>1, <2>2
  <2>3. ASSUME NEW i \in 1..Len(ins)
        PROVE  ins[i] = keyVK(k, FALSE) <=> ins[i].vk = k /\ ~up
    <3>1. keyVK(k, FALSE).vk = k /\ keyVK(k, FALSE).up = FALSE
      BY DEF keyVK
    <3>2. ins[i] = keyVK(ins[i].vk, up) /\ ins[i].up = up
      BY <1>2
    <3>3. up = FALSE <=> ~up
      OBVIOUS
    <3> QED  BY <3>1, <3>2, <3>3
  <2> QED  BY <1>3, <2>1, <2>2, <2>3
<1>5. SendInput(down, ins) \subseteq Keys
  BY DEF SendInput, Keys
<1>6. Pressed(ins) \subseteq Keys
  BY <1>2 DEF Pressed
<1> QED  BY <1>4, <1>5, <1>6

LEMMA Presses ==
  ASSUME NEW down \in SUBSET Keys, NEW ins, Once(ins, FALSE)
  PROVE  SendInput(down, ins) = down \cup Pressed(ins)
<1>1. PICK up \in BOOLEAN : up = FALSE
  OBVIOUS
<1> QED  BY <1>1, SentOnce

LEMMA Releases ==
  ASSUME NEW down \in SUBSET Keys, NEW ins, Once(ins, TRUE)
  PROVE  SendInput(down, ins) = down \ Pressed(ins)
<1>1. PICK up \in BOOLEAN : up = TRUE
  OBVIOUS
<1> QED  BY <1>1, SentOnce

(* A chord is its modifiers and its key, each once.                         *)
LEMMA ChordInputs ==
  ASSUME NEW code \in Code, NEW mods \in SUBSET Modifier
  PROVE  /\ Once(KeyInputs(code, mods, TRUE), FALSE)
         /\ Pressed(KeyInputs(code, mods, TRUE)) = mods \cup {code}
         /\ Once(KeyInputs(code, mods, FALSE), TRUE)
         /\ Pressed(KeyInputs(code, mods, FALSE)) = mods \cup {code}
<1>1. code \in Keys /\ code \notin mods
  BY KeysOK DEF KeysOK, Keys
<1>2. ASSUME NEW up \in BOOLEAN
      PROVE  /\ Once(modKeys(mods, up) \o <<keyVK(code, up)>>, up)
             /\ Pressed(modKeys(mods, up) \o <<keyVK(code, up)>>) = mods \cup {code}
             /\ Once(<<keyVK(code, up)>> \o modKeys(mods, up), up)
             /\ Pressed(<<keyVK(code, up)>> \o modKeys(mods, up)) = mods \cup {code}
  <2>1. PICK ms : ms = modKeys(mods, up)
    OBVIOUS
  <2>2. Once(ms, up) /\ Pressed(ms) = mods
    BY <2>1, ModKeysAre
  <2>3. /\ Once(ms \o <<keyVK(code, up)>>, up)
        /\ Pressed(ms \o <<keyVK(code, up)>>) = Pressed(ms) \cup {code}
        /\ Once(<<keyVK(code, up)>> \o ms, up)
        /\ Pressed(<<keyVK(code, up)>> \o ms) = Pressed(ms) \cup {code}
    BY <1>1, <2>2, OnceMore
  <2> QED  BY <2>1, <2>2, <2>3
<1>3. KeyInputs(code, mods, TRUE) = modKeys(mods, FALSE) \o <<keyVK(code, FALSE)>>
  BY Zenon DEF KeyInputs
<1>4. KeyInputs(code, mods, FALSE) = <<keyVK(code, TRUE)>> \o modKeys(mods, TRUE)
  BY Zenon DEF KeyInputs
<1>5. TRUE \in BOOLEAN /\ FALSE \in BOOLEAN
  OBVIOUS
<1> QED  BY <1>2, <1>3, <1>4, <1>5

(* The key comes right behind its modifiers.                                *)
LEMMA KeyBehind ==
  ASSUME NEW code \in Code, NEW mods \in SUBSET Modifier,
         NEW ins, ins = KeyInputs(code, mods, TRUE),
         NEW before, before = SelectInSeq(ins, LAMBDA in : in.vk = code) - 1
  PROVE  SubSeq(ins, 1, before) = modKeys(mods, FALSE)
<1>1. PICK ms : ms = modKeys(mods, FALSE)
  OBVIOUS
<1>2. PICK I : I = [vk : Keys, up : {FALSE}]
  OBVIOUS
<1>3. PICK key : key = keyVK(code, FALSE)
  OBVIOUS
<1>4. Once(ms, FALSE) /\ Pressed(ms) = mods /\ code \notin mods
  BY <1>1, ModKeysAre, KeysOK DEF KeysOK
<1>5. ms \in Seq(I) /\ key \in I /\ key.vk = code
  BY <1>2, <1>3, <1>4 DEF Once, keyVK, Keys
<1>6. PICK n \in Nat : n = Len(ms)
  BY <1>5
<1>7. ins = ms \o <<key>>
  BY <1>1, <1>3 DEF KeyInputs
<1>8. /\ Len(ins) = n + 1 /\ ins[n + 1] = key /\ SubSeq(ins, 1, n) = ms
      /\ \A i \in 1..n : ins[i] = ms[i]
  <2>1. PICK v : v = ms \o <<key>>
    OBVIOUS
  <2>2. /\ Len(v) = n + 1 /\ v[n + 1] = key /\ SubSeq(v, 1, n) = ms
        /\ \A i \in 1..n : v[i] = ms[i]
    BY <1>5, <1>6, <2>1, Joined
  <2> QED  BY <1>7, <2>1, <2>2
<1>9. \A i \in 1..n : ins[i].vk # code
  BY <1>4, <1>6, <1>8 DEF Pressed
<1>10. {i \in 1..Len(ins) : ins[i].vk = code} = {n + 1}
  <2>1. \A i \in 1..n + 1 : i \in 1..n \/ i = n + 1
    OBVIOUS
  <2>2. \A i \in 1..n + 1 : ins[i].vk = code <=> i = n + 1
    BY <1>5, <1>8, <1>9, <2>1
  <2>3. n + 1 \in 1..n + 1
    OBVIOUS
  <2>4. {i \in 1..n + 1 : ins[i].vk = code} = {n + 1}
    BY <2>2, <2>3, Zenon
  <2>5. 1..Len(ins) = 1..n + 1
    BY <1>8
  <2> QED  BY <2>4, <2>5, Zenon
<1>11. before = n
  <2>1. before = Min({n + 1}) - 1
    BY <1>10 DEF SelectInSeq
  <2>2. Min({n + 1}) = n + 1
    BY DEF Min
  <2>3. before = (n + 1) - 1
    BY <2>1, <2>2, Zenon
  <2>4. (n + 1) - 1 = n
    BY <1>6
  <2> QED  BY <2>3, <2>4, Zenon
<1> QED  BY <1>1, <1>8, <1>11

(* What pressing and releasing a chord leaves down.                         *)
LEMMA ChordPressed ==
  ASSUME NEW down \in SUBSET Keys, NEW code \in Code, NEW mods \in SUBSET Modifier
  PROVE  SendInput(down, KeyInputs(code, mods, TRUE)) = down \cup (mods \cup {code})
BY ChordInputs, Presses

LEMMA ChordReleased ==
  ASSUME NEW down \in SUBSET Keys, NEW code \in Code, NEW mods \in SUBSET Modifier
  PROVE  SendInput(down, KeyInputs(code, mods, FALSE)) = down \ (mods \cup {code})
<1>1. PICK ins : ins = KeyInputs(code, mods, FALSE)
  OBVIOUS
<1>2. Once(ins, TRUE) /\ Pressed(ins) = mods \cup {code}
  BY <1>1, ChordInputs
<1>3. SendInput(down, ins) = down \ Pressed(ins)
  BY <1>2, Releases
<1> QED  BY <1>1, <1>2, <1>3, Zenon

(* No key sticks: what is down belongs to a chord that a phone still holds. *)
NothingSticks == \A k \in pressed : \E c \in held : k = c[1] \/ k \in c[2]

KeysInv ==
  /\ pressed \subseteq Keys /\ held \subseteq Chord
  /\ NothingSticks /\ ChordWorks

LEMMA KeyDownStep == ASSUME KeysInv, KeyDown PROVE KeysInv'
<1>1. PICK code \in Code, mods \in SUBSET Modifier :
        LET ins    == KeyInputs(code, mods, TRUE)
            before == SelectInSeq(ins, LAMBDA in : in.vk = code) - 1
        IN /\ pressed' = SendInput(pressed, ins)
           /\ held' = held \cup {<<code, mods>>}
           /\ last' = [call |-> "Key", mods |-> mods,
                       down |-> SendInput(pressed, SubSeq(ins, 1, before))]
  BY DEF KeyDown
<1>2. PICK ins : ins = KeyInputs(code, mods, TRUE)
  OBVIOUS
<1>3. PICK before : before = SelectInSeq(ins, LAMBDA in : in.vk = code) - 1
  OBVIOUS
<1>4. /\ pressed' = SendInput(pressed, ins)
      /\ held' = held \cup {<<code, mods>>}
      /\ last' = [call |-> "Key", mods |-> mods,
                  down |-> SendInput(pressed, SubSeq(ins, 1, before))]
  BY <1>1, <1>2, <1>3
<1>5. pressed' = pressed \cup (mods \cup {code})
  <2>1. pressed \in SUBSET Keys
    BY DEF KeysInv
  <2>2. SendInput(pressed, KeyInputs(code, mods, TRUE)) = pressed \cup (mods \cup {code})
    BY <2>1, ChordPressed
  <2> QED  BY <1>2, <1>4, <2>2, Zenon
<1>6. SendInput(pressed, SubSeq(ins, 1, before)) = pressed \cup mods
  <2>1. PICK ms : ms = modKeys(mods, FALSE)
    OBVIOUS
  <2>2. SubSeq(ins, 1, before) = ms
    BY <1>2, <1>3, <2>1, KeyBehind, Zenon
  <2>3. Once(ms, FALSE) /\ Pressed(ms) = mods
    BY <2>1, ModKeysAre
  <2>4. pressed \in SUBSET Keys
    BY DEF KeysInv
  <2>5. SendInput(pressed, ms) = pressed \cup Pressed(ms)
    BY <2>3, <2>4, Presses
  <2> QED  BY <2>2, <2>3, <2>5, Zenon
<1>7. pressed' \subseteq Keys /\ held' \subseteq Chord
  BY <1>4, <1>5 DEF KeysInv, Keys, Chord
<1>8. NothingSticks'
  BY <1>4, <1>5 DEF KeysInv, NothingSticks
<1>9. ChordWorks'
  BY <1>4, <1>6 DEF ChordWorks
<1> QED  BY <1>7, <1>8, <1>9 DEF KeysInv

LEMMA KeyUpStep == ASSUME KeysInv, KeyUp PROVE KeysInv'
<1>1. PICK c \in held : /\ pressed' = SendInput(pressed, KeyInputs(c[1], c[2], FALSE))
                        /\ held' = held \ {c}
                        /\ last' = Nothing
  BY DEF KeyUp
<1>2. c[1] \in Code /\ c[2] \in SUBSET Modifier
  BY DEF KeysInv, Chord
<1>3. pressed' = pressed \ (c[2] \cup {c[1]})
  <2>1. PICK down : down = pressed
    OBVIOUS
  <2>2. PICK code \in Code, mods \in SUBSET Modifier : code = c[1] /\ mods = c[2]
    BY <1>2
  <2>3. down \in SUBSET Keys
    BY <2>1 DEF KeysInv
  <2>4. SendInput(down, KeyInputs(code, mods, FALSE)) = down \ (mods \cup {code})
    BY <2>3, ChordReleased
  <2>5. pressed' = SendInput(down, KeyInputs(code, mods, FALSE))
    BY <1>1, <2>1, <2>2
  <2> QED  BY <2>1, <2>2, <2>4, <2>5, Zenon
<1>4. NothingSticks'
  BY <1>1, <1>3 DEF KeysInv, NothingSticks
<1> QED  BY <1>1, <1>3, <1>4 DEF KeysInv, ChordWorks, Nothing

LEMMA KeysStep == KeysInv /\ [Next]_vars => KeysInv'
<1> SUFFICES ASSUME KeysInv, [Next]_vars PROVE KeysInv'
  OBVIOUS
<1>1. ASSUME UNCHANGED keys, last'.call # "Key" \/ last' = last PROVE KeysInv'
  BY <1>1 DEF KeysInv, NothingSticks, ChordWorks, keys
<1>2. CASE MoveRel \/ MoveAbs \/ Button \/ MouseMoves \/ ScreenChanges \/ Text \/ UNCHANGED vars
  BY <1>1, <1>2 DEF MoveRel, MoveAbs, Button, MouseMoves, ScreenChanges, Text, vars, Nothing
<1> QED  BY <1>2, KeyDownStep, KeyUpStep DEF Next

-----------------------------------------------------------------------------
(* The texts.                                                               *)

(* The limits, as facts: the provers enumerate a range of numerals.         *)
LEMMA Limits == Scale \in Nat /\ Scale >= 65535 /\ MaxRune \in Nat /\ MaxRune <= 1114111
BY SMT DEF Scale, MaxRune

(* A code point is sent as itself, or as the pair of surrogates that makes  *)
(* it up.                                                                   *)
LEMMA UnitsPair ==
  ASSUME NEW r \in 0..MaxRune
  PROVE  /\ r <= 65535 => utf16Units(r) = <<r>>
         /\ r > 65535 => \E h \in High, l \in Low :
                           utf16Units(r) = <<h, l>> /\ Pair(h, l) = r
<1>1. CASE r <= 65535
  BY SMT, <1>1 DEF utf16Units
<1>2. CASE r > 65535
  <2>1. PICK s \in Nat : s = r - 65536 /\ s < 1048576
    <3>1. r \in Nat /\ r <= 1114111
      BY SMT, Limits
    <3> QED  BY SMT, <1>2, <3>1
  <2>2. PICK h : h = 55296 + (s \div 1024)
    OBVIOUS
  <2>3. PICK l : l = 56320 + (s % 1024)
    OBVIOUS
  <2>4. h \in High /\ l \in Low
    BY SMT, <2>1, <2>2, <2>3 DEF High, Low
  <2>5. Pair(h, l) = r
    BY SMT, <1>2, <2>1, <2>2, <2>3 DEF Pair
  <2>6. utf16Units(r) = <<h, l>>
    BY SMT, <1>2, <2>1, <2>2, <2>3 DEF utf16Units
  <2> QED  BY SMT, <1>2, <2>4, <2>5, <2>6
<1> QED  BY SMT, <1>1, <1>2

(* Its units have 16 bits.                                                  *)
LEMMA UnitsFit == ASSUME NEW r \in 0..MaxRune PROVE utf16Units(r) \in Seq(0..Scale)
<1>1. CASE r <= 65535
  <2>1. r \in 0..Scale
    BY SMT, <1>1, Limits
  <2>2. <<r>> \in Seq(0..Scale)
    BY SMT, <2>1
  <2>3. utf16Units(r) = <<r>>
    BY SMT, <1>1, UnitsPair
  <2> QED  BY <2>2, <2>3, Zenon
<1>2. CASE r > 65535
  <2>1. PICK h \in High, l \in Low : utf16Units(r) = <<h, l>>
    BY SMT, <1>2, UnitsPair
  <2>2. h \in 0..Scale /\ l \in 0..Scale
    BY SMT, <2>1, Limits DEF High, Low
  <2> QED  BY SMT, <2>1, <2>2
<1> QED  BY SMT, <1>1, <1>2

(* A code point that is no surrogate neither begins with the second half of *)
(* a pair nor ends with a first one.                                        *)
LEMMA UnitsApart ==
  ASSUME NEW r \in 0..MaxRune, r \notin High \cup Low,
         NEW us, us = utf16Units(r)
  PROVE  /\ \/ us = <<r>>
            \/ Len(us) = 2 /\ Together(us[1], us[2]) /\ Pair(us[1], us[2]) = r
         /\ us[1] \notin Low /\ us[Len(us)] \notin High
<1>1. CASE r <= 65535
  <2>1. us = <<r>>
    BY SMT, <1>1, UnitsPair
  <2>2. us[1] = r /\ Len(us) = 1
    BY SMT, <2>1
  <2> QED  BY <2>1, <2>2, Zenon
<1>2. CASE r > 65535
  <2>1. PICK h \in High, l \in Low : us = <<h, l>> /\ Pair(h, l) = r
    BY SMT, <1>2, UnitsPair
  <2>2. us[1] = h /\ us[2] = l /\ Len(us) = 2
    BY SMT, <2>1
  <2>3. h \notin Low /\ l \notin High
    <3>1. h \in Nat /\ h <= 56319
      BY SMT, <2>1 DEF High
    <3>2. l \in Nat /\ l >= 56320
      BY SMT, <2>1 DEF Low
    <3>3. \A u \in High : u <= 56319
      BY SMT DEF High
    <3>4. \A u \in Low : u >= 56320
      BY SMT DEF Low
    <3> QED  BY SMT, <3>1, <3>2, <3>3, <3>4
  <2> QED  BY <2>1, <2>2, <2>3, Zenon DEF Together
<1> QED  BY SMT, <1>1, <1>2

LEMMA TextStep == ASSUME Text PROVE TextArrives'
<1>1. PICK t \in Message :
        last' = [call |-> "Text", text |-> t,
                 units |-> [i \in DOMAIN t |-> utf16Units(t[i])]]
  BY DEF Text
<1>2. PICK R : R = 0..MaxRune
  OBVIOUS
<1>3. t \in Seq(R) /\ \A i \in DOMAIN t : t[i] \notin High \cup Low
  BY <1>2, MessagesOK, Zenon DEF MessagesOK
<1>4. PICK n \in Nat : n = Len(t) /\ DOMAIN t = 1..n
  BY SMT, <1>3
<1>5. PICK units : units = [i \in 1..n |-> utf16Units(t[i])]
  OBVIOUS
<1>6. last'.text = t /\ last'.units = units
  BY <1>1, <1>4, <1>5, Zenon
<1>7. Len(units) = n
  BY SMT, <1>4, <1>5
<1>8. ASSUME NEW i \in 1..n
      PROVE  /\ \/ units[i] = <<t[i]>>
                \/ /\ Len(units[i]) = 2 /\ Together(units[i][1], units[i][2])
                   /\ Pair(units[i][1], units[i][2]) = t[i]
             /\ units[i][1] \notin Low /\ units[i][Len(units[i])] \notin High
  <2>1. t[i] \in R
    BY SMT, <1>3, <1>4
  <2>2. t[i] \in 0..MaxRune /\ t[i] \notin High \cup Low
    BY <1>2, <1>3, <1>4, <2>1, Zenon
  <2>3. units[i] = utf16Units(t[i])
    BY <1>5, Zenon
  <2> QED  BY <2>2, <2>3, UnitsApart, Zenon
<1>9. ASSUME NEW i \in 1..n, i < n
      PROVE  ~Together(units[i][Len(units[i])], units[i + 1][1])
  BY <1>8, <1>9, Zenon DEF Together
<1> QED  BY <1>4, <1>6, <1>7, <1>8, <1>9, Zenon DEF TextArrives

-----------------------------------------------------------------------------
(* The types.                                                               *)

(* A place on the virtual screen is one.                                    *)
LEMMA OnScreen ==
  ASSUME metrics \in Metrics, NEW v \in Left..Right
  PROVE  [space |-> "virtual", n |-> normAbs(v)] \in Place
BY Ends DEF Place

LEMMA MovedTypes ==
  ASSUME TypeOK, NEW d \in Int, AbsMove(d), UNCHANGED metrics
  PROVE  seeded' \in BOOLEAN /\ x' \in -Half..Half - 1 /\ pointer' \in Place
<1>1. metrics \in Metrics /\ x \in Int /\ PosInv
  BY HalfOK DEF TypeOK, HalfOK, PosInv
<1>2. seeded' /\ x' \in Left..Right /\ pointer' = [space |-> "virtual", n |-> normAbs(x')]
  BY <1>1, Moved
<1>3. pointer' \in Place
  BY <1>1, <1>2, OnScreen
<1>4. x' \in -Half..Half - 1
  BY <1>1, <1>2, Screen, HalfOK DEF HalfOK
<1>5. seeded' \in BOOLEAN
  BY DEF AbsMove
<1> QED  BY <1>3, <1>4, <1>5

LEMMA MoveRelTypes == ASSUME TypeOK, MoveRel PROVE TypeOK'
<1>1. PICK d \in Delta :
        /\ IF absolute
             THEN AbsMove(d) /\ aim' = pointer'
             ELSE pointer' = Somewhere /\ aim' = Somewhere /\ UNCHANGED <<seeded, x>>
        /\ last' = Nothing /\ UNCHANGED <<absolute, metrics, keys>>
  BY DEF MoveRel
<1>2. d \in Int
  BY DistancesOK DEF DistancesOK
<1>3. CASE absolute
  BY <1>1, <1>2, <1>3, MovedTypes DEF TypeOK, Outcome, keys
<1>4. CASE ~absolute
  BY <1>1, <1>4 DEF TypeOK, Place, Outcome, keys
<1> QED  BY <1>3, <1>4

LEMMA MoveAbsTypes == ASSUME TypeOK, MoveAbs PROVE TypeOK'
<1>1. PICK n \in Position : pointer' = OnPrimary(n)
  BY DEF MoveAbs
<1>2. Int32(n) \in Int
  BY Int32Range, DistancesOK, HalfOK DEF DistancesOK, HalfOK
<1>3. clampI32(Int32(n), 0, Scale) \in 0..Scale
  BY SMT, <1>2, Clamped, Limits
<1>4. pointer' \in Place
  BY <1>1, <1>3 DEF OnPrimary, Place
<1> QED  BY <1>4 DEF MoveAbs, TypeOK, Place, Outcome, keys

LEMMA ButtonTypes == ASSUME TypeOK, Button PROVE TypeOK'
<1>1. seeded' \in BOOLEAN /\ x' \in -Half..Half - 1 /\ pointer' \in Place
  <2>1. CASE absolute
    BY <2>1, MovedTypes DEF Button, ButtonMoves
  <2>2. CASE ~absolute
    BY <2>2 DEF Button, ButtonMoves, TypeOK
  <2> QED  BY <2>1, <2>2
<1>2. last' \in Outcome
  <2>1. last' = [call |-> "Button", at |-> pointer', aim |-> aim]
    BY DEF Button
  <2> QED  BY <1>1, <2>1 DEF Outcome, TypeOK
<1> QED  BY <1>1, <1>2 DEF Button, TypeOK, keys

LEMMA KeyTypes == ASSUME TypeOK, KeyDown \/ KeyUp PROVE TypeOK'
<1>1. \A down, ins : SendInput(down, ins) \subseteq Code \cup Modifier
  BY DEF SendInput
<1>2. CASE KeyDown
  <2>1. PICK code \in Code, mods \in SUBSET Modifier, down \in SUBSET (Code \cup Modifier) :
          /\ held' = held \cup {<<code, mods>>}
          /\ last' = [call |-> "Key", mods |-> mods, down |-> down]
    BY <1>1, <1>2 DEF KeyDown
  <2>2. last' \in Outcome /\ held' \subseteq Chord
    BY <2>1 DEF Outcome, Chord, TypeOK
  <2>3. pressed' \subseteq Code \cup Modifier
    BY <1>1, <1>2 DEF KeyDown
  <2> QED  BY <1>2, <2>2, <2>3 DEF KeyDown, TypeOK, pos
<1>3. CASE KeyUp
  BY <1>1, <1>3 DEF KeyUp, TypeOK, Outcome, pos
<1> QED  BY <1>2, <1>3

LEMMA TextTypes == ASSUME TypeOK, Text PROVE TypeOK'
<1>1. PICK t \in Message :
        last' = [call |-> "Text", text |-> t,
                 units |-> [i \in DOMAIN t |-> utf16Units(t[i])]]
  BY DEF Text
<1>2. PICK units : units = [i \in DOMAIN t |-> utf16Units(t[i])]
  OBVIOUS
<1>3. t \in Seq(0..MaxRune)
  BY MessagesOK DEF MessagesOK
<1>4. PICK U : U = Seq(0..Scale)
  OBVIOUS
<1>5. \A i \in DOMAIN t : utf16Units(t[i]) \in U
  <2>1. PICK R : R = 0..MaxRune
    OBVIOUS
  <2>2. t \in Seq(R)
    BY <1>3, <2>1, Zenon
  <2>3. \A i \in DOMAIN t : t[i] \in R
    BY SMT, <2>2
  <2>4. \A r \in R : utf16Units(r) \in U
    BY <1>4, <2>1, UnitsFit, Zenon
  <2> QED  BY <2>3, <2>4, Zenon
<1>6. units \in Seq(U)
  BY <1>2, <1>3, <1>5
<1>7. last' \in Outcome
  BY <1>1, <1>2, <1>4, <1>6 DEF Outcome
<1> QED  BY <1>7 DEF Text, TypeOK, pos, keys

LEMMA TypeStep == TypeOK /\ [Next]_vars => TypeOK'
<1> SUFFICES ASSUME TypeOK, [Next]_vars PROVE TypeOK'
  OBVIOUS
<1>1. CASE MouseMoves \/ ScreenChanges
  BY <1>1 DEF MouseMoves, ScreenChanges, TypeOK, Place, Outcome, keys
<1>2. CASE UNCHANGED vars
  BY <1>2 DEF vars, pos, keys, TypeOK
<1> QED
  BY <1>1, <1>2, MoveRelTypes, MoveAbsTypes, ButtonTypes, KeyTypes, TextTypes DEF Next

-----------------------------------------------------------------------------
(* Whatever a phone sends and whatever the screens become, the injector     *)
(* keeps to its types: the tracked position has 32 bits, the positions sent *)
(* are on the scale of SendInput, and the units of a text have 16 bits      *)
(* (injector_windows.go:210-230, 252-259, 382-394).                         *)
THEOREM TypeCorrect == Spec => []TypeOK
<1>1. Init => TypeOK
  <2>1. 0 \in -Half..Half - 1
    BY HalfOK, Limits DEF HalfOK
  <2> QED  BY <2>1 DEF Init, TypeOK, Place, Outcome
<1> QED  BY <1>1, TypeStep, PTL DEF Spec

(* On the secure desktop a click lands where the phone last moved the       *)
(* pointer to (injector_windows.go:199-208).                                *)
THEOREM ClickLandsHolds == Spec => []ClickLands
<1>1. IInv => ClickLands BY DEF IInv
<1> QED BY InitOK, StepOK, <1>1, PTL DEF Spec

(* Wherever the phone moves, the tracked position is on the screen, and the *)
(* ends of the screen are sent as the ends of the scale                     *)
(* (injector_windows.go:210-230, 252-259).                                  *)
THEOREM ReachesHolds == Spec => []Reaches
<1>1. IInv => Reaches BY Ends DEF IInv, PosInv, AimInv, Reaches
<1> QED BY InitOK, StepOK, <1>1, PTL DEF Spec

(* Whatever chords phones press and release, in whatever order, a key goes  *)
(* down under the modifiers of its chord (Key, injector_windows.go:350-367).*)
THEOREM ChordWorksHolds == Spec => []ChordWorks
<1>1. Init => KeysInv
  BY DEF Init, KeysInv, NothingSticks, ChordWorks, Nothing
<1>2. KeysInv => ChordWorks
  BY DEF KeysInv
<1> QED
  BY <1>1, <1>2, KeysStep, PTL DEF Spec

(* Nor does a key or a modifier stay down when no phone holds a chord with  *)
(* it any more: Key releases all it has pressed (injector_windows.go:362-   *)
(* 365).                                                                    *)
THEOREM NothingSticksHolds == Spec => []NothingSticks
<1>1. Init => KeysInv
  BY DEF Init, KeysInv, NothingSticks, ChordWorks, Nothing
<1>2. KeysInv => NothingSticks
  BY DEF KeysInv
<1> QED
  BY <1>1, <1>2, KeysStep, PTL DEF Spec

(* A text arrives as what it was: every code point's units are taken as it, *)
(* and none of them together with one of the next, for texts of any length  *)
(* (Text, utf16Units, injector_windows.go:334-348, 386-392).                *)
THEOREM TextArrivesHolds == Spec => []TextArrives
<1>1. Init => TextArrives
  <2>1. Nothing.call # "Text"
    BY DEF Nothing
  <2> QED  BY <2>1, Zenon DEF Init, TextArrives
<1>2. TextArrives /\ [Next]_vars => TextArrives'
  <2> SUFFICES ASSUME TextArrives, [Next]_vars PROVE TextArrives'
    OBVIOUS
  <2>1. CASE last' = last \/ last'.call # "Text"
    BY <2>1 DEF TextArrives
  <2>2. CASE MoveRel \/ MoveAbs \/ Button \/ MouseMoves \/ ScreenChanges \/ KeyDown \/ KeyUp
             \/ UNCHANGED vars
    <3>1. last' = Nothing \/ last'.call \in {"Button", "Key"} \/ last' = last
      <4>1. ASSUME KeyDown PROVE last'.call = "Key"
        <5>1. PICK mods, down : last' = [call |-> "Key", mods |-> mods, down |-> down]
          BY <4>1, Zenon DEF KeyDown
        <5> QED  BY <5>1
      <4>2. ASSUME Button PROVE last'.call = "Button"
        BY <4>2 DEF Button
      <4>3. MoveRel \/ MoveAbs \/ MouseMoves \/ ScreenChanges \/ KeyUp => last' = Nothing
        BY Zenon DEF MoveRel, MoveAbs, MouseMoves, ScreenChanges, KeyUp
      <4>4. UNCHANGED vars => last' = last
        BY DEF vars
      <4> QED  BY <2>2, <4>1, <4>2, <4>3, <4>4
    <3>2. Nothing.call # "Text"
      BY DEF Nothing
    <3> QED  BY <2>1, <3>1, <3>2
  <2> QED  BY <2>2, TextStep DEF Next
<1> QED  BY <1>1, <1>2, PTL DEF Spec

=============================================================================
